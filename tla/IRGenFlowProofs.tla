--------------------------- MODULE IRGenFlowProofs ---------------------------
(***************************************************************************)
(* Proofs about where the generator writes, for every tree, vocabulary and *)
(* argument list: HeldPointersStable, NothingAfterLeaving and              *)
(* SuccessorsAcyclic are invariants of Spec, and ClosedStays is a property *)
(* of its steps.                                                           *)
(*                                                                         *)
(* Nothing in ir_generate_ssa says which blocks an item may write: that it *)
(* leaves alone what the items below it hold follows from the order in     *)
(* which blocks are made.  An item that has opened blocks has a floor, the *)
(* first of them; what lies below the item on the worklist uses only       *)
(* blocks under the floor, what lies above it, and every walk, only blocks *)
(* inside, from the floor on, and no successor leads out.  RegionInv says  *)
(* so, and the properties rest on it: NothingAfterLeaving also on          *)
(* CleanInv, which says where nothing has left a block yet, and            *)
(* SuccessorsAcyclic on PathInv.                                           *)
(*                                                                         *)
(* Most successors are new blocks.  The others are those that a walk adds  *)
(* from its leaves to the block it jumps to.  They close no cycle because  *)
(* there is a set of blocks that the jump leads into and that nothing      *)
(* leads out of (Ahead), while the leaves are outside of it: the join of   *)
(* AND, OR or IF, which leads nowhere yet, or the condition of a WHILE.    *)
(* What a WHILE leads to are successors of the block before it, and not of *)
(* its condition (ir.c:765), or the loop's own edge would be a cycle.      *)
(***************************************************************************)
EXTENDS IRGenProofs

Node(i) == worklist[i].node
State(i) == worklist[i].state
Kind(i) == ast[worklist[i].node].kind
\* The members of a sequence.
Elements(s) == {s[x] : x \in DOMAIN s}

\* The item waits for the condition of its loop.
Testing(i) == Kind(i) = "WHILE" /\ State(i) = 1

\* The item holds the instruction that leads to its blocks.
Holding(i) ==
    \/ Kind(i) = "BLOCK" /\ State(i) = 1
    \/ State(i) = 2

\* The item has made blocks, and waits for what is generated into them.
Opens(i) == Testing(i) \/ Holding(i)
HeldBlocks(i) == HeldInstr(Node(i)).blks

\* The first of the blocks that the item has made.
Floor(i) ==
    IF Testing(i) THEN top[Node(i)]
    ELSE HeldBlocks(i)[IF Kind(i) = "OR" THEN 2 ELSE 1]

\* The one of them in which what follows the item goes on: none leads there
\* before the item is done.
Spare(i) ==
    IF State(i) # 2 \/ Kind(i) = "IF" THEN {}
    ELSE {HeldBlocks(i)[IF Kind(i) = "OR" THEN 1 ELSE 2]}

\* The blocks of the item's region.
Inside(i) == {b \in Blocks : b >= Floor(i)} \ Spare(i)

\* The blocks that the item was given, and those it has made.
Outer(i) ==
    {worklist[i].block} \cup
    IF Kind(i) = "WHILE" /\ State(i) = 2 THEN {top[Node(i)]} ELSE {}
\* And those it has made, as long as it knows them.
Inner(i) ==
    IF Testing(i) THEN {nodeBlock[Node(i)], top[Node(i)]}
    ELSE IF Holding(i) THEN Elements(HeldBlocks(i)) ELSE {}
Uses(i) == Outer(i) \cup Inner(i)

\* An item that waits lies under what it waits for.
Order ==
    \A i, j \in DOMAIN worklist :
        i < j /\ State(i) # 0 => Node(j) > Node(i)

\* The region of an item is closed: nothing below the item reaches into it,
\* what lies above, the walks and the successors stay in it.
Nested(i) ==
    /\ Floor(i) \in Inside(i)
    /\ \A b \in Outer(i) : b < Floor(i)
    /\ \A b \in Inner(i) : b >= Floor(i)
    /\ Holding(i) => held[Node(i)][1] < Floor(i)
    /\ \A k \in DOMAIN worklist : k < i => \A b \in Uses(k) : b < Floor(i)
    /\ \A k \in DOMAIN worklist : k > i => Uses(k) \subseteq Inside(i)
    /\ \A b \in Inside(i) : Elements(succ[b]) \subseteq Inside(i)
    /\ \A w \in DOMAIN walk :
          /\ walk[w].block \in Inside(i)
          /\ walk[w].do # "return" => walk[w].jump \in Inside(i)

Regions == \A i \in DOMAIN worklist : Opens(i) => Nested(i)

\* What will still be written is not closed.
StillOpen ==
    /\ \A i \in DOMAIN worklist : Uses(i) \cap closed = {}
    /\ \A w \in DOMAIN walk :
          /\ walk[w].do # "return" => walk[w].jump \notin closed
          /\ walk[w].do = "link" => walk[w].block \notin closed

\* The walks over successors come first, and are parts of one call.
Walker(w) == walk[w].do \in Walks
OneCall ==
    /\ \A v, w \in DOMAIN walk : v < w /\ Walker(w) => Walker(v)
    /\ \A v, w \in DOMAIN walk : Walker(v) /\ Walker(w) =>
          walk[v].do = walk[w].do /\ walk[v].jump = walk[w].jump
    /\ \A v, w \in DOMAIN walk : walk[v].do = "return" =>
          walk[v].jump = NoBlock /\ walk[w].do = "return"

\* S holds the blocks the walk comes to, but for the one it jumps to, and
\* none that is used once it is over: not the one that holds the instruction
\* of the node whose handler goes on behind the walk.
Apart(S) ==
    /\ \A w \in DOMAIN walk : Walker(w) =>
          /\ walk[w].block \in S \cup {walk[w].jump}
          /\ walk[w].jump \notin S
          /\ \A b \in S : Elements(succ[b]) \subseteq S \cup {walk[w].jump}
    /\ \A w \in DOMAIN walk : walk[w].do = "rewrite" =>
          walk[w].block \notin S /\ walk[w].jump \notin S
    /\ \A w \in DOMAIN walk : walk[w].do # "return" =>
          walk[w].jump \notin S /\ held[walk[w].node][1] \notin S
    /\ \A i \in DOMAIN worklist : Uses(i) \cap S = {}
WalkApart == \E S \in SUBSET Blocks : Apart(S)

\* The instructions held are the last of their blocks: those of the items
\* that wait, and those that a handler reads again behind a walk.
FramesHeld ==
    \A w \in DOMAIN walk :
        /\ walk[w].do # "return" =>
              held[walk[w].node][2] = Len(code[held[walk[w].node][1]])
        /\ walk[w].do = "phi" \/ walk[w].at # 0 =>
              walk[w].at = Len(code[walk[w].jump])
LastHeld ==
    /\ \A i \in DOMAIN worklist : Holding(i) =>
          held[Node(i)][2] = Len(code[held[Node(i)][1]])
    /\ FramesHeld

\* The invariant that the properties of where the generator writes rest on.
RegionInv ==
    /\ Order
    /\ Regions
    /\ StillOpen
    /\ OneCall
    /\ WalkApart
    /\ LastHeld

\* Nothing in the block leaves it yet.
Clean(b) == ~Leaves(code[b])

\* What goes on after a block that was left is to go on elsewhere: the item
\* that left it, or the rewrite that ends its walk, says so.
Left(b) ==
    \/ \E i \in DOMAIN worklist :
          (Testing(i) \/ State(i) = 2) /\ worklist[i].block = b
    \/ \E w \in DOMAIN walk : walk[w].do = "rewrite" /\ walk[w].block = b

\* Where an item goes on nothing has left the block, unless it is to move.
CleanItem(i) ==
    /\ Clean(worklist[i].block) \/ Left(worklist[i].block)
    /\ Testing(i) => Clean(nodeBlock[Node(i)]) \/ Left(nodeBlock[Node(i)])
    /\ \A b \in Spare(i) : Clean(b)

\* A block that is left is left once, and only jumps of walks come behind.
Cut(b, i) ==
    /\ i \in DOMAIN code[b] /\ code[b][i].op \in Leaving
    /\ \A j \in DOMAIN code[b] :
          /\ j < i => code[b][j].op \notin Leaving
          /\ j > i => code[b][j].op \in {"JUMP", "RETURN"}
Tidy(b) == Clean(b) \/ \E i \in DOMAIN code[b] : Cut(b, i)

\* No item goes on behind an instruction that leaves its block.
CleanInv ==
    /\ \A i \in DOMAIN worklist : CleanItem(i)
    /\ \A w \in DOMAIN walk : walk[w].do = "rewrite" => Clean(walk[w].jump)
    /\ \A b \in Blocks : Tidy(b)

-----------------------------------------------------------------------------
(* Items. *)

\* What the type invariant says of one item.
LEMMA ItemTyped ==
    ASSUME IInv, NEW i \in DOMAIN worklist
    PROVE  /\ i \in Nat /\ i >= 1 /\ i <= Len(worklist)
           /\ Node(i) \in Nodes /\ State(i) \in 0..2
           /\ worklist[i].block \in Blocks /\ ItemReady(worklist[i])
<1>1. worklist \in Seq(ReadyItems)
    BY DEF IInv
<1>2. worklist[i] \in ReadyItems /\ i \in 1..Len(worklist) /\ Len(worklist) \in Nat
    BY <1>1, ElementOfSeq, LenProperties
<1>. QED
    BY <1>2 DEF ReadyItems, Node, State

\* What an item holds is a BRANCH or a BLOCK that has its targets.
LEMMA HoldingTyped ==
    ASSUME IInv, NEW i \in DOMAIN worklist, Holding(i)
    PROVE  /\ held[Node(i)][1] \in Blocks
           /\ held[Node(i)][2] \in DOMAIN code[held[Node(i)][1]]
           /\ HeldInstr(Node(i)).op # "PHI"
           /\ HeldBlocks(i) \in Seq(Blocks)
           /\ State(i) = 2 => /\ Len(HeldBlocks(i)) = 2
                              /\ Kind(i) \in {"AND", "OR", "IF", "WHILE"}
           /\ State(i) # 2 => Len(HeldBlocks(i)) = 1 /\ Kind(i) = "BLOCK"
<1>1. Node(i) \in Nodes /\ ItemReady(worklist[i])
    BY ItemTyped
<1>2. /\ State(i) # 2 => Kind(i) = "BLOCK" /\ Holds(Node(i), {"BLOCK"})
      /\ State(i) = 2 => /\ Kind(i) \in {"AND", "OR", "IF", "WHILE"}
                         /\ Holds(Node(i), {"BRANCH"})
    BY <1>1 DEF Holding, ItemReady, Node, State, Kind
<1>3. /\ held[Node(i)][1] \in Blocks
      /\ held[Node(i)][2] \in DOMAIN code[held[Node(i)][1]]
      /\ State(i) # 2 => HeldInstr(Node(i)).op = "BLOCK"
      /\ State(i) = 2 => HeldInstr(Node(i)).op = "BRANCH"
    BY <1>2 DEF Holds
<1>4. HeldInstr(Node(i)) \in ReadyInstructions(Blocks)
    BY <1>3, BlockIsSeq DEF IInv, HeldInstr
<1>5. HeldInstr(Node(i)) \in Instruction(Blocks) /\ Shaped(HeldInstr(Node(i)))
    BY <1>4 DEF ReadyInstructions
<1>6. HeldBlocks(i) \in Seq(Blocks)
    BY <1>5 DEF Instruction, HeldBlocks
<1>. QED
    BY <1>2, <1>3, <1>5, <1>6 DEF Shaped, HeldBlocks

\* The blocks an item refers to are blocks of the function.
LEMMA UsesTyped ==
    ASSUME IInv, NEW i \in DOMAIN worklist
    PROVE  /\ Uses(i) \subseteq Blocks
           /\ Opens(i) => Floor(i) \in Blocks
           /\ Opens(i) => Spare(i) \subseteq Blocks
           /\ ~Opens(i) => Uses(i) = {worklist[i].block}
           /\ worklist[i].block \in Uses(i)
<1>1. /\ Node(i) \in Nodes /\ worklist[i].block \in Blocks /\ ItemReady(worklist[i])
      /\ State(i) \in 0..2
    BY ItemTyped
<1>2. /\ nodeBlock[Node(i)] \in Blocks \cup {NoBlock}
      /\ top[Node(i)] \in Blocks \cup {NoBlock}
    BY <1>1 DEF IInv, FlowOK
<1>3. Kind(i) = "WHILE" /\ State(i) # 0 => /\ nodeBlock[Node(i)] \in Blocks
                                           /\ top[Node(i)] \in Blocks
    BY <1>1, <1>2 DEF ItemReady, Node, State, Kind
<1>4. Holding(i) => Elements(HeldBlocks(i)) \subseteq Blocks
    BY HoldingTyped, ElementOfSeq DEF Elements
<1>5. Holding(i) => /\ 1 \in DOMAIN HeldBlocks(i)
                    /\ State(i) = 2 => 2 \in DOMAIN HeldBlocks(i)
                    /\ State(i) # 2 => Kind(i) = "BLOCK"
    BY HoldingTyped
<1>6. Uses(i) \subseteq Blocks
    BY <1>1, <1>3, <1>4 DEF Uses, Outer, Inner, Testing
<1>7. Opens(i) => Floor(i) \in Blocks
    BY <1>3, <1>4, <1>5 DEF Opens, Testing, Floor, Elements
<1>8. Opens(i) => Spare(i) \subseteq Blocks
    <2>1. CASE State(i) # 2
        BY <2>1 DEF Spare
    <2>2. CASE State(i) = 2
        BY <1>4, <1>5, <2>2 DEF Holding, Spare, Elements
    <2>. QED
        BY <2>1, <2>2
<1>. QED
    BY <1>6, <1>7, <1>8 DEF Uses, Outer, Inner, Opens, Holding
-----------------------------------------------------------------------------
(* What a step leaves of an item that it does not touch. *)

\* Every instruction stays where it is; only a PHI gets new operands.
Stays ==
    /\ Blocks \subseteq Blocks'
    /\ \A b \in Blocks : \A x \in DOMAIN code[b] :
          /\ x \in DOMAIN code'[b]
          /\ code[b][x].op # "PHI" => code'[b][x] = code[b][x]

\* An item whose pointers and instructions stay sees the same regions.
LEMMA ViewKept ==
    ASSUME IInv, Stays, ast' = ast,
           NEW i \in DOMAIN worklist,
           worklist'[i].node = worklist[i].node,
           worklist'[i].state = worklist[i].state,
           Opens(i) => /\ held'[Node(i)] = held[Node(i)]
                       /\ top'[Node(i)] = top[Node(i)]
    PROVE  /\ Node(i)' = Node(i) /\ State(i)' = State(i) /\ Kind(i)' = Kind(i)
           /\ Testing(i)' <=> Testing(i)
           /\ Holding(i)' <=> Holding(i)
           /\ Opens(i)' <=> Opens(i)
           /\ Holding(i) => HeldBlocks(i)' = HeldBlocks(i)
           /\ Opens(i) => Floor(i)' = Floor(i) /\ Spare(i)' = Spare(i)
<1>1. Node(i)' = Node(i) /\ State(i)' = State(i) /\ Kind(i)' = Kind(i)
    BY DEF Node, State, Kind
<1>2. /\ Testing(i)' <=> Testing(i)
      /\ Holding(i)' <=> Holding(i)
      /\ Opens(i)' <=> Opens(i)
    BY <1>1 DEF Testing, Holding, Opens
<1>3. Holding(i) => HeldBlocks(i)' = HeldBlocks(i)
    <2>. SUFFICES ASSUME Holding(i) PROVE HeldBlocks(i)' = HeldBlocks(i)
        OBVIOUS
    <2>1. held'[Node(i)] = held[Node(i)]
        BY DEF Opens
    <2>2. /\ held[Node(i)][1] \in Blocks
          /\ held[Node(i)][2] \in DOMAIN code[held[Node(i)][1]]
          /\ HeldInstr(Node(i)).op # "PHI"
        BY HoldingTyped
    <2>3. code'[held[Node(i)][1]][held[Node(i)][2]] =
             code[held[Node(i)][1]][held[Node(i)][2]]
        BY <2>2 DEF Stays, HeldInstr
    <2>. QED
        BY <1>1, <2>1, <2>3 DEF HeldBlocks, HeldInstr
<1>4. Opens(i) => Floor(i)' = Floor(i)
    BY <1>1, <1>2, <1>3 DEF Opens, Floor
<1>5. Opens(i) => Spare(i)' = Spare(i)
    BY <1>1, <1>2, <1>3 DEF Opens, Testing, Holding, Spare
<1>. QED
    BY <1>1, <1>2, <1>3, <1>4, <1>5

\* And it uses the same blocks, when it is not moved.
LEMMA UsesKept ==
    ASSUME IInv, Stays, ast' = ast,
           NEW i \in DOMAIN worklist,
           worklist'[i] = worklist[i],
           Opens(i) => /\ held'[Node(i)] = held[Node(i)]
                       /\ top'[Node(i)] = top[Node(i)]
                       /\ nodeBlock'[Node(i)] = nodeBlock[Node(i)]
    PROVE  /\ Outer(i)' = Outer(i) /\ Inner(i)' = Inner(i) /\ Uses(i)' = Uses(i)
<1>1. /\ Node(i)' = Node(i) /\ State(i)' = State(i) /\ Kind(i)' = Kind(i)
      /\ Testing(i)' <=> Testing(i)
      /\ Holding(i)' <=> Holding(i)
      /\ Opens(i)' <=> Opens(i)
      /\ Holding(i) => HeldBlocks(i)' = HeldBlocks(i)
    BY ViewKept
<1>2. Outer(i)' = Outer(i)
    BY <1>1 DEF Outer, Opens, Holding
<1>3. Inner(i)' = Inner(i)
    BY <1>1 DEF Inner, Opens, Elements
<1>. QED
    BY <1>2, <1>3 DEF Uses

-----------------------------------------------------------------------------
(* One turn of the loop, as the items below the popped one see it. *)

Depth == Len(worklist)
New == Blocks' \ Blocks

\* No closed block is written.
ClosedKept ==
    /\ closed \subseteq closed'
    /\ \A b \in closed : code'[b] = code[b] /\ succ'[b] = succ[b]
\* What every step keeps.
RegionStep == RegionInv' /\ ClosedKept /\ (CleanInv => CleanInv')

\* Only what the popped item uses is written, and what is put back uses only
\* that and new blocks.
Turned ==
    /\ worklist # <<>> /\ walk = <<>>
    /\ ast' = ast /\ closed' = closed
    /\ Stays
    /\ \A b \in Blocks \ Uses(Depth) : code'[b] = code[b] /\ succ'[b] = succ[b]
    /\ \A b \in Blocks' : Elements(succ'[b]) \subseteq
          Uses(Depth) \cup New \cup (IF b \in Blocks THEN Elements(succ[b]) ELSE {})
    /\ Len(worklist') >= Depth - 1
    /\ \A i \in 1..(Depth - 1) : worklist'[i] = worklist[i]
    /\ \A n \in Nodes : n # Top.node => /\ held'[n] = held[n]
                                        /\ nodeBlock'[n] = nodeBlock[n]
                                        /\ top'[n] = top[n]
    /\ \A k \in DOMAIN worklist' : k >= Depth =>
          /\ Uses(k)' \subseteq Uses(Depth) \cup New
          /\ Node(k)' >= Top.node
    /\ \A w \in DOMAIN walk' :
          /\ walk'[w].block \in Uses(Depth) \cup New
          /\ walk'[w].do # "return" => walk'[w].jump \in Uses(Depth) \cup New

\* What the popped item holds when it comes back is new.
Fresh ==
    \A k \in DOMAIN worklist' :
        /\ k > Depth => State(k)' = 0
        /\ k = Depth => Node(k)' = Top.node
        /\ k = Depth /\ Holding(k)' => /\ Floor(k)' = NextBlock
                                       /\ Inner(k)' \subseteq New

\* What a turn keeps, and what it does.
TurnStep == RegionStep /\ Turned /\ Fresh

\* Nodes are numbered, as their tokens are.
LEMMA NodesAreNumbers ==
    ASSUME TreeInv
    PROVE  /\ Nodes \subseteq Nat
           /\ \A n \in Nodes : \A k \in DOMAIN ast[n].kids :
                 Kid(n, k) \in Nodes /\ Kid(n, k) > n
BY DEF TreeInv, WellFormedTree, Nodes, Kid

\* Positions of the worklist before and after a step.
LEMMA Positions ==
    ASSUME IInv, worklist # <<>>
    PROVE  /\ Depth \in Nat /\ Depth >= 1 /\ DOMAIN worklist = 1..Depth
           /\ Depth \in DOMAIN worklist
           /\ Top = worklist[Depth] /\ Top.node = Node(Depth)
           /\ Top.block = worklist[Depth].block /\ Top.state = State(Depth)
<1>1. worklist \in Seq(ReadyItems)
    BY DEF IInv
<1>2. Len(worklist) \in Nat /\ DOMAIN worklist = 1..Len(worklist) /\ Len(worklist) # 0
    BY <1>1, LenProperties, EmptySeq
<1>. QED
    BY <1>2 DEF Depth, Top, Node, State

\* The same positions after the step.
LEMMA PositionsNext ==
    ASSUME IInv'
    PROVE  Len(worklist') \in Nat /\ DOMAIN worklist' = 1..Len(worklist')
<1>1. worklist' \in Seq(ReadyItems')
    BY DEF IInv
<1>. QED
    BY <1>1, LenProperties

\* What the type invariant says of an item after the step.
LEMMA NextItemTyped ==
    ASSUME IInv', NEW i \in DOMAIN worklist'
    PROVE  Node(i)' \in Nodes'
<1>1. worklist' \in Seq(ReadyItems')
    BY DEF IInv
<1>2. worklist'[i] \in ReadyItems'
    BY <1>1, ElementOfSeq, LenProperties
<1>. QED
    BY <1>2 DEF ReadyItems, Node

\* The items below the popped one see nothing of it.
LEMMA TurnViews ==
    ASSUME IInv, IInv', RegionInv, Turned, NEW i \in 1..(Depth - 1)
    PROVE  /\ i \in DOMAIN worklist /\ i \in DOMAIN worklist' /\ i < Depth
           /\ Node(i)' = Node(i) /\ State(i)' = State(i) /\ Kind(i)' = Kind(i)
           /\ Testing(i)' <=> Testing(i)
           /\ Holding(i)' <=> Holding(i)
           /\ Opens(i)' <=> Opens(i)
           /\ Opens(i) => Floor(i)' = Floor(i) /\ Spare(i)' = Spare(i)
           /\ Outer(i)' = Outer(i) /\ Inner(i)' = Inner(i) /\ Uses(i)' = Uses(i)
           /\ Opens(i) => /\ held'[Node(i)] = held[Node(i)]
                          /\ nodeBlock'[Node(i)] = nodeBlock[Node(i)]
                          /\ top'[Node(i)] = top[Node(i)]
           /\ worklist'[i] = worklist[i]
<1>1. /\ Depth \in Nat /\ Depth >= 1 /\ DOMAIN worklist = 1..Depth
      /\ Top.node = Node(Depth)
    BY Positions DEF Turned
<1>2. /\ Len(worklist') \in Nat /\ DOMAIN worklist' = 1..Len(worklist')
      /\ Len(worklist') >= Depth - 1
    BY PositionsNext DEF Turned
<1>3. i \in DOMAIN worklist /\ i \in DOMAIN worklist' /\ i < Depth
    BY <1>1, <1>2
<1>4. Opens(i) => State(i) # 0
    BY DEF Opens, Testing, Holding
<1>5. Opens(i) => Node(Depth) > Node(i)
    BY <1>1, <1>3, <1>4 DEF RegionInv, Order
<1>6. Node(i) \in Nodes /\ Node(Depth) \in Nodes
    BY <1>1, <1>3, ItemTyped
<1>7. Node(Depth) # Node(i) => /\ held'[Node(i)] = held[Node(i)]
                               /\ top'[Node(i)] = top[Node(i)]
                               /\ nodeBlock'[Node(i)] = nodeBlock[Node(i)]
    BY <1>1, <1>6 DEF Turned
<1>8. Node(Depth) \in Nat /\ Node(i) \in Nat
    BY <1>6, NodesAreNumbers DEF IInv
<1>9. Opens(i) => /\ held'[Node(i)] = held[Node(i)]
                  /\ top'[Node(i)] = top[Node(i)]
                  /\ nodeBlock'[Node(i)] = nodeBlock[Node(i)]
    BY <1>5, <1>7, <1>8
<1>10. worklist'[i] = worklist[i]
    BY DEF Turned
<1>11. Stays /\ ast' = ast
    BY DEF Turned
<1>12. /\ Node(i)' = Node(i) /\ State(i)' = State(i) /\ Kind(i)' = Kind(i)
       /\ Testing(i)' <=> Testing(i)
       /\ Holding(i)' <=> Holding(i)
       /\ Opens(i)' <=> Opens(i)
       /\ Opens(i) => Floor(i)' = Floor(i) /\ Spare(i)' = Spare(i)
    BY <1>3, <1>9, <1>10, <1>11, ViewKept
<1>13. Outer(i)' = Outer(i) /\ Inner(i)' = Inner(i) /\ Uses(i)' = Uses(i)
    BY <1>3, <1>9, <1>10, <1>11, UsesKept
<1>. QED
    BY <1>3, <1>9, <1>10, <1>12, <1>13

\* What is used at the top of the worklist lies inside what is open below,
\* and so does every new block.
LEMMA TurnInside ==
    ASSUME IInv, IInv', RegionInv, Turned, NEW i \in 1..(Depth - 1), Opens(i)
    PROVE  /\ Uses(Depth) \cup New \subseteq Inside(i)'
           /\ Uses(Depth) \subseteq Inside(i)
           /\ Inside(i) \subseteq Inside(i)'
           /\ Inside(i)' \cap Blocks \subseteq Inside(i)
<1>1. /\ Depth \in DOMAIN worklist /\ i \in DOMAIN worklist /\ i < Depth
      /\ Floor(i)' = Floor(i) /\ Spare(i)' = Spare(i)
    BY TurnViews, Positions DEF Turned
<1>2. Nested(i)
    BY <1>1 DEF RegionInv, Regions
<1>3. Uses(Depth) \subseteq Inside(i)
    BY <1>1, <1>2 DEF Nested
<1>4. Blocks \subseteq Blocks'
    BY DEF Turned, Stays
<1>5. Inside(i) \subseteq Inside(i)' /\ Inside(i)' \cap Blocks \subseteq Inside(i)
    BY <1>1, <1>4 DEF Inside
<1>6. Floor(i) \in Blocks /\ Spare(i) \subseteq Blocks
    BY <1>1, UsesTyped
<1>7. /\ Blocks = 0..(NextBlock - 1) /\ NextBlock \in Nat
      /\ Blocks' = 0..(NextBlock' - 1) /\ NextBlock' \in Nat
    BY DEF IInv, CodeInv
<1>8. ASSUME NEW b \in New
      PROVE  b \in Blocks' /\ b >= Floor(i) /\ b \notin Spare(i)
    <2>1. b \in Blocks' /\ b \notin Blocks
        BY DEF New
    <2>2. b \in Nat /\ b >= NextBlock
        BY <1>7, <2>1
    <2>3. Floor(i) \in Nat /\ Floor(i) < NextBlock
        BY <1>6, <1>7
    <2>4. NextBlock \in Nat
        BY <1>7
    <2>5. b >= Floor(i)
        BY <2>2, <2>3, <2>4
    <2>6. b \notin Spare(i)
        BY <1>6, <2>1
    <2>. QED
        BY <2>1, <2>5, <2>6
<1>9. New \subseteq Inside(i)'
    BY <1>1, <1>8 DEF Inside
<1>. QED
    BY <1>3, <1>5, <1>9

\* The regions below the popped item stay closed.
LEMMA TurnNested ==
    ASSUME IInv, IInv', RegionInv, Turned, NEW i \in 1..(Depth - 1), Opens(i)'
    PROVE  Nested(i)'
<1>. DEFINE U == Uses(Depth) \cup New
<1>1. /\ i \in DOMAIN worklist /\ i < Depth /\ Opens(i) /\ Depth \in Nat
      /\ Node(i)' = Node(i) /\ (Holding(i)' <=> Holding(i))
      /\ Floor(i)' = Floor(i) /\ Spare(i)' = Spare(i)
      /\ Outer(i)' = Outer(i) /\ Inner(i)' = Inner(i)
      /\ held'[Node(i)] = held[Node(i)]
    BY TurnViews, Positions DEF Turned
<1>2. Nested(i)
    BY <1>1 DEF RegionInv, Regions
<1>3. /\ U \subseteq Inside(i)' /\ Inside(i) \subseteq Inside(i)'
      /\ Inside(i)' \cap Blocks \subseteq Inside(i)
    BY <1>1, TurnInside
<1>4. \A k \in DOMAIN worklist' : /\ k \in Int
                                  /\ k < Depth => k \in 1..(Depth - 1)
    BY <1>1, PositionsNext
<1>5. Floor(i)' \in Inside(i)'
    BY <1>1, <1>2, <1>3 DEF Nested
<1>6. /\ \A b \in Outer(i)' : b < Floor(i)'
      /\ \A b \in Inner(i)' : b >= Floor(i)'
      /\ Holding(i)' => held'[Node(i)'][1] < Floor(i)'
    BY <1>1, <1>2 DEF Nested
<1>7. ASSUME NEW k \in DOMAIN worklist', k < i
      PROVE  \A b \in Uses(k)' : b < Floor(i)'
    <2>1. k \in 1..(Depth - 1)
        BY <1>1, <1>4, <1>7
    <2>2. k \in DOMAIN worklist /\ Uses(k)' = Uses(k)
        BY <2>1, TurnViews
    <2>. QED
        BY <1>1, <1>2, <1>7, <2>2 DEF Nested
<1>8. ASSUME NEW k \in DOMAIN worklist', k > i
      PROVE  Uses(k)' \subseteq Inside(i)'
    <2>1. CASE k < Depth
        <3>1. k \in DOMAIN worklist /\ Uses(k)' = Uses(k)
            BY <1>4, <2>1, TurnViews
        <3>. QED
            BY <1>2, <1>3, <1>8, <3>1 DEF Nested
    <2>2. CASE k >= Depth
        BY <1>3, <2>2 DEF Turned
    <2>. QED
        BY <1>1, <1>4, <2>1, <2>2
<1>9. ASSUME NEW b \in Inside(i)'
      PROVE  Elements(succ'[b]) \subseteq Inside(i)'
    <2>1. b \in Blocks'
        BY DEF Inside
    <2>2. Elements(succ'[b]) \subseteq
             U \cup (IF b \in Blocks THEN Elements(succ[b]) ELSE {})
        BY <2>1 DEF Turned
    <2>3. CASE b \in Blocks
        <3>1. Elements(succ[b]) \subseteq Inside(i)
            BY <1>2, <1>3, <2>3 DEF Nested
        <3>. QED
            BY <1>3, <2>2, <2>3, <3>1
    <2>4. CASE b \notin Blocks
        BY <1>3, <2>2, <2>4
    <2>. QED
        BY <2>3, <2>4
<1>10. \A w \in DOMAIN walk' :
          /\ walk'[w].block \in Inside(i)'
          /\ walk'[w].do # "return" => walk'[w].jump \in Inside(i)'
    BY <1>3 DEF Turned
<1>. QED
    BY <1>5, <1>6, <1>7, <1>8, <1>9, <1>10 DEF Nested

\* No step of the loop closes a block, and a new block is open.
LEMMA TurnOpen ==
    ASSUME IInv, IInv', RegionInv, Turned
    PROVE  StillOpen'
<1>1. /\ Depth \in DOMAIN worklist /\ Depth \in Nat
    BY Positions DEF Turned
<1>2. (Uses(Depth) \cup New) \cap closed = {}
    BY <1>1 DEF RegionInv, StillOpen, IInv, FlowOK, New
<1>3. closed' = closed
    BY DEF Turned
<1>4. ASSUME NEW k \in DOMAIN worklist'
      PROVE  Uses(k)' \cap closed' = {}
    <2>1. k \in Int /\ (k < Depth => k \in 1..(Depth - 1))
        BY <1>1, PositionsNext
    <2>2. CASE k < Depth
        <3>1. k \in DOMAIN worklist /\ Uses(k)' = Uses(k)
            BY <2>1, <2>2, TurnViews
        <3>. QED
            BY <1>3, <3>1 DEF RegionInv, StillOpen
    <2>3. CASE k >= Depth
        BY <1>2, <1>3, <2>3 DEF Turned
    <2>. QED
        BY <1>1, <2>1, <2>2, <2>3
<1>5. ASSUME NEW w \in DOMAIN walk'
      PROVE  /\ walk'[w].do # "return" => walk'[w].jump \notin closed'
             /\ walk'[w].do = "link" => walk'[w].block \notin closed'
    BY <1>2, <1>3 DEF Turned
<1>. QED
    BY <1>4, <1>5 DEF StillOpen

\* The instructions that are held below stay the last of their blocks.
LEMMA TurnHeld ==
    ASSUME IInv, IInv', RegionInv, Turned, NEW i \in 1..(Depth - 1), Holding(i)'
    PROVE  held'[Node(i)'][2] = Len(code'[held'[Node(i)'][1]])
<1>1. /\ i \in DOMAIN worklist /\ Opens(i) /\ Holding(i)
      /\ Node(i)' = Node(i) /\ held'[Node(i)] = held[Node(i)]
    BY TurnViews DEF Opens
<1>2. Uses(Depth) \subseteq Inside(i)
    BY <1>1, TurnInside
<1>3. /\ held[Node(i)][1] < Floor(i) /\ held[Node(i)][1] \in Blocks
      /\ Floor(i) \in Blocks
    BY <1>1, HoldingTyped, UsesTyped DEF RegionInv, Regions, Nested
<1>4. Blocks \subseteq Int
    BY DEF IInv, CodeInv
<1>5. held[Node(i)][1] \notin Uses(Depth)
    <2>1. held[Node(i)][1] \in Int /\ Floor(i) \in Int
        BY <1>3, <1>4
    <2>2. ~(held[Node(i)][1] >= Floor(i))
        BY <1>3, <2>1
    <2>3. \A b \in Inside(i) : b >= Floor(i)
        BY DEF Inside
    <2>. QED
        BY <1>2, <2>2, <2>3
<1>6. code'[held[Node(i)][1]] = code[held[Node(i)][1]]
    BY <1>3, <1>5 DEF Turned
<1>. QED
    BY <1>1, <1>6 DEF RegionInv, LastHeld

\* What a turn says of the blocks that are left and of those that are not:
\* a block is left only by an item that stays, or by one whose own it is.
Cleaned(d) ==
    /\ \A b \in Blocks : Clean(b) => Clean(b)' \/ Left(b)' \/ b \in Inner(d)
    /\ \A t : t = Top.block /\ (Testing(d) \/ State(d) = 2) => Left(t)'
    /\ \A k \in DOMAIN worklist' : k >= d => CleanItem(k)'
    /\ \A w \in DOMAIN walk' : walk'[w].do = "rewrite" => Clean(walk[w].jump)'
    /\ \A b \in Blocks' : Tidy(b)'

\* What is left on behalf of an item below the popped one stays so.
LEMMA LeftBelow ==
    ASSUME IInv, IInv', RegionInv, Turned, NEW d, d = Depth, Cleaned(d),
           NEW b, Left(b)
    PROVE  Left(b)'
<1>1. d \in Nat /\ Top.block = worklist[d].block /\ DOMAIN worklist = 1..d
    BY Positions DEF Turned
<1>2. walk = <<>> /\ DOMAIN walk = {}
    BY DEF Turned
<1>3. PICK i \in DOMAIN worklist :
         (Testing(i) \/ State(i) = 2) /\ worklist[i].block = b
    BY <1>2 DEF Left
<1>4. CASE i = d
    BY <1>1, <1>3, <1>4 DEF Cleaned
<1>5. CASE i # d
    <2>1. i \in 1..(Depth - 1)
        BY <1>1, <1>5
    <2>2. /\ i \in DOMAIN worklist' /\ worklist'[i] = worklist[i]
          /\ Testing(i)' <=> Testing(i)
          /\ State(i)' = State(i)
        BY <2>1, TurnViews
    <2>. QED
        BY <1>3, <2>2 DEF Left
<1>. QED
    BY <1>4, <1>5

\* A turn that cleans up after itself keeps every block left once.
LEMMA TurnClean ==
    ASSUME IInv, IInv', RegionInv, Turned, CleanInv, NEW d, d = Depth, Cleaned(d)
    PROVE  CleanInv'
<1>1. d \in Nat /\ d \in DOMAIN worklist
    BY Positions DEF Turned
<1>2. \A k \in DOMAIN worklist' : /\ k \in Int /\ k >= 1
                                  /\ k < d => k \in 1..(Depth - 1)
    BY <1>1, PositionsNext
<1>3. ASSUME NEW i \in 1..(Depth - 1)
      PROVE  CleanItem(i)'
    <2>1. /\ i \in DOMAIN worklist /\ i < d /\ worklist'[i] = worklist[i]
          /\ Node(i)' = Node(i) /\ State(i)' = State(i) /\ Kind(i)' = Kind(i)
          /\ Testing(i)' <=> Testing(i)
          /\ Opens(i)' <=> Opens(i)
          /\ Opens(i) => /\ Spare(i)' = Spare(i)
                         /\ nodeBlock'[Node(i)] = nodeBlock[Node(i)]
        BY TurnViews
    <2>2. ASSUME NEW b \in Uses(i), Clean(b) \/ Left(b)
          PROVE  Clean(b)' \/ Left(b)'
        <3>1. b \in Blocks
            BY <2>1, UsesTyped
        <3>2. CASE Left(b)
            BY <3>2, LeftBelow
        <3>3. CASE Clean(b) /\ b \notin Inner(d)
            BY <3>1, <3>3 DEF Cleaned
        <3>4. CASE b \in Inner(d)
            <4>1. Opens(d)
                BY <3>4 DEF Inner, Opens
            <4>2. Nested(d)
                BY <1>1, <4>1 DEF RegionInv, Regions
            <4>3. b >= Floor(d) /\ b < Floor(d)
                BY <2>1, <3>4, <4>2 DEF Nested
            <4>4. b \in Int /\ Floor(d) \in Int
                BY <1>1, <3>1, <4>1, UsesTyped DEF IInv, CodeInv
            <4>. QED
                BY <4>3, <4>4
        <3>. QED
            BY <2>2, <3>2, <3>3, <3>4
    <2>3. CleanItem(i)
        BY <2>1 DEF CleanInv
    <2>4. worklist[i].block \in Uses(i) /\ (Testing(i) => nodeBlock[Node(i)] \in Uses(i))
        BY <2>1, UsesTyped DEF Uses, Inner
    <2>5. Clean(worklist[i].block)' \/ Left(worklist[i].block)'
        <3>1. Clean(worklist[i].block) \/ Left(worklist[i].block)
            BY <2>3 DEF CleanItem
        <3>2. PICK b : b = worklist[i].block
            OBVIOUS
        <3>3. Clean(b)' \/ Left(b)'
            BY <2>2, <2>4, <3>1, <3>2
        <3>. QED
            BY <2>1, <3>2, <3>3 DEF Clean, Left
    <2>6. ASSUME Testing(i)'
          PROVE  Clean(nodeBlock[Node(i)])' \/ Left(nodeBlock[Node(i)])'
        <3>1. PICK b : b = nodeBlock[Node(i)]
            OBVIOUS
        <3>2. Clean(b)' \/ Left(b)'
            BY <2>1, <2>2, <2>3, <2>4, <2>6, <3>1 DEF CleanItem
        <3>3. nodeBlock'[Node(i)'] = b
            BY <2>1, <2>6, <3>1 DEF Opens
        <3>. QED
            BY <3>2, <3>3 DEF Clean, Left
    <2>7. \A b \in Spare(i)' : Clean(b)'
        <3>. SUFFICES ASSUME NEW b \in Spare(i)' PROVE Clean(b)'
            OBVIOUS
        <3>1. Opens(i)
            BY <2>1 DEF Spare, Opens, Holding
        <3>2. b \in Spare(i) /\ b \in Blocks /\ Clean(b)
            BY <2>1, <2>3, <3>1, UsesTyped DEF CleanItem
        <3>3. b \notin Uses(Depth)
            BY <3>1, <3>2, TurnInside DEF Inside
        <3>4. code'[b] = code[b]
            BY <3>2, <3>3 DEF Turned
        <3>. QED
            BY <3>2, <3>4 DEF Clean
    <2>. QED
        BY <2>5, <2>6, <2>7 DEF CleanItem
<1>4. \A i \in DOMAIN worklist' : CleanItem(i)'
    <2>. SUFFICES ASSUME NEW i \in DOMAIN worklist' PROVE CleanItem(i)'
        OBVIOUS
    <2>1. CASE i < d
        BY <1>2, <1>3, <2>1
    <2>2. CASE i >= d
        BY <2>2 DEF Cleaned
    <2>. QED
        BY <1>1, <1>2, <2>1, <2>2
<1>. QED
    BY <1>4 DEF CleanInv, Cleaned, Clean

\* Such a step keeps the invariant when what it puts back does.
LEMMA TurnKeeps ==
    ASSUME IInv, IInv', RegionInv, Turned, NEW d, d = Depth,
           \A k \in DOMAIN worklist' : k > d =>
              /\ State(k)' = 0
              /\ Node(k)' > Top.node,
           d \in DOMAIN worklist' /\ Opens(d)' => Nested(d)',
           d \in DOMAIN worklist' => Node(d)' = Top.node,
           d \in DOMAIN worklist' /\ Holding(d)' =>
              held'[Node(d)'][2] = Len(code'[held'[Node(d)'][1]]),
           OneCall', WalkApart', FramesHeld',
           CleanInv => Cleaned(d),
           d \in DOMAIN worklist' /\ Holding(d)' =>
              Floor(d)' = NextBlock /\ Inner(d)' \subseteq New
    PROVE  TurnStep
<1>1. d \in Nat /\ d \in DOMAIN worklist /\ Top.node = Node(d)
    BY Positions DEF Turned
<1>2. \A k \in DOMAIN worklist' : /\ k \in Int /\ k >= 1
                                  /\ k < d => k \in 1..(Depth - 1)
    BY <1>1, PositionsNext
<1>3. \A k \in DOMAIN worklist' : k > d => ~Opens(k)' /\ ~Holding(k)'
    BY DEF Opens, Holding, Testing
<1>4. Regions'
    <2>. SUFFICES ASSUME NEW i \in DOMAIN worklist', Opens(i)'
                  PROVE  Nested(i)'
        BY DEF Regions
    <2>1. CASE i < d
        BY <1>2, <2>1, TurnNested
    <2>2. CASE i >= d
        <3>1. i = d
            BY <1>1, <1>2, <1>3, <2>2
        <3>. QED
            BY <3>1
    <2>. QED
        BY <1>1, <1>2, <2>1, <2>2
<1>5. Order'
    <2>. SUFFICES ASSUME NEW i \in DOMAIN worklist', NEW j \in DOMAIN worklist',
                         i < j, State(i)' # 0
                  PROVE  Node(j)' > Node(i)'
        BY DEF Order
    <2>1. CASE i > d
        BY <2>1
    <2>2. CASE i = d
        BY <2>2
    <2>3. CASE i < d
        <3>1. /\ i \in DOMAIN worklist /\ i < d
              /\ Node(i)' = Node(i) /\ State(i)' = State(i)
            BY <1>2, <2>3, TurnViews
        <3>2. Node(d) > Node(i)
            BY <1>1, <3>1 DEF RegionInv, Order
        <3>3. CASE j < d
            <4>1. j \in DOMAIN worklist /\ Node(j)' = Node(j)
                BY <1>2, <3>3, TurnViews
            <4>. QED
                BY <3>1, <4>1 DEF RegionInv, Order
        <3>4. CASE j >= d
            <4>1. Node(j)' >= Node(d)
                BY <1>1, <3>4 DEF Turned
            <4>2. /\ Node(i) \in Nat /\ Node(d) \in Nat
                  /\ Node(j)' \in Nat
                <5>1. Nodes \subseteq Nat /\ Nodes' \subseteq Nat
                    BY NodesAreNumbers DEF IInv, TreeInv, WellFormedTree, Nodes
                <5>2. Node(i) \in Nodes /\ Node(d) \in Nodes
                    BY <1>1, <3>1, ItemTyped
                <5>3. Node(j)' \in Nodes'
                    BY NextItemTyped
                <5>. QED
                    BY <5>1, <5>2, <5>3
            <4>. QED
                BY <3>1, <3>2, <4>1, <4>2
        <3>. QED
            BY <1>1, <1>2, <3>3, <3>4
    <2>. QED
        BY <1>1, <1>2, <2>1, <2>2, <2>3
<1>6. LastHeld'
    <2>1. ASSUME NEW i \in DOMAIN worklist', Holding(i)'
          PROVE  held'[Node(i)'][2] = Len(code'[held'[Node(i)'][1]])
        <3>1. CASE i < d
            BY <1>2, <2>1, <3>1, TurnHeld
        <3>2. CASE i >= d
            <4>1. i = d
                BY <1>1, <1>2, <1>3, <2>1, <3>2
            <4>. QED
                BY <2>1, <4>1
        <3>. QED
            BY <1>1, <1>2, <3>1, <3>2
    <2>. QED
        BY <2>1 DEF LastHeld
<1>7. ClosedKept
    <2>1. closed \subseteq Blocks /\ closed' = closed
        BY DEF IInv, FlowOK, Turned
    <2>2. Uses(d) \cap closed = {}
        BY <1>1 DEF RegionInv, StillOpen
    <2>. QED
        BY <2>1, <2>2 DEF Turned, ClosedKept
<1>8. CleanInv => CleanInv'
    BY TurnClean
<1>. QED
    <2>1. Fresh
        BY DEF Fresh
    <2>. QED
        BY <1>4, <1>5, <1>6, <1>7, <1>8, <2>1, TurnOpen
        DEF RegionInv, RegionStep, TurnStep

-----------------------------------------------------------------------------
(* What an emission does to the code, instruction by instruction. *)

\* The instructions that a block had; none, when it is new.
OldLen(b) == IF b \in Blocks THEN Len(code[b]) ELSE 0

\* The instructions s follow what block b held, and nothing else is written.
Wrote(b, s) ==
    /\ Stays
    /\ \A c \in Blocks : c # b => code'[c] = code[c]
    /\ \A c \in New : c # b => code'[c] = <<>>
    /\ Len(code'[b]) = OldLen(b) + Len(s)
    /\ DOMAIN code'[b] = 1..(OldLen(b) + Len(s))
    /\ \A x \in 1..OldLen(b) : x \in DOMAIN code[b] /\ code'[b][x] = code[b][x]
    /\ \A x \in 1..Len(s) : code'[b][OldLen(b) + x] = s[x]

\* A sequence of instructions, and k new blocks.
LEMMA Written ==
    ASSUME CodeInv, NEW k \in Nat, NEW b \in 0..(NextBlock + k - 1),
           NEW S, NEW s \in Seq(S),
           code' = [Grown(code, k) EXCEPT ![b] = @ \o s]
    PROVE  /\ Blocks' = 0..(NextBlock + k - 1)
           /\ New = NextBlock..(NextBlock + k - 1)
           /\ OldLen(b) \in Nat /\ Len(s) \in Nat
           /\ Wrote(b, s)
<1>. DEFINE T == ReadyInstructions(Blocks) \cup S
            old(c) == IF c \in Blocks THEN code[c] ELSE <<>>
            bs == 0..(NextBlock + k - 1)
<1>1. NextBlock \in Nat /\ Blocks = 0..(NextBlock - 1)
    BY DEF CodeInv
<1>2. Blocks \subseteq bs /\ \A c \in bs : c \in Int
    BY <1>1
<1>3. Grown(code, k) = [c \in bs |-> old(c)]
    BY DEF Grown
<1>4. DOMAIN code' = bs /\ Blocks' = bs
    BY <1>3 DEF Blocks
<1>5. New = NextBlock..(NextBlock + k - 1)
    BY <1>1, <1>4 DEF New
<1>6. \A c \in bs : old(c) \in Seq(T)
    <2>1. \A c \in Blocks : code[c] \in Seq(T)
        BY BlockIsSeq, SeqMonotonic
    <2>. QED
        BY <2>1, EmptySeq
<1>7. s \in Seq(T)
    BY SeqMonotonic
<1>8. code'[b] = old(b) \o s /\ \A c \in bs : c # b => code'[c] = old(c)
    BY <1>3
<1>9. Len(old(b)) = OldLen(b)
    <2>1. b \in Blocks => Len(old(b)) = OldLen(b)
        BY DEF OldLen
    <2>2. b \notin Blocks => old(b) = <<>> /\ OldLen(b) = 0
        BY DEF OldLen
    <2>. QED
        BY <2>1, <2>2, EmptySeq
<1>. HIDE DEF old, T
<1>10. /\ OldLen(b) \in Nat /\ Len(s) \in Nat
       /\ old(b) \o s \in Seq(T)
       /\ Len(old(b) \o s) = OldLen(b) + Len(s)
       /\ DOMAIN old(b) = 1..OldLen(b)
       /\ \A i \in 1..(OldLen(b) + Len(s)) : (old(b) \o s)[i] =
             IF i <= OldLen(b) THEN old(b)[i] ELSE s[i - OldLen(b)]
    BY <1>6, <1>7, <1>9, ConcatProperties, LenProperties
<1>11. /\ Len(code'[b]) = OldLen(b) + Len(s)
       /\ DOMAIN code'[b] = 1..(OldLen(b) + Len(s))
    BY <1>8, <1>10, LenProperties
<1>12. \A x \in 1..Len(s) : code'[b][OldLen(b) + x] = s[x]
    <2>. TAKE x \in 1..Len(s)
    <2>1. PICK y : y = OldLen(b) + x
        OBVIOUS
    <2>2. /\ y \in 1..(OldLen(b) + Len(s)) /\ ~(y <= OldLen(b))
          /\ y - OldLen(b) = x
        BY <1>10, <2>1
    <2>3. (old(b) \o s)[y] = s[x]
        BY <1>10, <2>2
    <2>. QED
        BY <1>8, <2>1, <2>3
<1>13. \A x \in 1..OldLen(b) : x \in DOMAIN code[b] /\ code'[b][x] = code[b][x]
    <2>. TAKE x \in 1..OldLen(b)
    <2>1. x \in DOMAIN old(b) /\ code'[b][x] = old(b)[x]
        BY <1>8, <1>10
    <2>2. b \in Blocks
        BY <1>10 DEF OldLen
    <2>. QED
        BY <2>1, <2>2 DEF old
<1>14. \A c \in Blocks : c # b => code'[c] = code[c]
    BY <1>2, <1>8 DEF old
<1>15. \A c \in New : c # b => code'[c] = <<>>
    BY <1>4, <1>8 DEF old, New
<1>16. Stays
    <2>. SUFFICES ASSUME NEW c \in Blocks, NEW x \in DOMAIN code[c]
                  PROVE  x \in DOMAIN code'[c] /\ code'[c][x] = code[c][x]
        BY <1>2, <1>4 DEF Stays
    <2>1. CASE c # b
        BY <1>14, <2>1
    <2>2. CASE c = b
        <3>1. DOMAIN code[b] = 1..OldLen(b)
            BY <1>10, <2>2 DEF old
        <3>2. x \in 1..OldLen(b)
            BY <2>2, <3>1
        <3>3. x \in 1..(OldLen(b) + Len(s))
            BY <1>10, <3>2
        <3>. QED
            BY <1>11, <1>13, <2>2, <3>2, <3>3
    <2>. QED
        BY <2>1, <2>2
<1>. QED
    BY <1>4, <1>5, <1>10, <1>11, <1>12, <1>13, <1>14, <1>15, <1>16 DEF Wrote

\* One instruction.
LEMMA EmitWrites ==
    ASSUME CodeInv, NEW k \in Nat, NEW b \in 0..(NextBlock + k - 1), NEW ins,
           Emit(Grown(code, k), b, ins)
    PROVE  /\ Blocks' = 0..(NextBlock + k - 1)
           /\ New = NextBlock..(NextBlock + k - 1)
           /\ OldLen(b) \in Nat
           /\ Wrote(b, <<ins>>)
<1>. DEFINE s == <<ins>>
            old == IF b \in Blocks THEN code[b] ELSE <<>>
            T == ReadyInstructions(Blocks) \cup {ins}
<1>1. s \in Seq({ins})
    OBVIOUS
<1>2. Grown(code, k)[b] = old
    BY DEF Grown
<1>3. old \in Seq(T)
    BY BlockIsSeq, SeqMonotonic, EmptySeq
<1>4. Append(old, ins) = old \o s
    BY <1>3, AppendIsConcat
<1>5. code' = [Grown(code, k) EXCEPT ![b] = Append(@, ins)]
    BY DEF Emit
<1>6. code' = [Grown(code, k) EXCEPT ![b] = @ \o s]
    BY <1>2, <1>4, <1>5
<1>. HIDE DEF s
<1>7. /\ Blocks' = 0..(NextBlock + k - 1)
      /\ New = NextBlock..(NextBlock + k - 1)
      /\ OldLen(b) \in Nat
      /\ Wrote(b, s)
    BY <1>1, <1>6, Written
<1>. QED
    BY <1>7 DEF s

\* One instruction, and no new block.
LEMMA EmitWritesHere ==
    ASSUME CodeInv, NEW b \in Blocks, NEW ins, Emit(code, b, ins)
    PROVE  /\ Blocks' = Blocks /\ New = {}
           /\ Wrote(b, <<ins>>)
<1>1. NextBlock \in Nat /\ Blocks = 0..(NextBlock - 1) /\ NextBlock + 0 - 1 = NextBlock - 1
    BY DEF CodeInv
<1>2. Grown(code, 0) = code
    BY <1>1, GrownByNone DEF CodeInv
<1>3. Blocks' = 0..(NextBlock + 0 - 1) /\ Wrote(b, <<ins>>)
    BY <1>1, <1>2, EmitWrites
<1>. QED
    BY <1>1, <1>3 DEF New

\* Nothing is written.
LEMMA NothingWritten ==
    ASSUME code' = code
    PROVE  Blocks' = Blocks /\ New = {} /\ Stays
BY DEF Stays, New, Blocks

\* What follows the clean part of a block leaves it at its end, or not at all.
LEMMA TidyWritten ==
    ASSUME CodeInv, NEW e, NEW s, Wrote(e, s), Len(s) \in Nat, e \in Blocks',
           \A b \in Blocks : Tidy(b),
           e \in Blocks /\ Len(s) > 0 => Clean(e),
           \A x \in 1..Len(s) : s[x].op \in Leaving => x = Len(s)
    PROVE  /\ \A b \in Blocks' : Tidy(b)'
           /\ \A b \in Blocks' :
                 /\ b \in Blocks => Clean(b)
                 /\ b = e => \A x \in 1..Len(s) : s[x].op \notin Leaving
                 => Clean(b)'
<1>. DEFINE l == OldLen(e)
<1>1. /\ l \in Nat
      /\ e \in Blocks => DOMAIN code[e] = 1..l
      /\ e \notin Blocks => l = 0
    BY BlockIsSeq DEF OldLen
<1>2. /\ DOMAIN code'[e] = 1..(l + Len(s))
      /\ \A x \in 1..l : x \in DOMAIN code[e] /\ code'[e][x] = code[e][x]
      /\ \A x \in 1..Len(s) : code'[e][l + x] = s[x]
      /\ \A c \in Blocks : c # e => code'[c] = code[c]
      /\ \A c \in Blocks' : c \notin Blocks /\ c # e => code'[c] = <<>>
    BY DEF Wrote, New
<1>. HIDE DEF l
<1>3. ASSUME NEW y \in DOMAIN code'[e], y > l
      PROVE  /\ y - l \in 1..Len(s) /\ code'[e][y] = s[y - l]
             /\ code'[e][y].op \in Leaving => y = l + Len(s)
    <2>1. PICK x : x = y - l
        OBVIOUS
    <2>2. x \in 1..Len(s) /\ l + x = y
        BY <1>1, <1>2, <1>3, <2>1
    <2>3. code'[e][y] = s[x]
        BY <1>2, <2>2
    <2>. QED
        BY <2>1, <2>2, <2>3
<1>4. ASSUME NEW b \in Blocks', b \in Blocks => Clean(b),
             b = e => \A x \in 1..Len(s) : s[x].op \notin Leaving
      PROVE  Clean(b)'
    <2>1. CASE b # e /\ b \in Blocks
        <3>1. code'[b] = code[b]
            BY <1>2, <2>1
        <3>. QED
            BY <1>4, <2>1, <3>1 DEF Clean, Leaves
    <2>2. CASE b # e /\ b \notin Blocks
        <3>1. code'[b] = <<>>
            BY <1>2, <2>2
        <3>. QED
            BY <3>1 DEF Clean, Leaves
    <2>3. CASE b = e
        <3>1. \A y \in DOMAIN code'[e] : code'[e][y].op \notin Leaving
            <4>. SUFFICES ASSUME NEW y \in DOMAIN code'[e]
                          PROVE  code'[e][y].op \notin Leaving
                OBVIOUS
            <4>1. CASE y > l
                BY <1>3, <1>4, <2>3, <4>1
            <4>2. CASE ~(y > l)
                <5>1. y \in 1..l
                    BY <1>1, <1>2, <4>2
                <5>2. e \in Blocks
                    BY <1>1, <5>1
                <5>3. Clean(e) /\ y \in DOMAIN code[e] /\ code'[e][y] = code[e][y]
                    BY <1>2, <1>4, <2>3, <5>1, <5>2
                <5>. QED
                    BY <5>3 DEF Clean, Leaves
            <4>. QED
                BY <4>1, <4>2
        <3>. QED
            BY <2>3, <3>1 DEF Clean, Leaves
    <2>. QED
        BY <2>1, <2>2, <2>3
<1>5. ASSUME NEW b \in Blocks'
      PROVE  Tidy(b)'
    <2>1. CASE Clean(b)'
        BY <2>1 DEF Tidy
    <2>2. CASE b \in Blocks /\ code'[b] = code[b]
        <3>1. Tidy(b)
            BY <2>2
        <3>. QED
            BY <2>2, <3>1 DEF Tidy, Clean, Cut
    <2>3. CASE ~Clean(b)' /\ ~(b \in Blocks /\ code'[b] = code[b])
        <3>1. b = e
            <4>1. CASE b \in Blocks
                BY <1>2, <2>3, <4>1
            <4>2. CASE b \notin Blocks
                BY <1>4, <2>3, <4>2
            <4>. QED
                BY <4>1, <4>2
        <3>2. CASE Len(s) = 0
            <4>1. e \in Blocks
                BY <1>4, <2>3, <3>1, <3>2
            <4>2. Tidy(e) /\ DOMAIN code'[e] = DOMAIN code[e]
                BY <1>1, <1>2, <3>2, <4>1
            <4>3. \A x \in DOMAIN code[e] : code'[e][x] = code[e][x]
                BY <1>1, <1>2, <4>1
            <4>. QED
                BY <3>1, <4>2, <4>3 DEF Tidy, Clean, Leaves, Cut
        <3>3. CASE Len(s) > 0
            <4>0. e \in Blocks => Clean(e)
                BY <3>3
            <4>4. PICK y \in DOMAIN code'[e] : code'[e][y].op \in Leaving
                BY <2>3, <3>1 DEF Clean, Leaves
            <4>5. \A x \in DOMAIN code'[e] : x <= l => code'[e][x].op \notin Leaving
                <5>. SUFFICES ASSUME NEW x \in DOMAIN code'[e], x <= l
                              PROVE  code'[e][x].op \notin Leaving
                    OBVIOUS
                <5>1. x \in 1..l /\ e \in Blocks
                    BY <1>1, <1>2
                <5>. QED
                    BY <1>2, <4>0, <5>1 DEF Clean, Leaves
            <4>6. \A x \in DOMAIN code'[e] :
                     code'[e][x].op \in Leaving => x = l + Len(s)
                <5>. SUFFICES ASSUME NEW x \in DOMAIN code'[e], code'[e][x].op \in Leaving
                              PROVE  x = l + Len(s)
                    OBVIOUS
                <5>1. x > l
                    BY <1>1, <1>2, <4>5
                <5>. QED
                    BY <1>3, <5>1
            <4>7. y = l + Len(s)
                BY <4>4, <4>6
            <4>8. \A x \in DOMAIN code'[e] : x < y => code'[e][x].op \notin Leaving
                BY <1>1, <1>2, <4>6, <4>7
            <4>9. \A x \in DOMAIN code'[e] : ~(x > y)
                BY <1>1, <1>2, <4>7
            <4>10. Cut(e, y)'
                BY <4>4, <4>8, <4>9 DEF Cut
            <4>. QED
                BY <3>1, <4>4, <4>10 DEF Tidy
        <3>. QED
            BY <3>2, <3>3
    <2>. QED
        BY <2>1, <2>2, <2>3
<1>. QED
    BY <1>4, <1>5

\* Where the popped item goes on nothing has left the block: what was left
\* on behalf of an item below it lies outside.
LEMMA TopClean ==
    ASSUME IInv, RegionInv, CleanInv, worklist # <<>>, walk = <<>>,
           NEW d, d = Depth
    PROVE  /\ ~Testing(d) /\ State(d) # 2 => Clean(Top.block)
           /\ Testing(d) => Clean(nodeBlock[Top.node])
           /\ \A b \in Spare(d) : Clean(b)
<1>1. /\ d \in Nat /\ d \in DOMAIN worklist /\ Top.block = worklist[d].block
      /\ Top.node = Node(d) /\ DOMAIN worklist = 1..d
    BY Positions
<1>2. CleanItem(d)
    BY <1>1 DEF CleanInv
<1>3. ASSUME NEW i \in DOMAIN worklist, i < d, Testing(i) \/ State(i) = 2,
             NEW b \in Uses(d)
      PROVE  worklist[i].block # b
    <2>1. Opens(i)
        BY <1>3 DEF Opens, Holding
    <2>2. Nested(i)
        BY <2>1 DEF RegionInv, Regions
    <2>3. b >= Floor(i) /\ worklist[i].block < Floor(i)
        BY <1>1, <1>3, <2>2 DEF Nested, Inside, Outer
    <2>4. Uses(d) \subseteq Blocks /\ Floor(i) \in Blocks
        BY <1>1, <2>1, UsesTyped
    <2>5. b \in Int /\ Floor(i) \in Int
        BY <2>4 DEF IInv, CodeInv
    <2>. QED
        BY <2>3, <2>5
<1>4. ASSUME NEW b \in Uses(d), Left(b)
      PROVE  (Testing(d) \/ State(d) = 2) /\ worklist[d].block = b
    <2>1. PICK i \in DOMAIN worklist :
             (Testing(i) \/ State(i) = 2) /\ worklist[i].block = b
        BY <1>4 DEF Left
    <2>2. i = d
        BY <1>1, <1>3, <2>1
    <2>. QED
        BY <2>1, <2>2
<1>5. ~Testing(d) /\ State(d) # 2 => Clean(Top.block)
    <2>1. worklist[d].block \in Uses(d)
        BY <1>1, UsesTyped
    <2>. QED
        BY <1>1, <1>2, <1>4, <2>1 DEF CleanItem
<1>6. Testing(d) => Clean(nodeBlock[Top.node])
    <2>. SUFFICES ASSUME Testing(d) PROVE Clean(nodeBlock[Top.node])
        OBVIOUS
    <2>1. Opens(d) /\ nodeBlock[Node(d)] \in Inner(d)
        BY DEF Opens, Inner
    <2>2. Nested(d)
        BY <1>1, <2>1 DEF RegionInv, Regions
    <2>3. nodeBlock[Node(d)] >= Floor(d) /\ worklist[d].block < Floor(d)
        BY <2>1, <2>2 DEF Nested, Outer
    <2>4. nodeBlock[Node(d)] \in Uses(d) /\ nodeBlock[Node(d)] \in Int /\ Floor(d) \in Int
        BY <1>1, <2>1, UsesTyped DEF Uses, IInv, CodeInv
    <2>5. nodeBlock[Node(d)] # worklist[d].block
        BY <2>3, <2>4
    <2>6. ~Left(nodeBlock[Node(d)])
        BY <1>4, <2>4, <2>5
    <2>. QED
        BY <1>1, <1>2, <2>6 DEF CleanItem
<1>. QED
    BY <1>2, <1>5, <1>6 DEF CleanItem

-----------------------------------------------------------------------------
(* The steps that pop an item for good, without a walk. *)

\* No walk, no constraint.
LEMMA NoWalk ==
    ASSUME walk' = <<>>
    PROVE  /\ OneCall' /\ WalkApart' /\ FramesHeld'
           /\ DOMAIN walk' = {}
<1>1. DOMAIN walk' = {}
    OBVIOUS
<1>2. OneCall'
    BY <1>1 DEF OneCall
<1>3. Apart({})'
    BY <1>1 DEF Apart
<1>4. WalkApart'
    <2>1. {} \in SUBSET Blocks'
        OBVIOUS
    <2>. QED
        BY <1>3, <2>1 DEF WalkApart
<1>. QED
    BY <1>1, <1>2, <1>4 DEF FramesHeld

\* The worklist without its top.
LEMMA Popped ==
    ASSUME IInv, worklist # <<>>
    PROVE  /\ Len(Rest) = Depth - 1
           /\ \A i \in 1..(Depth - 1) : Rest[i] = worklist[i]
           /\ DOMAIN Rest = 1..(Depth - 1)
<1>1. worklist \in Seq(ReadyItems) /\ Depth \in Nat /\ Depth >= 1
    BY Positions DEF IInv
<1>2. \A i \in 1..(Depth - 1) : worklist[i] \in ReadyItems
    BY <1>1, ElementOfSeq DEF Depth
<1>3. 1 \in Int /\ Depth - 1 \in Int /\ Rest = SubSeq(worklist, 1, Depth - 1)
    BY <1>1 DEF Rest, Depth
<1>. HIDE DEF Depth
<1>4. /\ Rest \in Seq(ReadyItems)
      /\ Len(Rest) = IF 1 <= Depth - 1 THEN Depth - 1 - 1 + 1 ELSE 0
      /\ \A i \in 1..(Depth - 1 - 1 + 1) : Rest[i] = worklist[1 + i - 1]
    BY <1>1, <1>2, <1>3, SubSeqProperties
<1>5. Len(Rest) = Depth - 1
    BY <1>1, <1>4
<1>6. \A i \in 1..(Depth - 1) : i \in 1..(Depth - 1 - 1 + 1) /\ 1 + i - 1 = i
    BY <1>1
<1>. QED
    BY <1>4, <1>5, <1>6, LenProperties

\* Nothing is emitted.
LEMMA NothingWrote ==
    ASSUME IInv, code' = code, NEW b \in Blocks
    PROVE  Wrote(b, <<>>) /\ Len(<<>>) = 0
<1>1. OldLen(b) = Len(code[b]) /\ Len(code[b]) \in Nat /\ DOMAIN code[b] = 1..Len(code[b])
    BY BlockIsSeq DEF OldLen, IInv
<1>2. Len(<<>>) = 0 /\ Stays /\ New = {}
    BY NothingWritten
<1>3. Len(code[b]) + 0 = Len(code[b]) /\ 1..0 = {}
    BY <1>1
<1>. HIDE DEF OldLen
<1>. QED
    BY <1>1, <1>2, <1>3 DEF Wrote

\* The operations that name blocks, or leave one.
Guiding == Leaving \cup {"BLOCK"}

\* The popped item did not open blocks, and what it emits, is, leaves none.
Plain(is) ==
    /\ Top.state # 2 /\ ast[Top.node].kind \notin {"WHILE", "BLOCK"}
    /\ Wrote(Top.block, is) /\ Len(is) \in Nat
    /\ \A x \in 1..Len(is) : is[x].op \notin Guiding

\* The popped item has opened nothing, nor do those that come in its place,
\* and they go on where it did.
Quiet(d, is) ==
    /\ d = Depth /\ ~Opens(d)
    /\ walk' = <<>> /\ succ' = succ /\ Blocks' = Blocks
    /\ Wrote(Top.block, is) /\ Len(is) \in Nat
    /\ \A x \in 1..Len(is) : is[x].op \notin Guiding
    /\ \A k \in DOMAIN worklist' : k >= d =>
          /\ ~Opens(k)' /\ worklist'[k].block = Top.block
          /\ Kind(k)' = "WHILE" => State(k)' = 0
PlainStep == TurnStep /\ \E d, is : Quiet(d, is)

\* A turn that pops an item without blocks keeps the regions.
LEMMA PopKeeps ==
    ASSUME IInv, IInv', RegionInv, worklist # <<>>, walk = <<>>, worklist' = Rest,
           Blocks' = Blocks, NEW is, Plain(is),
           UNCHANGED <<ast, walk, succ, closed, held, nodeBlock, top>>
    PROVE  PlainStep
<1>1. /\ Depth \in Nat /\ Depth \in DOMAIN worklist /\ Depth >= 1
      /\ Top.block = worklist[Depth].block /\ Top.node = Node(Depth)
      /\ Top.state = State(Depth)
    BY Positions
<1>2. /\ Len(worklist') = Depth - 1 /\ DOMAIN worklist' = 1..(Depth - 1)
      /\ \A i \in 1..(Depth - 1) : worklist'[i] = worklist[i]
    BY Popped
<1>3. Top.block \in Uses(Depth) /\ Top.block \in Blocks
    BY <1>1, UsesTyped, TopAndRest
<1>4. DOMAIN walk' = {}
    OBVIOUS
<1>5. Stays /\ \A b \in Blocks : b # Top.block => code'[b] = code[b]
    BY DEF Plain, Wrote
<1>6. Turned
    <2>1. \A k \in DOMAIN worklist' : ~(k >= Depth)
        BY <1>1, <1>2
    <2>2. \A b \in Blocks' : Elements(succ'[b]) \subseteq
             Uses(Depth) \cup New \cup (IF b \in Blocks THEN Elements(succ[b]) ELSE {})
        OBVIOUS
    <2>3. \A b \in Blocks \ Uses(Depth) : code'[b] = code[b] /\ succ'[b] = succ[b]
        BY <1>3, <1>5
    <2>4. Len(worklist') >= Depth - 1
        BY <1>1, <1>2
    <2>. QED
        BY <1>2, <1>4, <1>5, <2>1, <2>2, <2>3, <2>4 DEF Turned
<1>7. PICK d : d = Depth
    OBVIOUS
<1>8. d \notin DOMAIN worklist' /\ \A k \in DOMAIN worklist' : ~(k > d) /\ ~(k >= d)
    BY <1>1, <1>2, <1>7
<1>9. ASSUME CleanInv PROVE Cleaned(d)
    <2>1. ~Testing(d) /\ State(d) # 2
        BY <1>1, <1>7 DEF Plain, Testing, Kind, Node
    <2>2. Clean(Top.block)
        BY <1>7, <1>9, <2>1, TopClean
    <2>3. /\ CodeInv /\ \A b \in Blocks : Tidy(b)
          /\ Wrote(Top.block, is) /\ Len(is) \in Nat
          /\ \A x \in 1..Len(is) : is[x].op \notin Leaving
        BY <1>9 DEF IInv, CleanInv, Plain, Guiding
    <2>4. PICK e : e = Top.block
        OBVIOUS
    <2>5. /\ \A b \in Blocks' : Tidy(b)'
          /\ \A b \in Blocks' : Clean(b) => Clean(b)'
        <3>1. e \in Blocks' /\ Wrote(e, is) /\ Clean(e)
            BY <1>3, <2>2, <2>3, <2>4
        <3>. QED
            BY <2>3, <3>1, TidyWritten
    <2>. QED
        BY <1>4, <1>8, <2>1, <2>5 DEF Cleaned
<1>10. TurnStep
    BY <1>4, <1>6, <1>7, <1>8, <1>9, NoWalk, TurnKeeps
<1>11. Quiet(d, is)
    <2>1. ~Opens(d)
        BY <1>1, <1>7 DEF Plain, Opens, Testing, Holding, Kind, Node
    <2>. QED
        BY <1>7, <1>8, <2>1 DEF Plain, Quiet
<1>. QED
    BY <1>10, <1>11 DEF PlainStep

\* One instruction at the end of the block, and the item is done.
LEMMA SimplePop ==
    ASSUME IInv, IInv', RegionInv, worklist # <<>>, walk = <<>>,
           Top.state # 2, ast[Top.node].kind \notin {"WHILE", "BLOCK"},
           NEW ins, ins.op \notin Guiding,
           Emit(code, Top.block, ins), worklist' = Rest,
           UNCHANGED <<ast, walk, succ, closed, held, nodeBlock, top>>
    PROVE  PlainStep
<1>. DEFINE is == <<ins>>
<1>1. Top.block \in Blocks
    BY TopAndRest
<1>2. Blocks' = Blocks /\ Wrote(Top.block, is)
    BY <1>1, EmitWritesHere DEF IInv
<1>3. Len(is) = 1 /\ \A x \in 1..Len(is) : is[x].op \notin Guiding
    OBVIOUS
<1>. HIDE DEF is
<1>4. Plain(is)
    BY <1>2, <1>3 DEF Plain
<1>. QED
    BY <1>2, <1>4, PopKeeps

\* What the operators and the leaves emit stays in the block.
LEMMA OpsStay ==
    /\ \A k \in LiteralKinds : LiteralOp[k] \notin Guiding
    /\ \A k \in NullaryKinds : k \notin Guiding
    /\ \A k \in (UnaryKinds \ {"BLOCK", "CALL", "DUMP"}) \cup {"GET", "SET"} \cup
               (BinaryKinds \ {"AND", "OR", "EXPR", "ASSIGN", "WHILE"}) :
          OperatorOp[k] \notin Guiding /\ k \notin {"WHILE", "BLOCK"}
    /\ {"WHILE", "BLOCK"} \cap (LiteralKinds \cup NullaryKinds) = {}
BY DEF LiteralKinds, LiteralOp, NullaryKinds, UnaryKinds, BinaryKinds,
       OperatorOp, Guiding, Leaving

\* The steps that emit one instruction for a node that opens no blocks.
LEMMA SimplePops ==
    ASSUME IInv, IInv', RegionInv,
           \/ GenLiteral \/ GenIdentifier \/ GenNullary \/ GenUnary \/ GenBinary
           \/ GenSlice \/ GenDump \/ GenAssign
    PROVE  PlainStep
<1>1. CASE GenLiteral
    <2>. DEFINE ins == Const(LiteralOp[ast[Top.node].kind], nextValue, ast[Top.node].lit)
    <2>1. ins.op = LiteralOp[ast[Top.node].kind]
        BY DEF Const, Instr
    <2>2. /\ worklist # <<>> /\ walk = <<>> /\ worklist' = Rest
          /\ ast[Top.node].kind \in LiteralKinds /\ Top.state = 0
          /\ Emit(code, Top.block, ins)
          /\ UNCHANGED <<ast, walk, succ, closed, held, nodeBlock, top>>
        BY <1>1 DEF GenLiteral, Turn
    <2>. HIDE DEF ins
    <2>3. ins.op \notin Guiding /\ ast[Top.node].kind \notin {"WHILE", "BLOCK"}
        BY <2>1, <2>2, OpsStay
    <2>. QED
        BY <2>2, <2>3, SimplePop
<1>2. CASE GenIdentifier
    <2>. DEFINE ins == Load(nextValue, VarOf(ast[Top.node].name))
    <2>1. ins.op \notin Guiding
        BY DEF Load, Instr, Guiding, Leaving
    <2>2. /\ worklist # <<>> /\ walk = <<>> /\ worklist' = Rest
          /\ ast[Top.node].kind = "IDENTIFIER" /\ Top.state = 0
          /\ Emit(code, Top.block, ins)
          /\ UNCHANGED <<ast, walk, succ, closed, held, nodeBlock, top>>
        BY <1>2 DEF GenIdentifier, Turn
    <2>. HIDE DEF ins
    <2>. QED
        BY <2>1, <2>2, SimplePop
<1>3. CASE GenNullary
    <2>. DEFINE ins == Instr(ast[Top.node].kind, nextValue, <<>>, <<>>)
    <2>1. ins.op = ast[Top.node].kind
        BY DEF Instr
    <2>2. /\ worklist # <<>> /\ walk = <<>> /\ worklist' = Rest
          /\ ast[Top.node].kind \in NullaryKinds /\ Top.state = 0
          /\ Emit(code, Top.block, ins)
          /\ UNCHANGED <<ast, walk, succ, closed, held, nodeBlock, top>>
        BY <1>3 DEF GenNullary, Turn
    <2>. HIDE DEF ins
    <2>3. ins.op \notin Guiding /\ ast[Top.node].kind \notin {"WHILE", "BLOCK"}
        BY <2>1, <2>2, OpsStay
    <2>. QED
        BY <2>2, <2>3, SimplePop
<1>4. CASE GenUnary \/ GenBinary \/ GenSlice
    <2>. DEFINE ins == Instr(OperatorOp[ast[Top.node].kind], nextValue,
                             KidResults(Top.node), <<>>)
                ks == (UnaryKinds \ {"BLOCK", "CALL", "DUMP"}) \cup {"GET", "SET"} \cup
                      (BinaryKinds \ {"AND", "OR", "EXPR", "ASSIGN", "WHILE"})
    <2>1. ins.op = OperatorOp[ast[Top.node].kind]
        BY DEF Instr
    <2>2. /\ worklist # <<>> /\ walk = <<>> /\ worklist' = Rest
          /\ ast[Top.node].kind \in ks /\ Top.state = 1
          /\ Emit(code, Top.block, ins)
          /\ UNCHANGED <<ast, walk, succ, closed, held, nodeBlock, top>>
        BY <1>4 DEF GenUnary, GenBinary, GenSlice, Operator, Turn
    <2>3. ins.op \notin Guiding /\ ast[Top.node].kind \notin {"WHILE", "BLOCK"}
        BY <2>1, <2>2, OpsStay
    <2>. HIDE DEF ins, ks
    <2>. QED
        BY <2>2, <2>3, SimplePop
<1>5. CASE GenDump
    <2>. DEFINE ins == Instr("DUMP", nextValue, KidResults(Top.node), <<>>)
    <2>1. ins.op \notin Guiding
        BY DEF Instr, Guiding, Leaving
    <2>2. /\ worklist # <<>> /\ walk = <<>> /\ worklist' = Rest
          /\ ast[Top.node].kind = "DUMP" /\ Top.state = 1
          /\ Emit(code, Top.block, ins)
          /\ UNCHANGED <<ast, walk, succ, closed, held, nodeBlock, top>>
        BY <1>5 DEF GenDump, Turn
    <2>. HIDE DEF ins
    <2>. QED
        BY <2>1, <2>2, SimplePop
<1>6. CASE GenAssign
    <2>. DEFINE name == ast[Kid(Top.node, 1)].name
                ins == Store(nextValue, VarOf(name), KidResult(Top.node, 2))
    <2>1. ins.op \notin Guiding
        BY DEF Store, Instr, Guiding, Leaving
    <2>2. /\ worklist # <<>> /\ walk = <<>> /\ worklist' = Rest
          /\ ast[Top.node].kind = "ASSIGN" /\ Top.state = 1
          /\ Emit(code, Top.block, ins)
          /\ UNCHANGED <<ast, walk, succ, closed, held, nodeBlock, top>>
        BY <1>6 DEF GenAssign, Turn
    <2>. HIDE DEF ins
    <2>. QED
        BY <2>1, <2>2, SimplePop
<1>. QED
    BY <1>1, <1>2, <1>3, <1>4, <1>5, <1>6

\* An EXPR stands for its second argument, and emits nothing.
LEMMA GenExprKeeps == IInv /\ IInv' /\ RegionInv /\ GenExpr => PlainStep
<1>. SUFFICES ASSUME IInv, IInv', RegionInv, GenExpr PROVE PlainStep
    OBVIOUS
<1>1. /\ worklist # <<>> /\ walk = <<>> /\ worklist' = Rest /\ code' = code
      /\ ast[Top.node].kind = "EXPR" /\ Top.state = 1
      /\ UNCHANGED <<ast, walk, succ, closed, held, nodeBlock, top>>
    BY DEF GenExpr, Turn
<1>. DEFINE is == <<>>
<1>2. Wrote(Top.block, is) /\ Len(is) = 0
    BY <1>1, TopAndRest, NothingWrote
<1>3. Blocks' = Blocks
    BY <1>1, NothingWritten
<1>. HIDE DEF is
<1>4. Plain(is)
    BY <1>1, <1>2 DEF Plain
<1>. QED
    BY <1>1, <1>3, <1>4, PopKeeps

\* The three instructions of a CALL.
LEMMA CallWrites ==
    ASSUME IInv, GenCall
    PROVE  /\ Blocks' = Blocks /\ New = {}
           /\ Wrote(Top.block,
                    <<Instr("SAVE", nextValue, <<>>, <<>>),
                      Instr("CALL", nextValue + 1, KidResults(Top.node), <<>>),
                      Instr("RESTORE", nextValue + 2, <<>>, <<>>)>>)
<1>. DEFINE a == Instr("SAVE", nextValue, <<>>, <<>>)
            b == Instr("CALL", nextValue + 1, KidResults(Top.node), <<>>)
            c == Instr("RESTORE", nextValue + 2, <<>>, <<>>)
            s == <<a, b, c>>
<1>1. Top.block \in Blocks
    BY TopAndRest DEF GenCall, Turn
<1>2. NextBlock \in Nat /\ Blocks = 0..(NextBlock - 1) /\ NextBlock + 0 - 1 = NextBlock - 1
    BY DEF IInv, CodeInv
<1>3. Grown(code, 0) = code
    BY <1>2, GrownByNone DEF IInv, CodeInv
<1>4. code' = [Grown(code, 0) EXCEPT ![Top.block] = @ \o s]
    BY <1>3 DEF GenCall
<1>. HIDE DEF a, b, c
<1>5. s \in Seq({a, b, c})
    OBVIOUS
<1>. HIDE DEF s
<1>6. Blocks' = 0..(NextBlock + 0 - 1) /\ Wrote(Top.block, s)
    BY <1>1, <1>2, <1>4, <1>5, Written DEF IInv
<1>. QED
    BY <1>2, <1>6 DEF New, s, a, b, c

\* A CALL and what brackets it.
LEMMA GenCallKeeps == IInv /\ IInv' /\ RegionInv /\ GenCall => PlainStep
<1>. SUFFICES ASSUME IInv, IInv', RegionInv, GenCall PROVE PlainStep
    OBVIOUS
<1>. DEFINE a == Instr("SAVE", nextValue, <<>>, <<>>)
            b == Instr("CALL", nextValue + 1, KidResults(Top.node), <<>>)
            c == Instr("RESTORE", nextValue + 2, <<>>, <<>>)
            is == <<a, b, c>>
<1>1. /\ worklist # <<>> /\ walk = <<>> /\ worklist' = Rest
      /\ ast[Top.node].kind = "CALL" /\ Top.state = 1
      /\ UNCHANGED <<ast, walk, succ, closed, held, nodeBlock, top>>
    BY DEF GenCall, Turn
<1>2. Blocks' = Blocks /\ Wrote(Top.block, is)
    BY CallWrites
<1>3. a.op \notin Guiding /\ b.op \notin Guiding /\ c.op \notin Guiding
    BY DEF Instr, Guiding, Leaving
<1>. HIDE DEF a, b, c
<1>4. Len(is) = 3 /\ \A x \in 1..Len(is) : is[x].op \notin Guiding
    BY <1>3
<1>. HIDE DEF is
<1>5. Plain(is)
    BY <1>1, <1>2, <1>4 DEF Plain
<1>. QED
    BY <1>1, <1>2, <1>5, PopKeeps

-----------------------------------------------------------------------------
(* The steps that put items back. *)

\* The worklist with other items in the place of its top.
LEMMA Pushed ==
    ASSUME IInv, worklist # <<>>, NEW S, NEW s \in Seq(S), worklist' = Rest \o s
    PROVE  /\ Len(s) \in Nat
           /\ DOMAIN worklist' = 1..(Depth - 1 + Len(s))
           /\ Len(worklist') = Depth - 1 + Len(s)
           /\ \A i \in 1..(Depth - 1) : worklist'[i] = worklist[i]
           /\ \A j \in 1..Len(s) : worklist'[Depth - 1 + j] = s[j]
<1>. DEFINE T == ReadyItems \cup S
<1>1. /\ Rest \in Seq(ReadyItems) /\ Depth \in Nat /\ Depth >= 1
      /\ Len(Rest) = Depth - 1
      /\ \A i \in 1..(Depth - 1) : Rest[i] = worklist[i]
    BY Positions, Popped, TopAndRest
<1>2. Rest \in Seq(T) /\ s \in Seq(T)
    BY <1>1, SeqMonotonic
<1>. HIDE DEF T, Depth
<1>3. /\ Rest \o s \in Seq(T)
      /\ Len(Rest \o s) = Len(Rest) + Len(s)
      /\ Len(s) \in Nat
      /\ \A i \in 1..(Len(Rest) + Len(s)) : (Rest \o s)[i] =
            IF i <= Len(Rest) THEN Rest[i] ELSE s[i - Len(Rest)]
    BY <1>2, ConcatProperties, LenProperties
<1>4. Len(worklist') = Depth - 1 + Len(s)
    BY <1>1, <1>3
<1>5. DOMAIN worklist' = 1..(Depth - 1 + Len(s))
    BY <1>3, <1>4, LenProperties
<1>6. \A i \in 1..(Depth - 1) : worklist'[i] = worklist[i]
    BY <1>1, <1>3
<1>7. ASSUME NEW j \in 1..Len(s)
      PROVE  worklist'[Depth - 1 + j] = s[j]
    <2>1. PICK x : x = Depth - 1 + j
        OBVIOUS
    <2>2. /\ x \in 1..(Len(Rest) + Len(s))
          /\ ~(x <= Len(Rest))
          /\ x - Len(Rest) = j
        BY <1>1, <1>3, <2>1
    <2>3. (Rest \o s)[x] = s[x - Len(Rest)]
        BY <1>3, <2>2
    <2>. QED
        BY <2>1, <2>2, <2>3
<1>. QED
    BY <1>3, <1>4, <1>5, <1>6, <1>7

\* An item that has opened nothing uses only the block it is for.
LEMMA PlainUses ==
    ASSUME NEW k, ~Opens(k)'
    PROVE  Uses(k)' = {worklist'[k].block} /\ ~Holding(k)'
BY DEF Uses, Outer, Inner, Opens, Holding

\* The arguments are put above the item that waits for them.
LEMMA GenScheduleKeeps == IInv /\ IInv' /\ RegionInv /\ GenSchedule => PlainStep
<1>. SUFFICES ASSUME IInv, IInv', RegionInv, GenSchedule PROVE PlainStep
    OBVIOUS
<1>1. /\ worklist # <<>> /\ walk = <<>>
      /\ ast[Top.node].kind \notin {"BLOCK", "WHILE"}
      /\ UNCHANGED <<ast, walk, code, succ, closed, held, nodeBlock, top>>
    BY DEF GenSchedule, Turn
<1>2. /\ Depth \in Nat /\ Depth >= 1 /\ Depth \in DOMAIN worklist
      /\ Top.block = worklist[Depth].block
    BY <1>1, Positions
<1>3. Top.node \in Nodes
    BY <1>1, TopAndRest
<1>. DEFINE l == Scheduled(Top.node)
            pushed == [k \in 1..Len(l) |-> Item(l[Len(l) + 1 - k], Top.block, 0)]
            again == Item(Top.node, Top.block, 1)
            New0 == {Item(n, Top.block, 0) : n \in {m \in Nodes : m > Top.node}}
            s == <<again>> \o pushed
<1>4. l \in Seq(Nodes) /\ Len(l) \in Nat /\ DOMAIN l = 1..Len(l)
    BY <1>3, ScheduledAreNodes, LenProperties DEF IInv
<1>5. \A x \in DOMAIN l : l[x] \in Nodes /\ l[x] > Top.node
    <2>1. \A x \in DOMAIN l : \E k \in DOMAIN ast[Top.node].kids : l[x] = Kid(Top.node, k)
        <3>1. ast[Top.node].kids \in [1..Arity(ast[Top.node].kind) -> Nodes]
            BY <1>3 DEF IInv, TreeInv, WellFormedTree, Nodes
        <3>2. DOMAIN ast[Top.node].kids = 1..Arity(ast[Top.node].kind)
            BY <3>1
        <3>3. CASE ast[Top.node].kind \in {"AND", "OR", "IF"}
            <4>1. l = <<Kid(Top.node, 1)>>
                BY <3>3 DEF Scheduled
            <4>2. 1 \in DOMAIN ast[Top.node].kids
                BY <3>2, <3>3, Arities DEF BinaryKinds, TernaryKinds
            <4>. QED
                BY <4>1, <4>2
        <3>4. CASE ast[Top.node].kind = "ASSIGN"
            <4>1. l = <<Kid(Top.node, 2)>>
                BY <3>4 DEF Scheduled
            <4>2. 2 \in DOMAIN ast[Top.node].kids
                BY <3>2, <3>4, Arities DEF BinaryKinds
            <4>. QED
                BY <4>1, <4>2
        <3>5. CASE ast[Top.node].kind \notin {"AND", "OR", "IF", "ASSIGN"}
            <4>1. l = ast[Top.node].kids
                BY <3>5 DEF Scheduled
            <4>. QED
                BY <4>1 DEF Kid
        <3>. QED
            BY <3>3, <3>4, <3>5
    <2>. QED
        BY <1>3, <2>1, NodesAreNumbers DEF IInv
<1>6. \A k \in 1..Len(l) : Len(l) + 1 - k \in DOMAIN l
    BY <1>4
<1>7. pushed \in Seq(New0)
    <2>1. pushed \in [1..Len(l) -> New0]
        BY <1>5, <1>6
    <2>. QED
        BY <1>4, <2>1, SeqDef
<1>. HIDE DEF l, pushed, New0
<1>8. /\ <<again>> \in Seq({again} \cup New0) /\ Len(<<again>>) = 1 /\ <<again>>[1] = again
      /\ pushed \in Seq({again} \cup New0)
    BY <1>7, SeqMonotonic
<1>9. /\ s \in Seq({again} \cup New0)
      /\ Len(s) = 1 + Len(pushed) /\ Len(pushed) \in Nat
      /\ \A i \in 1..(1 + Len(pushed)) : s[i] =
            IF i <= 1 THEN <<again>>[i] ELSE pushed[i - 1]
    BY <1>8, ConcatProperties, LenProperties
<1>10. /\ s[1] = again
       /\ \A i \in 2..Len(s) : s[i] \in New0
    <2>1. \A i \in 2..Len(s) : s[i] = pushed[i - 1] /\ i - 1 \in 1..Len(pushed)
        BY <1>9
    <2>2. \A i \in 2..Len(s) : s[i] \in New0
        BY <1>7, <2>1, ElementOfSeq
    <2>3. s[1] = <<again>>[1]
        BY <1>9
    <2>. QED
        BY <1>8, <2>2, <2>3
<1>11. worklist' = Rest \o s
    <2>1. worklist' = (Rest \o <<again>>) \o pushed
        BY DEF GenSchedule, l, pushed
    <2>2. Rest \in Seq(ReadyItems)
        BY <1>1, TopAndRest
    <2>. DEFINE T == ReadyItems \cup {again} \cup New0
    <2>3. Rest \in Seq(T) /\ <<again>> \in Seq(T) /\ pushed \in Seq(T)
        <3>1. ReadyItems \subseteq T /\ {again} \cup New0 \subseteq T
            OBVIOUS
        <3>. HIDE DEF T
        <3>. QED
            BY <1>8, <2>2, <3>1, SeqMonotonic
    <2>. HIDE DEF T, again
    <2>4. (Rest \o <<again>>) \o pushed = Rest \o (<<again>> \o pushed)
        BY <2>3, ConcatAssociative
    <2>. QED
        BY <2>1, <2>4
<1>. HIDE DEF s
<1>12. /\ DOMAIN worklist' = 1..(Depth - 1 + Len(s))
       /\ Len(worklist') = Depth - 1 + Len(s)
       /\ \A i \in 1..(Depth - 1) : worklist'[i] = worklist[i]
       /\ \A j \in 1..Len(s) : worklist'[Depth - 1 + j] = s[j]
    BY <1>1, <1>9, <1>11, Pushed
<1>13. PICK d : d = Depth
    OBVIOUS
<1>14. worklist'[d] = again /\ d \in DOMAIN worklist'
    <2>1. 1 \in 1..Len(s) /\ Depth - 1 + 1 = d
        BY <1>2, <1>9, <1>13
    <2>2. d \in DOMAIN worklist'
        BY <1>2, <1>9, <1>12, <1>13
    <2>. QED
        BY <1>10, <1>12, <2>1, <2>2
<1>15. ASSUME NEW k \in DOMAIN worklist', k > d
       PROVE  worklist'[k] \in New0
    <2>1. k \in Int /\ k <= Depth - 1 + Len(s)
        BY <1>2, <1>9, <1>12
    <2>2. /\ k - (Depth - 1) \in 1..Len(s) /\ k - (Depth - 1) \in 2..Len(s)
          /\ Depth - 1 + (k - (Depth - 1)) = k
        BY <1>2, <1>9, <1>13, <1>15, <2>1
    <2>. QED
        BY <1>10, <1>12, <2>2
<1>16. /\ Node(d)' = Top.node /\ State(d)' = 1 /\ worklist'[d].block = Top.block
       /\ Kind(d)' = ast[Top.node].kind
    BY <1>1, <1>14 DEF again, Item, Node, State, Kind
<1>17. \A k \in DOMAIN worklist' : k > d =>
          State(k)' = 0 /\ Node(k)' > Top.node /\ worklist'[k].block = Top.block
    BY <1>15 DEF New0, Item, Node, State
<1>18. \A k \in DOMAIN worklist' : k >= d => ~Opens(k)' /\ worklist'[k].block = Top.block
    <2>1. ~Opens(d)'
        BY <1>1, <1>16 DEF Opens, Testing, Holding
    <2>2. \A k \in DOMAIN worklist' : k > d => ~Opens(k)'
        BY <1>17 DEF Opens, Testing, Holding
    <2>3. \A k \in DOMAIN worklist' : k >= d => k = d \/ k > d
        BY <1>2, <1>12, <1>13
    <2>. QED
        BY <1>16, <1>17, <2>1, <2>2, <2>3
<1>19. Top.block \in Uses(Depth)
    BY <1>2, UsesTyped
<1>20. Blocks' = Blocks /\ New = {} /\ Stays
    BY <1>1, NothingWritten
<1>21. DOMAIN walk' = {}
    BY <1>1
<1>22. Turned
    <2>1. \A k \in DOMAIN worklist' : k >= Depth =>
             /\ Uses(k)' \subseteq Uses(Depth) \cup New
             /\ Node(k)' >= Top.node
        <3>. SUFFICES ASSUME NEW k \in DOMAIN worklist', k >= d
                      PROVE  /\ Uses(k)' \subseteq Uses(Depth) \cup New
                             /\ Node(k)' >= Top.node
            BY <1>13
        <3>1. Uses(k)' = {Top.block}
            BY <1>18, PlainUses
        <3>2. Node(k)' \in Nat /\ Top.node \in Nat
            BY <1>1, <1>3, NextItemTyped, NodesAreNumbers DEF IInv, Nodes
        <3>3. Node(k)' >= Top.node
            <4>1. CASE k = d
                BY <1>16, <3>2, <4>1
            <4>2. CASE k > d
                BY <1>17, <3>2, <4>2
            <4>. QED
                BY <1>2, <1>12, <1>13, <4>1, <4>2
        <3>. QED
            BY <1>19, <3>1, <3>3
    <2>2. Len(worklist') >= Depth - 1
        BY <1>2, <1>9, <1>12
    <2>. QED
        BY <1>1, <1>12, <1>20, <1>21, <2>1, <2>2 DEF Turned
<1>23. ~Opens(d)' /\ ~Holding(d)'
    BY <1>2, <1>13, <1>14, <1>18, PlainUses
<1>24. ASSUME CleanInv PROVE Cleaned(d)
    <2>1. ~Testing(d) /\ State(d) # 2
        <3>1. State(Depth) = Top.state /\ Top.state = 0
            BY <1>1, Positions DEF GenSchedule, Turn
        <3>. QED
            BY <1>13, <3>1 DEF Testing
    <2>2. Clean(Top.block)
        BY <1>1, <1>13, <1>24, <2>1, TopClean
    <2>3. \A b : Clean(b)' <=> Clean(b)
        BY <1>1 DEF Clean
    <2>4. \A b \in Blocks' : Tidy(b)'
        <3>1. \A b \in Blocks : Tidy(b)
            BY <1>24 DEF CleanInv
        <3>. QED
            BY <1>1, <1>20, <2>3, <3>1 DEF Tidy, Cut
    <2>5. ASSUME NEW k \in DOMAIN worklist', k >= d
          PROVE  CleanItem(k)'
        <3>1. ~Opens(k)' /\ worklist'[k].block = Top.block
            BY <1>18, <2>5
        <3>2. ~Testing(k)' /\ State(k)' # 2
            BY <3>1 DEF Opens, Holding
        <3>3. Clean(worklist[k].block)'
            BY <1>1, <2>2, <3>1 DEF Clean
        <3>. QED
            BY <3>2, <3>3 DEF CleanItem, Spare
    <2>. QED
        BY <1>21, <2>1, <2>3, <2>4, <2>5 DEF Cleaned
<1>25. TurnStep
    BY <1>1, <1>13, <1>16, <1>17, <1>21, <1>22, <1>23, <1>24, NoWalk, TurnKeeps
<1>26. Quiet(d, <<>>)
    <2>1. Wrote(Top.block, <<>>) /\ Len(<<>>) = 0
        BY <1>1, TopAndRest, NothingWrote
    <2>2. ~Opens(d)
        <3>1. State(d) = 0
            BY <1>1, <1>13, Positions DEF GenSchedule, Turn
        <3>. QED
            BY <3>1 DEF Opens, Testing, Holding
    <2>3. \A k \in DOMAIN worklist' : k >= d => (Kind(k)' = "WHILE" => State(k)' = 0)
        <3>1. Kind(d)' # "WHILE"
            BY <1>1, <1>16
        <3>2. \A k \in DOMAIN worklist' : k >= d => k = d \/ k > d
            BY <1>2, <1>12, <1>13
        <3>. QED
            BY <1>17, <3>1, <3>2
    <2>. QED
        BY <1>1, <1>13, <1>18, <1>20, <2>1, <2>2, <2>3 DEF Quiet
<1>. QED
    BY <1>25, <1>26 DEF PlainStep

-----------------------------------------------------------------------------
(* The steps that make blocks and wait for what is generated into them. *)

\* The popped item comes back as one that has opened m new blocks, and what
\* it waits for is put above it, in those blocks.  e gets the instruction
\* that leads there, and b is the first block that the item is given now.
Opened(d, m, e, s) ==
    /\ worklist # <<>> /\ walk = <<>>
    /\ UNCHANGED <<ast, walk, closed>>
    /\ d = Depth /\ m \in 1..2
    /\ Blocks' = 0..(NextBlock + m - 1) /\ New = NextBlock..(NextBlock + m - 1)
    /\ e \in Uses(Depth) /\ Stays
    /\ \A c \in Blocks : c # e => code'[c] = code[c]
    /\ \A c \in Blocks : c # Top.block => succ'[c] = succ[c]
    /\ Elements(succ'[Top.block]) \subseteq Elements(succ[Top.block]) \cup New
    /\ \A c \in New : succ'[c] = <<>>
    /\ \A n \in Nodes : n # Top.node => /\ held'[n] = held[n]
                                        /\ nodeBlock'[n] = nodeBlock[n]
                                        /\ top'[n] = top[n]
    /\ worklist' = Rest \o s /\ Len(s) >= 1
    /\ Node(d)' = Top.node /\ Opens(d)'
    /\ \A j \in 2..Len(s) : /\ s[j].state = 0
                            /\ s[j].node > Top.node
                            /\ s[j].block \in New \ Spare(d)'
    /\ Holding(d)' => held'[Top.node] = <<e, Len(code'[e])>>
    /\ Floor(d)' = NextBlock /\ NextBlock \notin Spare(d)'
    /\ Outer(d)' \subseteq Uses(Depth) /\ Inner(d)' = New

\* An item that holds a BRANCH after the step holds its two targets.
LEMMA NextHolding ==
    ASSUME IInv', NEW i, i \in DOMAIN worklist', State(i)' = 2
    PROVE  1 \in DOMAIN HeldBlocks(i)' /\ 2 \in DOMAIN HeldBlocks(i)'
<1>1. worklist' \in Seq(ReadyItems')
    BY DEF IInv
<1>2. worklist'[i] \in ReadyItems'
    BY <1>1, ElementOfSeq, LenProperties
<1>3. Holds(worklist[i].node, {"BRANCH"})'
    BY <1>2 DEF ReadyItems, ItemReady, State
<1>4. /\ held'[worklist'[i].node][1] \in Blocks'
      /\ held'[worklist'[i].node][2] \in DOMAIN code'[held'[worklist'[i].node][1]]
      /\ HeldInstr(worklist[i].node)'.op = "BRANCH"
    BY <1>3 DEF Holds
<1>5. \A b \in Blocks' : code'[b] \in Seq(ReadyInstructions(Blocks)')
    BY DEF IInv, CodeInv
<1>6. HeldInstr(worklist[i].node)' \in ReadyInstructions(Blocks)'
    BY <1>4, <1>5, ElementOfSeq, LenProperties DEF HeldInstr
<1>7. HeldBlocks(i)' \in Seq(Blocks') /\ Len(HeldBlocks(i)') = 2
    BY <1>4, <1>6 DEF ReadyInstructions, Instruction, Shaped, HeldBlocks, Node
<1>8. DOMAIN HeldBlocks(i)' = 1..2
    BY <1>7, LenProperties
<1>. QED
    BY <1>8

\* What it emits there, is, leaves the block at the end or not at all, and
\* when it does the item is one that says so.
Leading(d, e, is) ==
    /\ Wrote(e, is) /\ Len(is) \in Nat
    /\ \A x \in 1..Len(is) : is[x].op \in Leaving =>
          x = Len(is) /\ (Testing(d)' \/ State(d)' = 2)
    /\ IF Testing(d) THEN e = nodeBlock[Top.node] /\ State(d)' = 2
                     ELSE e = Top.block
    /\ State(d) # 2
    /\ worklist'[d].block = Top.block
    /\ Testing(d)' => nodeBlock'[Top.node] \in New

\* A BLOCK only names its body.  What else opens blocks leads to them, for
\* control from the end of e and as successors from the block of the item.
Guides(d, e, is) ==
    /\ Elements(succ[Top.block]) \subseteq Elements(succ'[Top.block])
    /\ Opens(d) => Testing(d)
    /\ Testing(d) => /\ top'[Top.node] = top[Top.node]
                     /\ nodeBlock'[Top.node] = nodeBlock[Top.node]
    /\ Kind(d)' = "WHILE" /\ State(d)' = 2 => Testing(d)
    /\ State(d)' # 2 => New = {NextBlock}
    /\ \A x \in 1..Len(is) : is[x].op # "RETURN"
    /\ Testing(d)' \/ State(d)' = 2 =>
          /\ New \subseteq Elements(succ'[Top.block])
          /\ is[Len(is)].op \in {"BRANCH", "JUMP"}
          /\ Elements(is[Len(is)].blks) = New /\ Len(is) >= 1
          /\ \A x \in 1..Len(is) : is[x].op # "BLOCK"
    /\ ~(Testing(d)' \/ State(d)' = 2) =>
          /\ Kind(d)' = "BLOCK" /\ State(d)' = 1
          /\ succ'[Top.block] = succ[Top.block]
          /\ \A x \in 1..Len(is) : is[x].op = "BLOCK" => is[x].blks = <<NextBlock>>

\* What comes with the item is generated into its blocks.
Pushes(d) ==
    /\ d \in DOMAIN worklist'
    /\ \A k \in DOMAIN worklist' : k > d =>
          State(k)' = 0 /\ worklist'[k].block \in New \ Spare(d)'
OpenStep ==
    /\ TurnStep
    /\ \E d, m, e, s, is : /\ Opened(d, m, e, s) /\ Leading(d, e, is)
                           /\ Guides(d, e, is) /\ Pushes(d)

\* A turn that opens blocks keeps the regions.
LEMMA OpenKeeps ==
    ASSUME IInv, IInv', RegionInv, NEW d, NEW m, NEW e, NEW S, NEW s \in Seq(S),
           Opened(d, m, e, s), NEW is, Leading(d, e, is), Guides(d, e, is)
    PROVE  OpenStep
<1>0. /\ worklist # <<>> /\ walk = <<>> /\ ast' = ast /\ d = Depth
      /\ worklist' = Rest \o s /\ Len(s) >= 1 /\ Node(d)' = Top.node
    BY DEF Opened
<1>1. /\ Depth \in Nat /\ Depth >= 1 /\ Depth \in DOMAIN worklist
      /\ Top.block = worklist[Depth].block /\ Top.node = Node(Depth)
    BY <1>0, Positions
<1>2. /\ Len(s) \in Nat /\ d \in Nat /\ d >= 1
      /\ DOMAIN worklist' = 1..(d - 1 + Len(s))
      /\ Len(worklist') = d - 1 + Len(s)
      /\ \A i \in 1..(d - 1) : worklist'[i] = worklist[i]
      /\ \A j \in 1..Len(s) : worklist'[d - 1 + j] = s[j]
    <2>1. /\ Len(s) \in Nat
          /\ DOMAIN worklist' = 1..(Depth - 1 + Len(s))
          /\ Len(worklist') = Depth - 1 + Len(s)
          /\ \A i \in 1..(Depth - 1) : worklist'[i] = worklist[i]
          /\ \A j \in 1..Len(s) : worklist'[Depth - 1 + j] = s[j]
        BY <1>0, Pushed
    <2>. QED
        BY <1>0, <1>1, <2>1
<1>3. Top.block \in Uses(Depth) /\ Uses(Depth) \subseteq Blocks
    BY <1>1, UsesTyped
<1>4. Top.node \in Nodes /\ Nodes \subseteq Nat /\ Top.node \in Nat
    <2>1. Top.node \in Nodes /\ Nodes \subseteq Nat
        BY <1>1, ItemTyped, NodesAreNumbers DEF IInv
    <2>. QED
        BY <2>1
<1>5. ASSUME NEW k \in DOMAIN worklist', k > d
      PROVE  /\ State(k)' = 0 /\ Node(k)' > Top.node
             /\ Uses(k)' \subseteq New \ Spare(d)'
             /\ worklist'[k].block \in New
    <2>1. PICK j : j = k - (d - 1)
        OBVIOUS
    <2>2. j \in 1..Len(s) /\ j \in 2..Len(s) /\ d - 1 + j = k
        <3>1. /\ k \in Int /\ k <= d - 1 + Len(s)
              /\ d \in Nat /\ Len(s) \in Nat
            BY <1>2
        <3>2. PICK l : l = Len(s)
            OBVIOUS
        <3>3. l \in Nat /\ k <= d - 1 + l /\ k > d
            BY <1>5, <3>1, <3>2
        <3>4. j \in 1..l /\ j \in 2..l /\ d - 1 + j = k
            BY <2>1, <3>1, <3>3
        <3>. QED
            BY <3>2, <3>4
    <2>3. worklist'[k] = s[j]
        BY <1>2, <2>2
    <2>4. State(k)' = 0 /\ Node(k)' > Top.node /\ worklist'[k].block \in New \ Spare(d)'
        BY <2>2, <2>3 DEF Opened, State, Node
    <2>5. ~Opens(k)'
        BY <2>4 DEF Opens, Testing, Holding
    <2>. QED
        BY <2>4, <2>5, PlainUses
<1>6. walk' = <<>> /\ DOMAIN walk' = {}
    BY DEF Opened
<1>7. d \in DOMAIN worklist'
    BY <1>0, <1>2
<1>8. \A k \in DOMAIN worklist' : /\ k \in Int /\ k >= 1
                                  /\ k >= d => k = d \/ k > d
                                  /\ k < d => k \in 1..(d - 1)
    BY <1>2
<1>9. Turned
    <2>1. \A k \in DOMAIN worklist' : k >= Depth =>
             /\ Uses(k)' \subseteq Uses(Depth) \cup New
             /\ Node(k)' >= Top.node
        <3>. SUFFICES ASSUME NEW k \in DOMAIN worklist', k >= d
                      PROVE  /\ Uses(k)' \subseteq Uses(Depth) \cup New
                             /\ Node(k)' >= Top.node
            BY <1>0
        <3>1. CASE k = d
            <4>1. Uses(d)' \subseteq Uses(Depth) \cup New
                BY DEF Opened, Uses
            <4>2. Node(d)' >= Top.node
                BY <1>0, <1>4
            <4>. QED
                BY <3>1, <4>1, <4>2
        <3>2. CASE k > d
            <4>1. Node(k)' \in Nat
                BY <1>0, <1>4, NextItemTyped DEF Nodes
            <4>2. Node(k)' >= Top.node
                <5>1. Node(k)' > Top.node
                    BY <1>5, <3>2
                <5>. QED
                    BY <1>4, <4>1, <5>1
            <4>. QED
                BY <1>5, <3>2, <4>2
        <3>. QED
            BY <1>8, <3>1, <3>2
    <2>2. Len(worklist') >= Depth - 1
        BY <1>0, <1>2
    <2>3. \A b \in Blocks' : Elements(succ'[b]) \subseteq
             Uses(Depth) \cup New \cup (IF b \in Blocks THEN Elements(succ[b]) ELSE {})
        <3>. SUFFICES ASSUME NEW b \in Blocks'
                      PROVE  Elements(succ'[b]) \subseteq Uses(Depth) \cup New
                                \cup (IF b \in Blocks THEN Elements(succ[b]) ELSE {})
            OBVIOUS
        <3>1. CASE b \in Blocks
            BY <3>1, <1>3 DEF Opened
        <3>2. CASE b \notin Blocks
            <4>1. Elements(succ'[b]) = {}
                BY <3>2 DEF Opened, New, Elements
            <4>. QED
                BY <4>1
        <3>. QED
            BY <3>1, <3>2
    <2>. QED
        BY <1>0, <1>2, <1>3, <1>6, <2>1, <2>2, <2>3 DEF Opened, Turned
<1>10. /\ NextBlock \in Nat /\ Blocks = 0..(NextBlock - 1)
       /\ \A b \in Blocks : b < NextBlock
       /\ \A b \in New : b >= NextBlock
       /\ NextBlock \in New /\ New \subseteq Blocks'
       /\ \A b \in Blocks' : b >= NextBlock => b \in New
    <2>1. NextBlock \in Nat /\ Blocks = 0..(NextBlock - 1)
        BY DEF IInv, CodeInv
    <2>2. PICK q \in 1..2 : /\ Blocks' = 0..(NextBlock + q - 1)
                            /\ New = NextBlock..(NextBlock + q - 1)
        BY DEF Opened
    <2>. QED
        BY <2>1, <2>2
<1>11. Nested(d)'
    <2>1. Floor(d)' \in Inside(d)'
        <3>1. NextBlock >= NextBlock /\ NextBlock \in Blocks'
            BY <1>10
        <3>. QED
            BY <3>1 DEF Opened, Inside
    <2>2. \A b \in Outer(d)' : b < Floor(d)'
        BY <1>3, <1>10 DEF Opened
    <2>3. \A b \in Inner(d)' : b >= Floor(d)'
        BY <1>10 DEF Opened
    <2>4. Holding(d)' => held'[Node(d)'][1] < Floor(d)'
        BY <1>3, <1>10 DEF Opened
    <2>5. \A k \in DOMAIN worklist' : k < d => \A b \in Uses(k)' : b < Floor(d)'
        <3>. SUFFICES ASSUME NEW k \in DOMAIN worklist', k < d, NEW b \in Uses(k)'
                      PROVE  b < NextBlock
            BY DEF Opened
        <3>1. k \in DOMAIN worklist /\ Uses(k)' = Uses(k)
            BY <1>0, <1>8, <1>9, TurnViews
        <3>2. Uses(k) \subseteq Blocks
            BY <3>1, UsesTyped
        <3>. QED
            BY <1>10, <3>1, <3>2
    <2>6. \A k \in DOMAIN worklist' : k > d => Uses(k)' \subseteq Inside(d)'
        <3>. SUFFICES ASSUME NEW k \in DOMAIN worklist', k > d
                      PROVE  Uses(k)' \subseteq Inside(d)'
            OBVIOUS
        <3>1. Uses(k)' \subseteq New \ Spare(d)'
            BY <1>5
        <3>. QED
            BY <1>10, <3>1 DEF Opened, Inside
    <2>7. \A b \in Inside(d)' : Elements(succ'[b]) \subseteq Inside(d)'
        <3>. SUFFICES ASSUME NEW b \in Inside(d)'
                      PROVE  Elements(succ'[b]) = {}
            OBVIOUS
        <3>1. b \in New
            BY <1>10 DEF Opened, Inside
        <3>. QED
            BY <3>1 DEF Opened, Elements
    <2>. QED
        BY <1>6, <2>1, <2>2, <2>3, <2>4, <2>5, <2>6, <2>7 DEF Nested
<1>12. \A k \in DOMAIN worklist' : k > d => State(k)' = 0 /\ Node(k)' > Top.node
    BY <1>5
<1>13. Holding(d)' => held'[Node(d)'][2] = Len(code'[held'[Node(d)'][1]])
    BY DEF Opened
<1>14. ASSUME CleanInv PROVE Cleaned(d)
    <2>0. /\ Wrote(e, is) /\ Len(is) \in Nat /\ worklist'[d].block = Top.block
          /\ \A x \in 1..Len(is) : is[x].op \in Leaving =>
                x = Len(is) /\ (Testing(d)' \/ State(d)' = 2)
          /\ Testing(d) => e = nodeBlock[Top.node] /\ State(d)' = 2
          /\ ~Testing(d) => e = Top.block
          /\ State(d) # 2
          /\ Testing(d)' => nodeBlock'[Top.node] \in New
        BY DEF Leading
    <2>1. Clean(e)
        BY <1>0, <1>14, <2>0, TopClean
    <2>2. e \in Blocks /\ e \in Blocks' /\ CodeInv /\ \A b \in Blocks : Tidy(b)
        BY <1>0, <1>3, <1>14 DEF Opened, Stays, IInv, CleanInv
    <2>3. /\ \A b \in Blocks' : Tidy(b)'
          /\ \A b \in Blocks' :
                /\ b \in Blocks => Clean(b)
                /\ b = e => \A x \in 1..Len(is) : is[x].op \notin Leaving
                => Clean(b)'
        BY <2>0, <2>1, <2>2, TidyWritten
    <2>4. \A b \in New : Clean(b)'
        BY <2>2, <2>3 DEF New
    <2>5. (Testing(d)' \/ State(d)' = 2) => \A t : t = Top.block => Left(t)'
        BY <1>7, <2>0 DEF Left
    <2>6. ASSUME NEW b \in Blocks, Clean(b)
          PROVE  Clean(b)' \/ Left(b)' \/ b \in Inner(d)
        <3>1. b \in Blocks'
            BY DEF Opened, Stays
        <3>2. CASE b # e \/ \A x \in 1..Len(is) : is[x].op \notin Leaving
            BY <2>3, <2>6, <3>1, <3>2
        <3>3. CASE b = e /\ ~\A x \in 1..Len(is) : is[x].op \notin Leaving
            <4>1. Testing(d)' \/ State(d)' = 2
                BY <2>0, <3>3
            <4>2. CASE Testing(d)
                BY <1>0, <1>1, <2>0, <3>3, <4>2 DEF Inner
            <4>3. CASE ~Testing(d)
                BY <2>0, <2>5, <3>3, <4>1, <4>3
            <4>. QED
                BY <4>2, <4>3
        <3>. QED
            BY <3>2, <3>3
    <2>7. CleanItem(d)'
        <3>1. Clean(worklist[d].block)' \/ Left(worklist[d].block)'
            <4>1. PICK t : t = Top.block
                OBVIOUS
            <4>2. Clean(t)' \/ Left(t)'
                <5>1. CASE Testing(d)' \/ State(d)' = 2
                    BY <2>5, <4>1, <5>1
                <5>2. CASE ~(Testing(d)' \/ State(d)' = 2)
                    BY <2>0, <2>1, <2>2, <2>3, <4>1, <5>2
                <5>. QED
                    BY <5>1, <5>2
            <4>. QED
                BY <2>0, <4>1, <4>2 DEF Clean, Left
        <3>2. Testing(d)' => Clean(nodeBlock[Node(d)])'
            BY <1>0, <2>0, <2>4 DEF Clean
        <3>3. \A b \in Spare(d)' : Clean(b)'
            <4>. SUFFICES ASSUME NEW b \in Spare(d)' PROVE Clean(b)'
                OBVIOUS
            <4>1. b \in Inner(d)'
                <5>1. Holding(d)' /\ State(d)' = 2
                    BY DEF Spare, Holding
                <5>2. 1 \in DOMAIN HeldBlocks(d)' /\ 2 \in DOMAIN HeldBlocks(d)'
                    BY <1>7, <5>1, NextHolding
                <5>3. Inner(d)' = Elements(HeldBlocks(d)')
                    BY <5>1 DEF Inner, Testing, Elements
                <5>. QED
                    BY <5>1, <5>2, <5>3 DEF Spare, Elements
            <4>. QED
                BY <2>4, <4>1 DEF Opened
        <3>. QED
            BY <3>1, <3>2, <3>3 DEF CleanItem
    <2>8. ASSUME NEW k \in DOMAIN worklist', k > d
          PROVE  CleanItem(k)'
        <3>1. State(k)' = 0 /\ worklist'[k].block \in New
            BY <1>5, <2>8
        <3>2. Clean(worklist[k].block)'
            BY <2>4, <3>1 DEF Clean
        <3>. QED
            BY <3>1, <3>2 DEF CleanItem, Testing, Spare
    <2>9. \A k \in DOMAIN worklist' : k >= d => CleanItem(k)'
        BY <1>8, <2>7, <2>8
    <2>10. \A t : t = Top.block /\ (Testing(d) \/ State(d) = 2) => Left(t)'
        BY <2>0, <2>5
    <2>. QED
        BY <1>6, <2>3, <2>6, <2>9, <2>10 DEF Cleaned
<1>15. TurnStep
    <2>1. Floor(d)' = NextBlock /\ Inner(d)' \subseteq New
        BY DEF Opened
    <2>. QED
        BY <1>0, <1>6, <1>9, <1>11, <1>12, <1>13, <1>14, <2>1, NoWalk, TurnKeeps
<1>16. Pushes(d)
    <2>1. \A k \in DOMAIN worklist' : worklist'[k].block \in Uses(k)'
        BY DEF Uses, Outer
    <2>. QED
        BY <1>5, <1>7, <2>1 DEF Pushes
<1>. QED
    BY <1>15, <1>16 DEF OpenStep

\* The item that is put back first is where the popped one was.
LEMMA FirstPushed ==
    ASSUME IInv, worklist # <<>>, NEW S, NEW s \in Seq(S), worklist' = Rest \o s,
           Len(s) >= 1, NEW d, d = Depth
    PROVE  worklist'[d] = s[1]
<1>1. /\ Len(s) \in Nat /\ Depth \in Nat
      /\ \A j \in 1..Len(s) : worklist'[Depth - 1 + j] = s[j]
    BY Pushed, Positions
<1>2. 1 \in 1..Len(s) /\ Depth - 1 + 1 = d
    BY <1>1
<1>. QED
    BY <1>1, <1>2

\* A block that gets one instruction, and k new ones.
LEMMA Leads ==
    ASSUME IInv, NEW k \in 1..2, NEW b \in Blocks, NEW ins,
           Emit(Grown(code, k), b, ins)
    PROVE  /\ Blocks' = 0..(NextBlock + k - 1)
           /\ New = NextBlock..(NextBlock + k - 1)
           /\ Stays /\ \A c \in Blocks : c # b => code'[c] = code[c]
           /\ code'[b][Len(code[b]) + 1] = ins
           /\ Len(code'[b]) = Len(code[b]) + 1
           /\ Wrote(b, <<ins>>)
<1>1. CodeInv /\ NextBlock \in Nat /\ Blocks = 0..(NextBlock - 1) /\ k \in Nat
    BY DEF IInv, CodeInv
<1>2. b \in 0..(NextBlock + k - 1)
    BY <1>1
<1>3. /\ Blocks' = 0..(NextBlock + k - 1)
      /\ New = NextBlock..(NextBlock + k - 1)
      /\ Wrote(b, <<ins>>)
    BY <1>1, <1>2, EmitWrites
<1>4. OldLen(b) = Len(code[b])
    BY DEF OldLen
<1>5. Len(<<ins>>) = 1 /\ <<ins>>[1] = ins /\ 1 \in 1..1
    OBVIOUS
<1>6. /\ Len(code'[b]) = Len(code[b]) + Len(<<ins>>)
      /\ \A x \in 1..Len(<<ins>>) : code'[b][Len(code[b]) + x] = <<ins>>[x]
    BY <1>3, <1>4 DEF Wrote
<1>. QED
    BY <1>3, <1>5, <1>6 DEF Wrote

\* New blocks have no successors; one block may have got some of them.
SuccFrom(b) ==
    /\ \A c \in Blocks : c # b => succ'[c] = succ[c]
    /\ Elements(succ[b]) \subseteq Elements(succ'[b])
    /\ Elements(succ'[b]) \subseteq Elements(succ[b]) \cup New
    /\ \A c \in New : succ'[c] = <<>>

\* New blocks that nothing leads to.
LEMMA SuccKept ==
    ASSUME IInv, NEW k \in 1..2, NEW b \in Blocks,
           New = NextBlock..(NextBlock + k - 1), succ' = Grown(succ, k)
    PROVE  SuccFrom(b) /\ succ'[b] = succ[b]
<1>1. /\ NextBlock \in Nat /\ Blocks = 0..(NextBlock - 1)
      /\ Blocks \subseteq 0..(NextBlock + k - 1)
      /\ New \subseteq 0..(NextBlock + k - 1)
      /\ \A c \in New : c \notin Blocks
    BY DEF IInv, CodeInv, New
<1>2. \A c \in 0..(NextBlock + k - 1) :
         succ'[c] = IF c \in Blocks THEN succ[c] ELSE <<>>
    BY DEF Grown
<1>3. \A c \in Blocks : succ'[c] = succ[c]
    BY <1>1, <1>2
<1>4. \A c \in New : succ'[c] = <<>>
    BY <1>1, <1>2
<1>. QED
    BY <1>3, <1>4 DEF SuccFrom, Elements

\* Block b leads to the blocks t.
Linked(k, b, t) == succ' = [Grown(succ, k) EXCEPT ![b] = @ \o t]

\* New blocks that one block leads to.
LEMMA SuccTo ==
    ASSUME IInv, NEW k \in 1..2, NEW b \in Blocks, NEW t \in Seq(New),
           New = NextBlock..(NextBlock + k - 1),
           Linked(k, b, t)
    PROVE  SuccFrom(b) /\ Elements(t) \subseteq Elements(succ'[b])
<1>1. /\ NextBlock \in Nat /\ Blocks = 0..(NextBlock - 1)
      /\ Blocks \subseteq 0..(NextBlock + k - 1)
      /\ New \subseteq 0..(NextBlock + k - 1)
      /\ \A c \in New : c \notin Blocks
    BY DEF IInv, CodeInv, New
<1>2. /\ \A c \in 0..(NextBlock + k - 1) : c # b =>
            succ'[c] = IF c \in Blocks THEN succ[c] ELSE <<>>
      /\ succ'[b] = succ[b] \o t
    BY <1>1 DEF Grown, Linked
<1>3. \A c \in Blocks : c # b => succ'[c] = succ[c]
    BY <1>1, <1>2
<1>4. \A c \in New : succ'[c] = <<>>
    BY <1>1, <1>2
<1>5. /\ Elements(succ'[b]) \subseteq Elements(succ[b]) \cup New
      /\ Elements(succ[b]) \cup Elements(t) \subseteq Elements(succ'[b])
    <2>. DEFINE T == Blocks \cup New
                old == succ[b]
    <2>1. old \in Seq(T) /\ t \in Seq(T)
        <3>1. old \in Seq(Blocks)
            BY FlowParts
        <3>. QED
            BY <3>1, SeqMonotonic
    <2>. HIDE DEF T, old
    <2>2. /\ old \o t \in Seq(T)
          /\ Len(old \o t) = Len(old) + Len(t)
          /\ Len(old) \in Nat /\ Len(t) \in Nat
          /\ DOMAIN old = 1..Len(old)
          /\ \A i \in 1..(Len(old) + Len(t)) : (old \o t)[i] =
                IF i <= Len(old) THEN old[i] ELSE t[i - Len(old)]
        BY <2>1, ConcatProperties, LenProperties
    <2>3. DOMAIN (old \o t) = 1..(Len(old) + Len(t))
        BY <2>2, LenProperties
    <2>4. \A i \in 1..Len(t) : t[i] \in New
        BY ElementOfSeq
    <2>5. ASSUME NEW i \in DOMAIN (old \o t)
          PROVE  (old \o t)[i] \in Elements(old) \cup New
        <3>1. CASE i <= Len(old)
            <4>1. i \in DOMAIN old /\ (old \o t)[i] = old[i]
                BY <2>2, <2>3, <3>1
            <4>. QED
                BY <4>1 DEF Elements
        <3>2. CASE ~(i <= Len(old))
            <4>1. i - Len(old) \in 1..Len(t) /\ (old \o t)[i] = t[i - Len(old)]
                BY <2>2, <2>3, <3>2
            <4>. QED
                BY <2>4, <4>1
        <3>. QED
            BY <3>1, <3>2
    <2>6. Elements(old \o t) \subseteq Elements(old) \cup New
        BY <2>5 DEF Elements
    <2>7. Elements(old) \subseteq Elements(old \o t)
        <3>1. \A i \in 1..Len(old) : i \in 1..(Len(old) + Len(t)) /\ i <= Len(old)
            BY <2>2
        <3>. QED
            BY <2>2, <2>3, <3>1 DEF Elements
    <2>8. Elements(t) \subseteq Elements(old \o t)
        <3>1. ASSUME NEW i \in DOMAIN t
              PROVE  t[i] \in Elements(old \o t)
            <4>1. DOMAIN t = 1..Len(t)
                BY <2>1, LenProperties
            <4>2. PICK x : x = Len(old) + i
                OBVIOUS
            <4>3. Len(old) \in Nat /\ Len(t) \in Nat /\ i \in 1..Len(t)
                BY <2>2, <4>1
            <4>4. /\ x \in 1..(Len(old) + Len(t)) /\ ~(x <= Len(old))
                  /\ x - Len(old) = i
                BY <4>2, <4>3
            <4>5. (old \o t)[x] = t[x - Len(old)]
                BY <2>2, <4>4
            <4>. QED
                BY <2>3, <4>4, <4>5 DEF Elements
        <3>. QED
            BY <3>1 DEF Elements
    <2>. QED
        BY <1>2, <2>6, <2>7, <2>8 DEF old
<1>. QED
    BY <1>3, <1>4, <1>5 DEF SuccFrom

\* The item at d holds an instruction that leads to the blocks bs.
LEMMA HoldingNow ==
    ASSUME NEW d, NEW n, NEW st, NEW bs, ast' = ast,
           Node(d)' = n, State(d)' = st,
           st = 2 \/ (st = 1 /\ ast[n].kind = "BLOCK"),
           code'[held'[n][1]][held'[n][2]].blks = bs
    PROVE  /\ Kind(d)' = ast[n].kind
           /\ Opens(d)' /\ Holding(d)' /\ ~Testing(d)'
           /\ HeldBlocks(d)' = bs
           /\ Floor(d)' = bs[IF ast[n].kind = "OR" THEN 2 ELSE 1]
           /\ Spare(d)' = IF st # 2 \/ ast[n].kind = "IF" THEN {}
                          ELSE {bs[IF ast[n].kind = "OR" THEN 1 ELSE 2]}
           /\ Outer(d)' = {worklist'[d].block} \cup
                 IF ast[n].kind = "WHILE" /\ st = 2 THEN {top'[n]} ELSE {}
           /\ Inner(d)' = Elements(bs)
<1>1. Kind(d)' = ast[n].kind
    BY DEF Node, Kind
<1>2. Holding(d)' /\ Opens(d)' /\ ~Testing(d)'
    BY <1>1 DEF Holding, Opens, Testing
<1>3. HeldBlocks(d)' = bs
    BY DEF HeldBlocks, HeldInstr
<1>4. Floor(d)' = bs[IF ast[n].kind = "OR" THEN 2 ELSE 1]
    BY <1>1, <1>2, <1>3 DEF Floor
<1>5. Spare(d)' = IF st # 2 \/ ast[n].kind = "IF" THEN {}
                  ELSE {bs[IF ast[n].kind = "OR" THEN 1 ELSE 2]}
    BY <1>1, <1>3 DEF Spare
<1>6. Outer(d)' = {worklist'[d].block} \cup
         IF ast[n].kind = "WHILE" /\ st = 2 THEN {top'[n]} ELSE {}
    BY <1>1 DEF Outer
<1>7. Inner(d)' = Elements(bs)
    BY <1>2, <1>3 DEF Inner, Elements
<1>. QED
    BY <1>1, <1>2, <1>3, <1>4, <1>5, <1>6, <1>7

\* What is there when the top of the worklist is popped.
LEMMA TopUses ==
    ASSUME IInv, worklist # <<>>
    PROVE  /\ Top.block \in Blocks /\ Top.node \in Nodes
           /\ Top.block \in Uses(Depth) /\ Uses(Depth) \subseteq Blocks
           /\ NextBlock \in Nat
           /\ \A k \in DOMAIN ast[Top.node].kids :
                 Kid(Top.node, k) \in Nodes /\ Kid(Top.node, k) > Top.node
<1>1. Depth \in DOMAIN worklist /\ Top.block = worklist[Depth].block
    BY Positions
<1>2. /\ Top.block \in Blocks /\ Top.node \in Nodes
      /\ Top.block \in Uses(Depth) /\ Uses(Depth) \subseteq Blocks
    BY <1>1, UsesTyped, TopAndRest
<1>. QED
    BY <1>2, NodesAreNumbers DEF IInv, CodeInv

\* The arguments of the kinds that open blocks.
LEMMA OpeningKids ==
    ASSUME IInv, worklist # <<>>
    PROVE  /\ ast[Top.node].kind = "BLOCK" => 1 \in DOMAIN ast[Top.node].kids
           /\ ast[Top.node].kind \in {"AND", "OR", "WHILE"} =>
                 1 \in DOMAIN ast[Top.node].kids /\ 2 \in DOMAIN ast[Top.node].kids
           /\ ast[Top.node].kind = "IF" =>
                 2 \in DOMAIN ast[Top.node].kids /\ 3 \in DOMAIN ast[Top.node].kids
<1>1. Top.node \in Nodes
    BY TopUses
<1>2. ast[Top.node].kids \in [1..Arity(ast[Top.node].kind) -> Nodes]
    BY <1>1 DEF IInv, TreeInv, WellFormedTree, Nodes
<1>3. DOMAIN ast[Top.node].kids = 1..Arity(ast[Top.node].kind)
    BY <1>2
<1>4. /\ Arity("BLOCK") = 1 /\ Arity("AND") = 2 /\ Arity("OR") = 2
      /\ Arity("WHILE") = 2 /\ Arity("IF") = 3
    BY Arities DEF UnaryKinds, BinaryKinds, TernaryKinds
<1>. QED
    BY <1>3, <1>4

\* BLOCK opens its body.
LEMMA GenBlockEnterKeeps == IInv /\ IInv' /\ RegionInv /\ GenBlockEnter => OpenStep
<1>. SUFFICES ASSUME IInv, IInv', RegionInv, GenBlockEnter PROVE OpenStep
    OBVIOUS
<1>. DEFINE n == Top.node
            ins == Instr("BLOCK", nextValue, <<>>, <<NextBlock>>)
            first == Item(n, Top.block, 1)
            second == Item(Kid(n, 1), NextBlock, 0)
            s == <<first, second>>
<1>1. /\ worklist # <<>> /\ walk = <<>> /\ ast[n].kind = "BLOCK"
      /\ UNCHANGED <<ast, walk, closed, nodeBlock, top>>
      /\ Emit(Grown(code, 1), Top.block, ins)
      /\ succ' = Grown(succ, 1)
      /\ worklist' = Rest \o s
      /\ held' = [held EXCEPT ![n] = <<Top.block, Len(code[Top.block]) + 1>>]
    BY DEF GenBlockEnter, Turn
<1>2. /\ Top.block \in Blocks /\ n \in Nodes
      /\ Top.block \in Uses(Depth) /\ NextBlock \in Nat
      /\ Kid(n, 1) > n
    BY <1>1, TopUses, OpeningKids
<1>. HIDE DEF n, ins
<1>3. /\ Blocks' = 0..(NextBlock + 1 - 1)
      /\ New = NextBlock..(NextBlock + 1 - 1)
      /\ Stays /\ \A c \in Blocks : c # Top.block => code'[c] = code[c]
      /\ code'[Top.block][Len(code[Top.block]) + 1] = ins
      /\ Len(code'[Top.block]) = Len(code[Top.block]) + 1
      /\ Wrote(Top.block, <<ins>>)
    BY <1>1, <1>2, Leads
<1>4. SuccFrom(Top.block) /\ succ'[Top.block] = succ[Top.block]
    BY <1>1, <1>2, <1>3, SuccKept
<1>5. held'[n] = <<Top.block, Len(code[Top.block]) + 1>>
    BY <1>1, <1>2 DEF IInv, TablesOK
<1>6. \A x \in Nodes : x # n => held'[x] = held[x]
    BY <1>1, <1>2 DEF IInv, TablesOK
<1>7. ins.blks = <<NextBlock>>
    BY DEF ins, Instr
<1>8. /\ s \in Seq({first, second}) /\ Len(s) = 2 /\ s[1] = first /\ s[2] = second
    OBVIOUS
<1>9. second.state = 0 /\ second.node = Kid(n, 1) /\ second.block = NextBlock
    BY DEF Item
<1>. HIDE DEF second, s
<1>10. PICK d : d = Depth
    OBVIOUS
<1>11. worklist'[d] = first
    <2>1. worklist # <<>> /\ worklist' = Rest \o s /\ Len(s) >= 1
        BY <1>1, <1>8
    <2>. QED
        BY <1>8, <1>10, <2>1, FirstPushed
<1>12. Node(d)' = n /\ State(d)' = 1 /\ worklist'[d].block = Top.block
    BY <1>11 DEF Item, Node, State
<1>13. code'[held'[n][1]][held'[n][2]].blks = <<NextBlock>>
    BY <1>3, <1>5, <1>7
<1>14. /\ Opens(d)' /\ HeldBlocks(d)' = <<NextBlock>>
       /\ Floor(d)' = NextBlock /\ Spare(d)' = {} /\ Outer(d)' = {Top.block}
       /\ Inner(d)' = {NextBlock} /\ NextBlock \in New
    <2>. DEFINE bs == <<NextBlock>>
    <2>1. bs[1] = NextBlock /\ Elements(bs) = {NextBlock}
        BY DEF Elements
    <2>. HIDE DEF bs
    <2>2. ast' = ast /\ ast[n].kind = "BLOCK" /\ code'[held'[n][1]][held'[n][2]].blks = bs
        BY <1>1, <1>13 DEF bs
    <2>3. /\ Opens(d)' /\ HeldBlocks(d)' = bs
          /\ Floor(d)' = bs[IF ast[n].kind = "OR" THEN 2 ELSE 1]
          /\ Spare(d)' = IF 1 # 2 \/ ast[n].kind = "IF" THEN {}
                         ELSE {bs[IF ast[n].kind = "OR" THEN 1 ELSE 2]}
          /\ Outer(d)' = {worklist'[d].block} \cup
                IF ast[n].kind = "WHILE" /\ 1 = 2 THEN {top'[n]} ELSE {}
          /\ Inner(d)' = Elements(bs)
        BY <1>12, <2>2, HoldingNow
    <2>4. NextBlock \in New
        BY <1>2, <1>3
    <2>. QED
        BY <1>12, <2>1, <2>2, <2>3, <2>4 DEF bs
<1>15. \A j \in 2..Len(s) : /\ s[j].state = 0
                            /\ s[j].node > n
                            /\ s[j].block \in New \ Spare(d)'
    <2>1. \A j \in 2..Len(s) : s[j] = second
        BY <1>8
    <2>. QED
        BY <1>2, <1>9, <1>14, <2>1
<1>16. held'[n] = <<Top.block, Len(code'[Top.block])>>
    BY <1>3, <1>5
<1>17. Opened(d, 1, Top.block, s)
    <2>1. New = {NextBlock}
        <3>1. NextBlock + 1 - 1 = NextBlock
            BY <1>2
        <3>2. NextBlock..NextBlock = {NextBlock}
            BY <1>2
        <3>. QED
            BY <1>3, <3>1, <3>2
    <2>. QED
        BY <2>1, <1>1, <1>2, <1>3, <1>4, <1>6, <1>8, <1>10, <1>12, <1>14, <1>15, <1>16
       DEF Opened, SuccFrom, n
<1>18. Leading(d, Top.block, <<ins>>)
    <2>1. ins.op = "BLOCK"
        BY DEF ins, Instr
    <2>2. Len(<<ins>>) = 1 /\ <<ins>>[1] = ins
        OBVIOUS
    <2>3. State(d) = 0
        BY <1>1, <1>10, Positions DEF GenBlockEnter, Turn
    <2>4. ~Testing(d) /\ ~Testing(d)'
        BY <1>1, <1>12, <2>3 DEF Testing, Kind, Node
    <2>5. \A x \in 1..Len(<<ins>>) : <<ins>>[x].op \notin Leaving
        BY <2>1, <2>2 DEF Leaving
    <2>. QED
        BY <1>3, <1>12, <2>2, <2>3, <2>4, <2>5 DEF Leading
<1>19. Guides(d, Top.block, <<ins>>)
    <2>1. ins.op = "BLOCK"
        BY DEF ins, Instr
    <2>2. Len(<<ins>>) = 1 /\ <<ins>>[1] = ins
        OBVIOUS
    <2>3. State(d) = 0
        BY <1>1, <1>10, Positions DEF GenBlockEnter, Turn
    <2>4. ~Opens(d) /\ ~Testing(d) /\ ~Testing(d)' /\ Kind(d)' = "BLOCK"
        BY <1>1, <1>12, <2>3 DEF Opens, Holding, Testing, Kind, Node
    <2>5. \A x \in 1..Len(<<ins>>) : <<ins>>[x].op = "BLOCK" /\ <<ins>>[x].blks = <<NextBlock>>
        BY <1>7, <2>1, <2>2
    <2>6. New = {NextBlock}
        <3>1. NextBlock + 1 - 1 = NextBlock
            BY <1>2
        <3>2. NextBlock..NextBlock = {NextBlock}
            BY <1>2
        <3>. QED
            BY <1>3, <3>1, <3>2
    <2>. QED
        BY <1>4, <1>12, <2>4, <2>5, <2>6 DEF Guides
<1>. QED
    BY <1>8, <1>17, <1>18, <1>19, OpenKeeps

\* A BRANCH to two new blocks, bs in the order that its operation takes them.
Branched(e, bs, s) ==
    /\ worklist # <<>> /\ walk = <<>>
    /\ UNCHANGED <<ast, walk, closed, nodeBlock, top>>
    /\ e \in Uses(Depth)
    /\ bs = IF ast[Top.node].kind = "OR" THEN <<NextBlock + 1, NextBlock>>
                                         ELSE <<NextBlock, NextBlock + 1>>
    /\ \E args : Emit(Grown(code, 2), e, Instr("BRANCH", nextValue, args, bs))
    /\ succ' = [Grown(succ, 2) EXCEPT ![Top.block] = @ \o <<NextBlock, NextBlock + 1>>]
    /\ held' = [held EXCEPT ![Top.node] = <<e, Len(code[e]) + 1>>]
    /\ worklist' = Rest \o s /\ Len(s) >= 1
    /\ s[1] = Item(Top.node, Top.block, 2)
    /\ \A j \in 2..Len(s) :
          /\ s[j].state = 0 /\ s[j].node > Top.node
          /\ \/ s[j].block = NextBlock
             \/ s[j].block = NextBlock + 1 /\ ast[Top.node].kind = "IF"
    /\ ast[Top.node].kind = "WHILE" => top[Top.node] \in Uses(Depth)
    /\ Top.state # 2
    /\ ast[Top.node].kind # "BLOCK"
    /\ IF ast[Top.node].kind = "WHILE" THEN Top.state = 1 /\ e = nodeBlock[Top.node]
                                       ELSE e = Top.block

\* A BRANCH opens two blocks.
LEMMA BranchKeeps ==
    ASSUME IInv, IInv', RegionInv, NEW e, NEW bs, NEW S, NEW s \in Seq(S),
           Branched(e, bs, s)
    PROVE  OpenStep
<1>. DEFINE n == Top.node
<1>1. /\ worklist # <<>> /\ walk = <<>> /\ e \in Uses(Depth) /\ ast' = ast
      /\ UNCHANGED <<ast, walk, closed, nodeBlock, top>>
      /\ worklist' = Rest \o s /\ Len(s) >= 1
      /\ held' = [held EXCEPT ![n] = <<e, Len(code[e]) + 1>>]
      /\ bs = IF ast[n].kind = "OR" THEN <<NextBlock + 1, NextBlock>>
                                    ELSE <<NextBlock, NextBlock + 1>>
    BY DEF Branched
<1>2. /\ Top.block \in Blocks /\ n \in Nodes /\ Top.block \in Uses(Depth)
      /\ e \in Blocks /\ NextBlock \in Nat
    BY <1>1, TopUses
<1>3. PICK args : Emit(Grown(code, 2), e, Instr("BRANCH", nextValue, args, bs))
    BY DEF Branched
<1>. DEFINE ins == Instr("BRANCH", nextValue, args, bs)
<1>4. ins.blks = bs
    BY DEF Instr
<1>. HIDE DEF n, ins
<1>5. /\ Blocks' = 0..(NextBlock + 2 - 1)
      /\ New = NextBlock..(NextBlock + 2 - 1)
      /\ Stays /\ \A c \in Blocks : c # e => code'[c] = code[c]
      /\ code'[e][Len(code[e]) + 1] = ins
      /\ Len(code'[e]) = Len(code[e]) + 1
      /\ Wrote(e, <<ins>>)
    BY <1>2, <1>3, Leads DEF ins
<1>6. /\ New = {NextBlock, NextBlock + 1} /\ NextBlock # NextBlock + 1
      /\ NextBlock \in New /\ NextBlock + 1 \in New
    <2>1. NextBlock + 2 - 1 = NextBlock + 1
        BY <1>2
    <2>2. NextBlock..(NextBlock + 1) = {NextBlock, NextBlock + 1}
        BY <1>2
    <2>. QED
        BY <1>2, <1>5, <2>1, <2>2
<1>7. SuccFrom(Top.block) /\ New \subseteq Elements(succ'[Top.block])
    <2>. DEFINE t == <<NextBlock, NextBlock + 1>>
    <2>1. t \in Seq(New)
        BY <1>6
    <2>2. Linked(2, Top.block, t)
        BY DEF Branched, Linked
    <2>3. New = NextBlock..(NextBlock + 2 - 1) /\ 2 \in 1..2
        BY <1>5
    <2>4. Elements(t) = New
        <3>1. \A x : x \in Elements(t) <=> x = NextBlock \/ x = NextBlock + 1
            BY DEF Elements
        <3>. QED
            BY <1>6, <3>1
    <2>. HIDE DEF t
    <2>. QED
        BY <1>2, <2>1, <2>2, <2>3, <2>4, SuccTo
<1>8. /\ held'[n] = <<e, Len(code[e]) + 1>>
      /\ \A x \in Nodes : x # n => held'[x] = held[x]
    BY <1>1, <1>2 DEF IInv, TablesOK
<1>9. PICK d : d = Depth
    OBVIOUS
<1>10. worklist'[d] = Item(n, Top.block, 2)
    <2>1. s[1] = Item(n, Top.block, 2)
        BY DEF Branched, n
    <2>. QED
        BY <1>1, <1>9, <2>1, FirstPushed
<1>11. Node(d)' = n /\ State(d)' = 2 /\ worklist'[d].block = Top.block
    BY <1>10 DEF Item, Node, State
<1>12. code'[held'[n][1]][held'[n][2]].blks = bs
    BY <1>4, <1>5, <1>8
<1>13. /\ Opens(d)'
       /\ Floor(d)' = bs[IF ast[n].kind = "OR" THEN 2 ELSE 1]
       /\ Spare(d)' = IF 2 # 2 \/ ast[n].kind = "IF" THEN {}
                      ELSE {bs[IF ast[n].kind = "OR" THEN 1 ELSE 2]}
       /\ Outer(d)' = {worklist'[d].block} \cup
             IF ast[n].kind = "WHILE" /\ 2 = 2 THEN {top'[n]} ELSE {}
       /\ Inner(d)' = Elements(bs)
    <2>1. ast' = ast /\ Node(d)' = n /\ State(d)' = 2
        BY <1>1, <1>11
    <2>. QED
        BY <1>12, <2>1, HoldingNow
<1>14. /\ Elements(bs) = New
       /\ bs[IF ast[n].kind = "OR" THEN 2 ELSE 1] = NextBlock
       /\ bs[IF ast[n].kind = "OR" THEN 1 ELSE 2] = NextBlock + 1
    BY <1>1, <1>6 DEF Elements
<1>15. /\ Floor(d)' = NextBlock /\ NextBlock \notin Spare(d)'
       /\ Spare(d)' = IF ast[n].kind = "IF" THEN {} ELSE {NextBlock + 1}
       /\ Inner(d)' = New
    BY <1>6, <1>13, <1>14
<1>16. Outer(d)' \subseteq Uses(Depth)
    <2>1. ast[n].kind = "WHILE" => top'[n] \in Uses(Depth)
        BY <1>1 DEF Branched, n
    <2>. QED
        BY <1>2, <1>11, <1>13, <2>1
<1>17. \A j \in 2..Len(s) : /\ s[j].state = 0
                            /\ s[j].node > n
                            /\ s[j].block \in New \ Spare(d)'
    <2>. TAKE j \in 2..Len(s)
    <2>1. /\ s[j].state = 0 /\ s[j].node > n
          /\ \/ s[j].block = NextBlock
             \/ s[j].block = NextBlock + 1 /\ ast[n].kind = "IF"
        BY DEF Branched, n
    <2>. QED
        BY <1>6, <1>15, <2>1
<1>18. held'[n] = <<e, Len(code'[e])>>
    BY <1>5, <1>8
<1>19. Opened(d, 2, e, s)
    <2>1. Opens(d)'
        BY <1>13
    <2>2. /\ \A c \in Blocks : c # Top.block => succ'[c] = succ[c]
          /\ Elements(succ'[Top.block]) \subseteq Elements(succ[Top.block]) \cup New
          /\ \A c \in New : succ'[c] = <<>>
        BY <1>7 DEF SuccFrom
    <2>3. \A x \in Nodes : x # n => /\ held'[x] = held[x]
                                    /\ nodeBlock'[x] = nodeBlock[x]
                                    /\ top'[x] = top[x]
        BY <1>1, <1>8
    <2>4. 2 \in 1..2
        OBVIOUS
    <2>5. /\ worklist # <<>> /\ walk = <<>> /\ UNCHANGED <<ast, walk, closed>>
          /\ e \in Uses(Depth) /\ worklist' = Rest \o s /\ Len(s) >= 1
        BY <1>1
    <2>. QED
        BY <1>5, <1>9, <1>11, <1>15, <1>16, <1>17, <1>18,
           <2>1, <2>2, <2>3, <2>4, <2>5
           DEF Opened, n
<1>20. Leading(d, e, <<ins>>)
    <2>1. Len(<<ins>>) = 1
        OBVIOUS
    <2>2. Node(d) = n /\ State(d) = Top.state
        BY <1>1, <1>9, Positions DEF n
    <2>3. Testing(d) <=> ast[n].kind = "WHILE" /\ Top.state = 1
        BY <2>2 DEF Testing, Kind, Node
    <2>4. /\ Top.state # 2
          /\ ast[n].kind = "WHILE" => Top.state = 1 /\ e = nodeBlock[n]
          /\ ast[n].kind # "WHILE" => e = Top.block
        BY DEF Branched, n
    <2>5. ~Testing(d)'
        BY <1>11 DEF Testing
    <2>. QED
        BY <1>5, <1>11, <2>1, <2>2, <2>3, <2>4, <2>5 DEF Leading, n
<1>21. Guides(d, e, <<ins>>)
    <2>1. Len(<<ins>>) = 1 /\ <<ins>>[1] = ins
        OBVIOUS
    <2>2. Node(d) = n /\ State(d) = Top.state /\ Kind(d) = ast[n].kind
        BY <1>1, <1>9, Positions DEF n, Kind, Node
    <2>3. Testing(d) <=> ast[n].kind = "WHILE" /\ Top.state = 1
        BY <2>2 DEF Testing
    <2>4. /\ Top.state # 2 /\ ast[n].kind # "BLOCK"
          /\ ast[n].kind = "WHILE" => Top.state = 1
        BY DEF Branched, n
    <2>5. Opens(d) => Testing(d)
        BY <2>2, <2>4 DEF Opens, Holding
    <2>6. Kind(d)' = ast[n].kind
        BY <1>1, <1>11 DEF Kind, Node
    <2>7. ins.op = "BRANCH" /\ Elements(ins.blks) = New
        BY <1>4, <1>14 DEF ins, Instr
    <2>8. \A x \in 1..Len(<<ins>>) : <<ins>>[x].op = "BRANCH"
        BY <2>1, <2>7
    <2>. HIDE DEF n
    <2>. QED
        BY <1>1, <1>7, <1>11, <2>1, <2>3, <2>4, <2>5, <2>6, <2>7, <2>8
           DEF Guides, SuccFrom
<1>. QED
    BY <1>19, <1>20, <1>21, OpenKeeps

\* AND and OR open the block of their right operand and the one where the
\* paths meet.
LEMMA GenShortCircuitKeeps == IInv /\ IInv' /\ RegionInv /\ GenShortCircuit => OpenStep
<1>. SUFFICES ASSUME IInv, IInv', RegionInv, GenShortCircuit PROVE OpenStep
    OBVIOUS
<1>. DEFINE n == Top.node
            bs == IF ast[n].kind = "OR" THEN <<NextBlock + 1, NextBlock>>
                                        ELSE <<NextBlock, NextBlock + 1>>
            first == Item(n, Top.block, 2)
            second == Item(Kid(n, 2), NextBlock, 0)
            s == <<first, second>>
<1>1. /\ worklist # <<>> /\ walk = <<>> /\ ast[n].kind \in {"AND", "OR"}
      /\ Top.state = 1
    BY DEF GenShortCircuit, Turn
<1>2. /\ UNCHANGED <<ast, walk, closed, nodeBlock, top>>
      /\ worklist' = Rest \o s
      /\ held' = [held EXCEPT ![n] = <<Top.block, Len(code[Top.block]) + 1>>]
      /\ succ' = [Grown(succ, 2) EXCEPT ![Top.block] = @ \o <<NextBlock, NextBlock + 1>>]
    BY DEF GenShortCircuit
<1>3. Emit(Grown(code, 2), Top.block,
           Instr("BRANCH", nextValue, <<KidResult(n, 1)>>, bs))
    <2>1. bs = IF ast[n].kind = "AND" THEN <<NextBlock, NextBlock + 1>>
                                      ELSE <<NextBlock + 1, NextBlock>>
        BY <1>1
    <2>. QED
        BY <2>1 DEF GenShortCircuit
<1>4. Top.block \in Uses(Depth) /\ Kid(n, 2) > n
    BY <1>1, TopUses, OpeningKids
<1>5. /\ s \in Seq({first, second}) /\ Len(s) = 2 /\ s[1] = first /\ s[2] = second
      /\ second.state = 0 /\ second.node = Kid(n, 2) /\ second.block = NextBlock
    BY DEF Item
<1>6. \A j \in 2..Len(s) : s[j] = second
    BY <1>5
<1>. HIDE DEF s, second
<1>7. Branched(Top.block, bs, s)
    BY <1>1, <1>2, <1>3, <1>4, <1>5, <1>6 DEF Branched
<1>. HIDE DEF bs
<1>. QED
    BY <1>5, <1>7, BranchKeeps

\* IF opens its two alternatives.
LEMMA GenIfBranchKeeps == IInv /\ IInv' /\ RegionInv /\ GenIfBranch => OpenStep
<1>. SUFFICES ASSUME IInv, IInv', RegionInv, GenIfBranch PROVE OpenStep
    OBVIOUS
<1>. DEFINE n == Top.node
            bs == <<NextBlock, NextBlock + 1>>
            first == Item(n, Top.block, 2)
            second == Item(Kid(n, 3), NextBlock + 1, 0)
            third == Item(Kid(n, 2), NextBlock, 0)
            s == <<first, second, third>>
<1>1. worklist # <<>> /\ walk = <<>> /\ ast[n].kind = "IF" /\ Top.state = 1
    BY DEF GenIfBranch, Turn
<1>2. /\ UNCHANGED <<ast, walk, closed, nodeBlock, top>>
      /\ worklist' = Rest \o s
      /\ held' = [held EXCEPT ![n] = <<Top.block, Len(code[Top.block]) + 1>>]
      /\ succ' = [Grown(succ, 2) EXCEPT ![Top.block] = @ \o <<NextBlock, NextBlock + 1>>]
    BY DEF GenIfBranch
<1>3. Emit(Grown(code, 2), Top.block,
           Instr("BRANCH", nextValue, <<KidResult(n, 1)>>, bs))
    BY DEF GenIfBranch
<1>4. Top.block \in Uses(Depth) /\ Kid(n, 2) > n /\ Kid(n, 3) > n
    BY <1>1, TopUses, OpeningKids
<1>5. /\ s \in Seq({first, second, third}) /\ Len(s) = 3
      /\ s[1] = first /\ s[2] = second /\ s[3] = third
      /\ second.state = 0 /\ second.node = Kid(n, 3) /\ second.block = NextBlock + 1
      /\ third.state = 0 /\ third.node = Kid(n, 2) /\ third.block = NextBlock
    BY DEF Item
<1>6. \A j \in 2..Len(s) : s[j] = second \/ s[j] = third
    BY <1>5
<1>. HIDE DEF s, second, third
<1>7. Branched(Top.block, bs, s)
    BY <1>1, <1>2, <1>3, <1>4, <1>5, <1>6 DEF Branched
<1>. HIDE DEF bs
<1>. QED
    BY <1>5, <1>7, BranchKeeps

\* WHILE, its condition known, opens its body and its exit.
LEMMA GenWhileBranchKeeps == IInv /\ IInv' /\ RegionInv /\ GenWhileBranch => OpenStep
<1>. SUFFICES ASSUME IInv, IInv', RegionInv, GenWhileBranch PROVE OpenStep
    OBVIOUS
<1>. DEFINE n == Top.node
            e == nodeBlock[n]
            bs == <<NextBlock, NextBlock + 1>>
            first == Item(n, Top.block, 2)
            second == Item(Kid(n, 2), NextBlock, 0)
            s == <<first, second>>
<1>1. worklist # <<>> /\ walk = <<>> /\ ast[n].kind = "WHILE" /\ Top.state = 1
    BY DEF GenWhileBranch, Turn
<1>2. /\ UNCHANGED <<ast, walk, closed, nodeBlock, top>>
      /\ worklist' = Rest \o s
      /\ held' = [held EXCEPT ![n] = <<e, Len(code[e]) + 1>>]
      /\ succ' = [Grown(succ, 2) EXCEPT ![Top.block] = @ \o <<NextBlock, NextBlock + 1>>]
    BY DEF GenWhileBranch, WhileFrom
<1>3. Emit(Grown(code, 2), e, Instr("BRANCH", nextValue, <<KidResult(n, 1)>>, bs))
    BY DEF GenWhileBranch
<1>4. Top.block \in Uses(Depth) /\ Kid(n, 2) > n
    BY <1>1, TopUses, OpeningKids
<1>5. e \in Uses(Depth) /\ top[n] \in Uses(Depth)
    <2>1. n = Node(Depth) /\ State(Depth) = 1 /\ Kind(Depth) = "WHILE"
        BY <1>1, Positions DEF Kind, Node
    <2>2. Testing(Depth)
        BY <2>1 DEF Testing
    <2>. QED
        BY <2>1, <2>2 DEF Uses, Inner
<1>6. /\ s \in Seq({first, second}) /\ Len(s) = 2 /\ s[1] = first /\ s[2] = second
      /\ second.state = 0 /\ second.node = Kid(n, 2) /\ second.block = NextBlock
    BY DEF Item
<1>7. \A j \in 2..Len(s) : s[j] = second
    BY <1>6
<1>. HIDE DEF s, second
<1>8. Branched(e, bs, s)
    BY <1>1, <1>2, <1>3, <1>4, <1>5, <1>6, <1>7 DEF Branched
<1>. HIDE DEF bs
<1>. QED
    BY <1>6, <1>8, BranchKeeps

\* WHILE opens the block of its condition.
LEMMA GenWhileEnterKeeps == IInv /\ IInv' /\ RegionInv /\ GenWhileEnter => OpenStep
<1>. SUFFICES ASSUME IInv, IInv', RegionInv, GenWhileEnter PROVE OpenStep
    OBVIOUS
<1>. DEFINE n == Top.node
            a == Const("CONST_NULL", nextValue, Null)
            b == Instr("JUMP", nextValue + 1, <<>>, <<NextBlock>>)
            is == <<a, b>>
            first == Item(n, Top.block, 1)
            second == Item(Kid(n, 1), NextBlock, 0)
            s == <<first, second>>
<1>1. /\ worklist # <<>> /\ walk = <<>> /\ ast[n].kind = "WHILE"
      /\ UNCHANGED <<ast, walk, closed, held>>
      /\ worklist' = Rest \o s
      /\ code' = [Grown(code, 1) EXCEPT ![Top.block] = @ \o is]
      /\ succ' = [Grown(succ, 1) EXCEPT ![Top.block] = Append(@, NextBlock)]
      /\ nodeBlock' = [nodeBlock EXCEPT ![n] = NextBlock]
      /\ top' = [top EXCEPT ![n] = NextBlock]
    BY DEF GenWhileEnter, Turn
<1>2. /\ Top.block \in Blocks /\ n \in Nodes
      /\ Top.block \in Uses(Depth) /\ NextBlock \in Nat
      /\ Kid(n, 1) > n
    BY <1>1, TopUses, OpeningKids
<1>. HIDE DEF n, a, b
<1>3. is \in Seq({a, b})
    OBVIOUS
<1>. HIDE DEF is
<1>4. /\ Blocks' = 0..(NextBlock + 1 - 1)
      /\ New = NextBlock..(NextBlock + 1 - 1)
      /\ Wrote(Top.block, is)
    <2>1. CodeInv /\ 1 \in Nat
        BY DEF IInv
    <2>2. Top.block \in 0..(NextBlock + 1 - 1)
        BY <1>2 DEF IInv, CodeInv
    <2>. QED
        BY <1>1, <1>3, <2>1, <2>2, Written
<1>5. New = {NextBlock} /\ NextBlock \in New
    <2>1. NextBlock + 1 - 1 = NextBlock
        BY <1>2
    <2>2. NextBlock..NextBlock = {NextBlock}
        BY <1>2
    <2>. QED
        BY <1>4, <2>1, <2>2
<1>6. SuccFrom(Top.block) /\ New \subseteq Elements(succ'[Top.block])
    <2>. DEFINE t == <<NextBlock>>
    <2>1. t \in Seq(New)
        BY <1>5
    <2>2. Linked(1, Top.block, t)
        <3>1. Grown(succ, 1)[Top.block] = succ[Top.block]
            BY <1>2 DEF Grown, IInv, CodeInv
        <3>2. succ[Top.block] \in Seq(Blocks \cup {NextBlock})
            BY <1>2, FlowParts, SeqMonotonic
        <3>3. Append(succ[Top.block], NextBlock) = succ[Top.block] \o t
            BY <3>2, AppendIsConcat
        <3>. HIDE DEF t
        <3>. QED
            BY <1>1, <3>1, <3>3 DEF Linked
    <2>3. New = NextBlock..(NextBlock + 1 - 1) /\ 1 \in 1..2
        BY <1>4
    <2>4. Elements(t) = New
        <3>1. \A x : x \in Elements(t) <=> x = NextBlock
            BY DEF Elements
        <3>. QED
            BY <1>5, <3>1
    <2>. HIDE DEF t
    <2>. QED
        BY <1>2, <2>1, <2>2, <2>3, <2>4, SuccTo
<1>7. /\ nodeBlock'[n] = NextBlock /\ top'[n] = NextBlock
      /\ \A x \in Nodes : x # n => /\ held'[x] = held[x]
                                   /\ nodeBlock'[x] = nodeBlock[x]
                                   /\ top'[x] = top[x]
    BY <1>1, <1>2 DEF IInv, FlowOK
<1>8. /\ s \in Seq({first, second}) /\ Len(s) = 2 /\ s[1] = first /\ s[2] = second
      /\ second.state = 0 /\ second.node = Kid(n, 1) /\ second.block = NextBlock
    BY DEF Item
<1>9. \A j \in 2..Len(s) : s[j] = second
    BY <1>8
<1>. HIDE DEF second, s
<1>10. PICK d : d = Depth
    OBVIOUS
<1>11. worklist'[d] = first
    <2>1. worklist # <<>> /\ worklist' = Rest \o s /\ Len(s) >= 1
        BY <1>1, <1>8
    <2>. QED
        BY <1>8, <1>10, <2>1, FirstPushed
<1>12. /\ Node(d)' = n /\ State(d)' = 1 /\ worklist'[d].block = Top.block
       /\ Kind(d)' = "WHILE"
    BY <1>1, <1>11 DEF Item, Node, State, Kind
<1>13. Testing(d)' /\ Opens(d)' /\ ~Holding(d)'
    BY <1>12 DEF Testing, Opens, Holding
<1>14. /\ Floor(d)' = NextBlock /\ Spare(d)' = {}
       /\ Outer(d)' = {Top.block} /\ Inner(d)' = {NextBlock}
    <2>1. Floor(d)' = top'[n]
        BY <1>12, <1>13 DEF Floor
    <2>2. Spare(d)' = {}
        BY <1>12 DEF Spare
    <2>3. Outer(d)' = {Top.block}
        BY <1>12 DEF Outer
    <2>4. Inner(d)' = {nodeBlock'[n], top'[n]}
        BY <1>12, <1>13 DEF Inner
    <2>. QED
        BY <1>7, <2>1, <2>2, <2>3, <2>4
<1>15. \A j \in 2..Len(s) : /\ s[j].state = 0
                            /\ s[j].node > n
                            /\ s[j].block \in New \ Spare(d)'
    BY <1>2, <1>5, <1>8, <1>9, <1>14
<1>16. Opened(d, 1, Top.block, s)
    <2>1. /\ \A c \in Blocks : c # Top.block => succ'[c] = succ[c]
          /\ Elements(succ'[Top.block]) \subseteq Elements(succ[Top.block]) \cup New
          /\ \A c \in New : succ'[c] = <<>>
        BY <1>6 DEF SuccFrom
    <2>2. Stays /\ \A c \in Blocks : c # Top.block => code'[c] = code[c]
        BY <1>4 DEF Wrote
    <2>3. /\ worklist # <<>> /\ walk = <<>> /\ UNCHANGED <<ast, walk, closed>>
          /\ worklist' = Rest \o s /\ Len(s) >= 1 /\ 1 \in 1..2
        BY <1>1, <1>8
    <2>. QED
        BY <1>2, <1>4, <1>5, <1>7, <1>10, <1>12, <1>13, <1>14, <1>15,
           <2>1, <2>2, <2>3
           DEF Opened, n
<1>17. Leading(d, Top.block, is)
    <2>1. /\ Len(is) = 2 /\ is[1] = a /\ is[2] = b
          /\ a.op = "CONST_NULL" /\ b.op = "JUMP"
        BY DEF is, a, b, Instr, Const
    <2>2. \A x \in 1..2 : is[x].op \in Leaving => x = 2
        <3>. SUFFICES ASSUME NEW x \in 1..2, is[x].op \in Leaving PROVE x = 2
            OBVIOUS
        <3>1. x = 1 \/ x = 2
            OBVIOUS
        <3>. QED
            BY <2>1, <3>1 DEF Leaving
    <2>3. State(d) = 0
        BY <1>1, <1>10, Positions DEF GenWhileEnter, Turn
    <2>4. ~Testing(d)
        BY <2>3 DEF Testing
    <2>. QED
        BY <1>4, <1>5, <1>7, <1>12, <1>13, <2>1, <2>2, <2>3, <2>4 DEF Leading, n
<1>18. Guides(d, Top.block, is)
    <2>1. /\ Len(is) = 2 /\ is[1] = a /\ is[2] = b
          /\ a.op = "CONST_NULL" /\ b.op = "JUMP" /\ b.blks = <<NextBlock>>
        BY DEF is, a, b, Instr, Const
    <2>2. \A x \in 1..2 : is[x].op # "RETURN" /\ is[x].op # "BLOCK"
        <3>. SUFFICES ASSUME NEW x \in 1..2
                      PROVE  is[x].op # "RETURN" /\ is[x].op # "BLOCK"
            OBVIOUS
        <3>1. x = 1 \/ x = 2
            OBVIOUS
        <3>. QED
            BY <2>1, <3>1
    <2>3. State(d) = 0
        BY <1>1, <1>10, Positions DEF GenWhileEnter, Turn
    <2>4. ~Testing(d) /\ ~Opens(d)
        <3>1. ~Holding(d)
            BY <2>3 DEF Holding
        <3>. QED
            BY <2>3, <3>1 DEF Testing, Opens
    <2>5. Elements(b.blks) = New
        <3>1. \A x : x \in Elements(<<NextBlock>>) <=> x = NextBlock
            BY DEF Elements
        <3>. QED
            BY <1>5, <2>1, <3>1
    <2>. QED
        BY <1>5, <1>6, <1>12, <1>13, <2>1, <2>2, <2>4, <2>5 DEF Guides, SuccFrom
<1>. QED
    BY <1>8, <1>16, <1>17, <1>18, OpenKeeps

-----------------------------------------------------------------------------
(* The steps that leave a region: the walk goes through what is inside. *)

\* The popped item is done; m is the block in which the paths meet, if it is
\* written now.
Closing(d, m) ==
    /\ worklist # <<>> /\ walk = <<>> /\ worklist' = Rest
    /\ d = Depth /\ Opens(d) /\ Stays
    /\ UNCHANGED <<ast, closed, held, nodeBlock, top>>
    /\ m \in Uses(Depth) \cup New
    /\ \A c \in Blocks : c # m => code'[c] = code[c]
    /\ \A c \in Blocks : succ'[c] = succ[c]
    /\ \A c \in New : succ'[c] = <<>>
    /\ \A w \in DOMAIN walk' :
          /\ walk'[w].block \in Uses(Depth)
          /\ walk'[w].do \in Walks => walk'[w].block \in Inside(d)
          /\ walk'[w].do # "return" => walk'[w].jump \in Uses(Depth) \cup New
          /\ walk'[w].jump \notin Inside(d)
          /\ walk'[w].do = "rewrite" => walk'[w].block = Top.block
          /\ walk'[w].do # "return" => Holding(d) /\ walk'[w].node = Top.node
          /\ walk'[w].do = "phi" \/ walk'[w].at # 0 =>
                walk'[w].at = Len(code'[walk'[w].jump])

\* What lies below an item is not inside it, and its own blocks are not either.
LEMMA BelowIsOutside ==
    ASSUME IInv, RegionInv, NEW i \in DOMAIN worklist, Opens(i)
    PROVE  /\ \A b \in Outer(i) : b \notin Inside(i)
           /\ \A k \in DOMAIN worklist : k < i => Uses(k) \cap Inside(i) = {}
           /\ Holding(i) => held[Node(i)][1] \notin Inside(i)
<1>1. Nested(i)
    BY DEF RegionInv, Regions
<1>2. Floor(i) \in Int /\ Blocks \subseteq Int
    BY UsesTyped DEF IInv, CodeInv
<1>3. ASSUME NEW b \in Inside(i) PROVE ~(b < Floor(i))
    <2>1. b \in Int /\ b >= Floor(i)
        BY <1>2 DEF Inside
    <2>. QED
        BY <1>2, <2>1
<1>. QED
    BY <1>1, <1>3 DEF Nested

\* It writes is there, which leaves no block: where the paths meet is where a
\* rewrite moves what follows.
Meets(d, m, is) ==
    /\ Wrote(m, is) /\ Len(is) \in Nat
    /\ \A x \in 1..Len(is) : is[x].op \notin Leaving
    /\ Len(is) > 0 => m \in Spare(d) \cup New
    /\ ~Testing(d)
    /\ State(d) = 2 => \E w \in DOMAIN walk' :
          walk'[w].do = "rewrite" /\ walk'[w].block = Top.block
    /\ \A w \in DOMAIN walk' : walk'[w].do = "rewrite" =>
          walk'[w].jump \in Spare(d) \cup New

\* The blocks of the item that what is generated into its region begins in.
Entries(i) ==
    IF Testing(i) THEN {top[Node(i)]} ELSE Elements(HeldBlocks(i)) \ Spare(i)

\* The walks begin in every one of them; those of a BLOCK return.  The rewrite
\* comes last.  It leads to a block the item holds, or where the walks do.
Calls(d, is) ==
    /\ \A a \in Entries(d) : \E w \in DOMAIN walk' :
          walk'[w].do \in Walks /\ walk'[w].block = a
    /\ \A w \in DOMAIN walk' :
          /\ State(d) # 2 => /\ walk'[w].do = "return"
                             /\ walk'[w].block \in Elements(HeldBlocks(d))
          /\ State(d) = 2 => walk'[w].do # "return"
          /\ walk'[w].do = "link" => walk'[w].block \in Entries(d)
          /\ walk'[w].do = "rewrite" =>
                /\ w = Len(walk')
                /\ \/ walk'[w].jump \in Elements(HeldBlocks(d))
                   \/ /\ Kind(d) = "IF"
                      /\ \A v \in DOMAIN walk' : walk'[v].jump = walk'[w].jump
    /\ \A b \in Spare(d) \cup New : \E w \in DOMAIN walk' :
          walk'[w].do = "rewrite" /\ walk'[w].jump = b
    /\ \A b \in New : \E w \in DOMAIN walk' :
          walk'[w].do = "link" /\ walk'[w].jump = b
    /\ \A x \in 1..Len(is) : is[x].op # "BLOCK"

LeaveStep ==
    /\ TurnStep
    /\ \E d, m, is, S : /\ Closing(d, m) /\ Meets(d, m, is) /\ Calls(d, is)
                        /\ S = Inside(d) /\ Apart(S)'
\* Leaving a region cleans up.
LEMMA LeaveCleaned ==
    ASSUME IInv, IInv', RegionInv, CleanInv, NEW d, NEW m, Closing(d, m),
           NEW is, Meets(d, m, is),
           \A k \in DOMAIN worklist' : ~(k >= d)
    PROVE  Cleaned(d)
<1>1. worklist # <<>> /\ walk = <<>> /\ d = Depth /\ Opens(d)
    BY DEF Closing
<1>2. d \in DOMAIN worklist
    BY <1>1, Positions
<1>3. Spare(d) \subseteq Blocks /\ Uses(d) \subseteq Blocks /\ Blocks \subseteq Blocks'
    BY <1>1, <1>2, UsesTyped DEF Closing, Stays
<1>4. \A b \in Spare(d) : Clean(b)
    BY <1>1, TopClean
<1>5. New \cap Blocks = {} /\ New \subseteq Blocks'
    BY DEF New
<1>6. /\ Wrote(m, is) /\ Len(is) \in Nat
      /\ \A x \in 1..Len(is) : is[x].op \notin Leaving
      /\ Len(is) > 0 => m \in Spare(d) \cup New
    BY DEF Meets
<1>7. CodeInv /\ \A b \in Blocks : Tidy(b)
    BY DEF IInv, CleanInv
<1>8. m \in Blocks'
    BY <1>1, <1>3, <1>5 DEF Closing
<1>9. m \in Blocks /\ Len(is) > 0 => Clean(m)
    BY <1>4, <1>5, <1>6
<1>10. /\ \A b \in Blocks' : Tidy(b)'
       /\ \A b \in Blocks' : (b \in Blocks => Clean(b)) => Clean(b)'
    BY <1>6, <1>7, <1>8, <1>9, TidyWritten
<1>11. ASSUME NEW t, t = Top.block, Testing(d) \/ State(d) = 2
       PROVE  Left(t)'
    BY <1>11 DEF Meets, Left
<1>12. ASSUME NEW w \in DOMAIN walk', walk'[w].do = "rewrite"
       PROVE  Clean(walk[w].jump)'
    <2>1. PICK t : t = walk'[w].jump
        OBVIOUS
    <2>2. t \in Spare(d) \cup New
        BY <1>12, <2>1 DEF Meets
    <2>3. t \in Blocks' /\ (t \in Blocks => Clean(t))
        BY <1>3, <1>4, <1>5, <2>2
    <2>4. Clean(t)'
        BY <1>10, <2>3
    <2>. QED
        BY <2>1, <2>4 DEF Clean
<1>13. \A b \in Blocks : Clean(b) => Clean(b)'
    BY <1>3, <1>10
<1>. QED
    BY <1>10, <1>11, <1>12, <1>13 DEF Cleaned

\* The block that holds the item's instruction lies below what is written.
LEMMA HeldUnwritten ==
    ASSUME IInv, RegionInv, NEW d \in DOMAIN worklist, NEW m, Closing(d, m),
           NEW is, Meets(d, m, is), Holding(d), Nested(d),
           held[Node(d)][1] \in Blocks
    PROVE  Len(code'[held[Node(d)][1]]) = Len(code[held[Node(d)][1]])
<1>1. PICK b \in Blocks : b = held[Node(d)][1]
    OBVIOUS
<1>2. CASE b # m
    BY <1>1, <1>2 DEF Closing
<1>3. CASE b = m
    <2>1. ~(Len(is) > 0)
        <3>1. b \notin New
            BY DEF New
        <3>2. Spare(d) \subseteq Inner(d)
            BY HoldingTyped, LenProperties DEF Spare, Inner, Testing, Holding, Elements
        <3>3. b \notin Spare(d)
            <4>1. b < Floor(d) /\ \A c \in Inner(d) : c >= Floor(d)
                BY <1>1 DEF Nested
            <4>2. b \in Int /\ Floor(d) \in Int
                BY UsesTyped DEF IInv, CodeInv, Opens
            <4>. QED
                BY <3>2, <4>1, <4>2
        <3>. QED
            BY <1>3, <3>1, <3>3 DEF Meets
    <2>2. Len(is) = 0 /\ Len(code'[b]) = Len(code[b]) + Len(is) /\ Len(code[b]) \in Nat
        BY <1>1, <1>3, <2>1, BlockIsSeq DEF Meets, Wrote, OldLen, IInv
    <2>. QED
        BY <1>1, <2>2
<1>. QED
    BY <1>2, <1>3

\* A turn that leaves a region keeps those around it.
LEMMA LeaveKeeps ==
    ASSUME IInv, IInv', RegionInv, NEW d, NEW m, Closing(d, m), OneCall',
           NEW is, Meets(d, m, is), Calls(d, is)
    PROVE  LeaveStep
<1>1. /\ worklist # <<>> /\ walk = <<>> /\ worklist' = Rest
      /\ d = Depth /\ Opens(d)
    BY DEF Closing
<1>2. /\ d \in Nat /\ d \in DOMAIN worklist /\ d >= 1
      /\ Top.block = worklist[Depth].block
    BY <1>1, Positions
<1>3. /\ Len(worklist') = d - 1 /\ DOMAIN worklist' = 1..(d - 1)
      /\ \A i \in 1..(d - 1) : worklist'[i] = worklist[i]
    BY <1>1, Popped
<1>4. Nested(d)
    BY <1>1, <1>2 DEF RegionInv, Regions
<1>5. d \notin DOMAIN worklist' /\ \A k \in DOMAIN worklist' : ~(k > d) /\ ~(k >= d) /\ k < d
    BY <1>2, <1>3
<1>6. Uses(Depth) \subseteq Blocks
    BY <1>1, <1>2, UsesTyped
<1>7. Turned
    <2>1. \A b \in Blocks \ Uses(Depth) : code'[b] = code[b] /\ succ'[b] = succ[b]
        BY DEF Closing, New
    <2>2. \A b \in Blocks' : Elements(succ'[b]) \subseteq
             Uses(Depth) \cup New \cup (IF b \in Blocks THEN Elements(succ[b]) ELSE {})
        <3>. SUFFICES ASSUME NEW b \in Blocks'
                      PROVE  Elements(succ'[b]) \subseteq Uses(Depth) \cup New
                                \cup (IF b \in Blocks THEN Elements(succ[b]) ELSE {})
            OBVIOUS
        <3>1. CASE b \in Blocks
            BY <3>1 DEF Closing
        <3>2. CASE b \notin Blocks
            <4>1. Elements(succ'[b]) = {}
                BY <3>2 DEF Closing, New, Elements
            <4>. QED
                BY <4>1
        <3>. QED
            BY <3>1, <3>2
    <2>3. Len(worklist') >= Depth - 1
        BY <1>1, <1>2, <1>3
    <2>4. \A w \in DOMAIN walk' :
             /\ walk'[w].block \in Uses(Depth) \cup New
             /\ walk'[w].do # "return" => walk'[w].jump \in Uses(Depth) \cup New
        BY DEF Closing
    <2>5. \A i \in 1..(Depth - 1) : worklist'[i] = worklist[i]
        BY <1>1, <1>3
    <2>6. /\ Stays /\ ast' = ast /\ closed' = closed
          /\ UNCHANGED <<held, nodeBlock, top>>
        BY DEF Closing
    <2>7. \A k \in DOMAIN worklist' : ~(k >= Depth)
        BY <1>1, <1>5
    <2>. QED
        BY <1>1, <2>1, <2>2, <2>3, <2>4, <2>5, <2>6, <2>7 DEF Turned
<1>8. WalkApart' /\ \E T \in SUBSET Blocks' : T = Inside(d) /\ Apart(T)'
    <2>. DEFINE S == Inside(d)
    <2>1. S \in SUBSET Blocks'
        BY DEF Inside, Closing, Stays
    <2>2. \A b \in S : b \in Blocks /\ succ'[b] = succ[b] /\ Elements(succ'[b]) \subseteq S
        BY <1>4 DEF Inside, Closing, Nested
    <2>3. Top.block \notin S
        <3>1. Top.block \in Outer(d)
            BY <1>1, <1>2 DEF Outer
        <3>. QED
            BY <1>1, <1>2, <3>1, BelowIsOutside
    <2>4. \A i \in DOMAIN worklist' : Uses(i)' \cap S = {}
        <3>. SUFFICES ASSUME NEW i \in DOMAIN worklist' PROVE Uses(i)' \cap S = {}
            OBVIOUS
        <3>1. i \in DOMAIN worklist /\ i < d /\ Uses(i)' = Uses(i)
            BY <1>1, <1>3, <1>5, <1>7, TurnViews
        <3>. QED
            BY <1>1, <1>2, <3>1, BelowIsOutside
    <2>5. \A w \in DOMAIN walk' :
             /\ walk'[w].do \in Walks => walk'[w].block \in S
             /\ walk'[w].jump \notin S
             /\ walk'[w].do = "rewrite" => walk'[w].block = Top.block
        BY DEF Closing
    <2>8. \A w \in DOMAIN walk' : walk'[w].do # "return" =>
             held'[walk'[w].node][1] \notin S
        <3>1. held' = held /\ Node(d) = Top.node
            BY <1>1, <1>2, Positions DEF Closing
        <3>2. Holding(d) => held[Node(d)][1] \notin S
            BY <1>1, <1>2, BelowIsOutside
        <3>. QED
            BY <3>1, <3>2 DEF Closing
    <2>. HIDE DEF S
    <2>6. PICK T \in SUBSET Blocks' : T = S
        BY <2>1
    <2>7. Apart(T)'
        BY <2>2, <2>3, <2>4, <2>5, <2>6, <2>8 DEF Apart, Walker
    <2>. QED
        BY <2>6, <2>7 DEF WalkApart, S
<1>9. FramesHeld'
    <2>1. Node(d) = Top.node /\ held' = held
        BY <1>1, <1>2, Positions DEF Closing
    <2>2. ASSUME NEW n, n = Node(d), Holding(d)
          PROVE  held[n][2] = Len(code'[held[n][1]])
        <3>1. held[n][1] \in Blocks /\ held[n][2] = Len(code[held[n][1]])
            BY <1>2, <2>2, HoldingTyped DEF RegionInv, LastHeld
        <3>2. Len(code'[held[n][1]]) = Len(code[held[n][1]])
            BY <1>1, <1>2, <1>4, <2>2, <3>1, HeldUnwritten
        <3>. QED
            BY <3>1, <3>2
    <2>3. \A w \in DOMAIN walk' : walk'[w].do # "return" =>
             held'[walk'[w].node][2] = Len(code'[held'[walk'[w].node][1]])
        <3>. SUFFICES ASSUME NEW w \in DOMAIN walk', walk'[w].do # "return"
                      PROVE  held'[walk'[w].node][2]
                                = Len(code'[held'[walk'[w].node][1]])
            OBVIOUS
        <3>1. Holding(d) /\ walk'[w].node = Node(d)
            BY <2>1 DEF Closing
        <3>. QED
            BY <2>1, <2>2, <3>1
    <2>4. \A w \in DOMAIN walk' : walk'[w].do = "phi" \/ walk'[w].at # 0 =>
             walk'[w].at = Len(code'[walk'[w].jump])
        BY DEF Closing
    <2>. QED
        BY <2>3, <2>4 DEF FramesHeld
<1>10. CleanInv => Cleaned(d)
    BY <1>5, LeaveCleaned
<1>11. TurnStep
    BY <1>1, <1>5, <1>7, <1>8, <1>9, <1>10, TurnKeeps
<1>. QED
    BY <1>8, <1>11 DEF LeaveStep

\* The popped item has opened blocks: what it knows of them.
LEMMA TopOpened ==
    ASSUME IInv, RegionInv, worklist # <<>>,
           \/ Top.state = 2
           \/ Top.state = 1 /\ ast[Top.node].kind = "BLOCK",
           NEW d, d = Depth
    PROVE  /\ d \in DOMAIN worklist /\ Holding(d) /\ Opens(d) /\ Nested(d)
           /\ ~Testing(d) /\ State(d) = Top.state
           /\ Node(d) = Top.node /\ Kind(d) = ast[Top.node].kind
           /\ HeldInstr(Top.node).blks = HeldBlocks(d)
           /\ Top.block \in Uses(Depth)
           /\ Elements(HeldBlocks(d)) = Inner(d) /\ Inner(d) \subseteq Uses(Depth)
           /\ Outer(d) \subseteq Uses(Depth)
           /\ Top.state = 2 => 1 \in DOMAIN HeldBlocks(d) /\ 2 \in DOMAIN HeldBlocks(d)
           /\ Top.state = 1 => 1 \in DOMAIN HeldBlocks(d)
           /\ Elements(HeldBlocks(d)) = IF Top.state = 2
                 THEN {HeldBlocks(d)[1], HeldBlocks(d)[2]} ELSE {HeldBlocks(d)[1]}
<1>1. /\ Depth \in DOMAIN worklist /\ Top.node = Node(Depth)
      /\ Top.state = State(Depth)
    BY Positions
<1>2. Kind(d) = ast[Top.node].kind /\ HeldInstr(Top.node).blks = HeldBlocks(d)
    BY <1>1 DEF Kind, HeldBlocks, Node
<1>3. Holding(d) /\ Opens(d) /\ ~Testing(d)
    BY <1>1, <1>2 DEF Holding, Opens, Testing
<1>4. Nested(d)
    BY <1>1, <1>3 DEF RegionInv, Regions
<1>5. Elements(HeldBlocks(d)) = Inner(d) /\ Inner(d) \subseteq Uses(d) /\ Outer(d) \subseteq Uses(d)
    BY <1>3 DEF Inner, Uses
<1>6. /\ State(d) = 2 => Len(HeldBlocks(d)) = 2
      /\ State(d) # 2 => Len(HeldBlocks(d)) = 1
      /\ HeldBlocks(d) \in Seq(Blocks)
    BY <1>1, <1>3, HoldingTyped
<1>7. DOMAIN HeldBlocks(d) = 1..Len(HeldBlocks(d))
    BY <1>6, LenProperties
<1>8. /\ State(d) = 2 => 1 \in DOMAIN HeldBlocks(d) /\ 2 \in DOMAIN HeldBlocks(d)
      /\ State(d) # 2 => 1 \in DOMAIN HeldBlocks(d)
    BY <1>6, <1>7
<1>9. Elements(HeldBlocks(d)) = IF Top.state = 2
         THEN {HeldBlocks(d)[1], HeldBlocks(d)[2]} ELSE {HeldBlocks(d)[1]}
    <2>1. CASE State(d) = 2
        <3>1. \A x : x \in DOMAIN HeldBlocks(d) <=> x = 1 \/ x = 2
            BY <1>6, <1>7, <2>1
        <3>. QED
            BY <1>1, <2>1, <3>1 DEF Elements
    <2>2. CASE State(d) # 2
        <3>1. \A x : x \in DOMAIN HeldBlocks(d) <=> x = 1
            BY <1>6, <1>7, <2>2
        <3>. QED
            BY <1>1, <2>2, <3>1 DEF Elements
    <2>. QED
        BY <2>1, <2>2
<1>. QED
    BY <1>1, <1>2, <1>3, <1>4, <1>5, <1>8, <1>9, TopUses

\* BLOCK is done: a walk returns from its body.
LEMMA GenBlockLeaveKeeps == IInv /\ IInv' /\ RegionInv /\ GenBlockLeave => LeaveStep
<1>. SUFFICES ASSUME IInv, IInv', RegionInv, GenBlockLeave PROVE LeaveStep
    OBVIOUS
<1>1. /\ worklist # <<>> /\ walk = <<>> /\ worklist' = Rest
      /\ ast[Top.node].kind = "BLOCK" /\ Top.state = 1
      /\ UNCHANGED <<ast, code, succ, closed, held, nodeBlock, top>>
    BY DEF GenBlockLeave, Turn
<1>2. PICK d : d = Depth
    OBVIOUS
<1>3. /\ d \in DOMAIN worklist /\ Opens(d) /\ Nested(d)
      /\ ~Testing(d) /\ State(d) = 1 /\ Kind(d) = "BLOCK"
      /\ HeldInstr(Top.node).blks = HeldBlocks(d)
      /\ Top.block \in Uses(Depth)
      /\ Elements(HeldBlocks(d)) \subseteq Uses(Depth) /\ 1 \in DOMAIN HeldBlocks(d)
      /\ Elements(HeldBlocks(d)) = {HeldBlocks(d)[1]}
    BY <1>1, <1>2, TopOpened
<1>. DEFINE body == HeldBlocks(d)[1]
            f == Frame("return", Top.node, body, NoBlock, 0, KidResult(Top.node, 1))
<1>4. walk' = <<f>>
    BY <1>3 DEF GenBlockLeave
<1>5. f.do = "return" /\ f.block = body /\ f.jump = NoBlock /\ f.at = 0
    BY DEF Frame
<1>6. body \in Uses(Depth) /\ body \in Inside(d)
    <2>1. body = Floor(d)
        BY <1>3 DEF Floor
    <2>2. body \in Elements(HeldBlocks(d))
        BY <1>3 DEF Elements
    <2>. QED
        BY <1>3, <2>1, <2>2 DEF Nested
<1>7. NoBlock \notin Inside(d)
    BY NoBlockIsNone DEF Inside, IInv
<1>8. Blocks' = Blocks /\ New = {} /\ Stays
    BY <1>1, NothingWritten
<1>. HIDE DEF f, body
<1>9. DOMAIN walk' = {1} /\ walk'[1] = f
    BY <1>4
<1>10. Closing(d, Top.block)
    BY <1>1, <1>2, <1>3, <1>5, <1>6, <1>7, <1>8, <1>9 DEF Closing
<1>11. OneCall'
    BY <1>5, <1>9 DEF OneCall, Walker
<1>12. Meets(d, Top.block, <<>>)
    <2>1. Wrote(Top.block, <<>>) /\ Len(<<>>) = 0
        BY <1>1, TopUses, NothingWrote
    <2>. QED
        BY <1>3, <1>5, <1>9, <2>1 DEF Meets
<1>13. Calls(d, <<>>)
    <2>1. Entries(d) = {body}
        BY <1>3 DEF Entries, Spare, body
    <2>2. Spare(d) = {} /\ Len(<<>>) = 0
        BY <1>3 DEF Spare
    <2>. QED
        BY <1>3, <1>5, <1>8, <1>9, <2>1, <2>2 DEF Calls, Walks, body
<1>. QED
    BY <1>10, <1>11, <1>12, <1>13, LeaveKeeps

\* WHILE is done: a walk jumps back from its body, and what follows goes on
\* in its exit.
LEMMA GenWhileLoopKeeps == IInv /\ IInv' /\ RegionInv /\ GenWhileLoop => LeaveStep
<1>. SUFFICES ASSUME IInv, IInv', RegionInv, GenWhileLoop PROVE LeaveStep
    OBVIOUS
<1>1. /\ worklist # <<>> /\ walk = <<>> /\ worklist' = Rest
      /\ ast[Top.node].kind = "WHILE" /\ Top.state = 2
      /\ UNCHANGED <<ast, code, succ, closed, held, nodeBlock, top>>
    BY DEF GenWhileLoop, Turn
<1>2. PICK d : d = Depth
    OBVIOUS
<1>3. /\ d \in DOMAIN worklist /\ Opens(d) /\ Nested(d)
      /\ ~Testing(d) /\ State(d) = 2 /\ Kind(d) = "WHILE" /\ Node(d) = Top.node
      /\ Holding(d) /\ HeldInstr(Top.node).blks = HeldBlocks(d)
      /\ Top.block \in Uses(Depth) /\ Outer(d) \subseteq Uses(Depth)
      /\ Elements(HeldBlocks(d)) \subseteq Uses(Depth)
      /\ 1 \in DOMAIN HeldBlocks(d) /\ 2 \in DOMAIN HeldBlocks(d)
      /\ Elements(HeldBlocks(d)) = {HeldBlocks(d)[1], HeldBlocks(d)[2]}
    BY <1>1, <1>2, TopOpened
<1>. DEFINE body == HeldBlocks(d)[1]
            exit == HeldBlocks(d)[2]
            f == Frame("jump", Top.node, body, top[Top.node], 0, NoId)
            g == Frame("rewrite", Top.node, Top.block, exit, 0, NoId)
<1>4. walk' = <<f, g>>
    BY <1>3 DEF GenWhileLoop
<1>5. /\ f.do = "jump" /\ f.block = body /\ f.jump = top[Top.node]
      /\ g.do = "rewrite" /\ g.block = Top.block /\ g.jump = exit
      /\ f.node = Top.node /\ f.at = 0 /\ g.node = Top.node /\ g.at = 0
    BY DEF Frame
<1>6. /\ body \in Uses(Depth) /\ body \in Inside(d)
      /\ exit \in Uses(Depth) /\ exit \notin Inside(d) /\ exit \in Spare(d)
    <2>1. body = Floor(d)
        BY <1>3 DEF Floor
    <2>2. body \in Elements(HeldBlocks(d)) /\ exit \in Elements(HeldBlocks(d))
        BY <1>3 DEF Elements
    <2>3. exit \in Spare(d)
        BY <1>3 DEF Spare
    <2>. QED
        BY <1>3, <2>1, <2>2, <2>3 DEF Nested, Inside
<1>7. top[Top.node] \in Uses(Depth) /\ top[Top.node] \notin Inside(d)
    <2>1. top[Top.node] \in Outer(d)
        BY <1>3 DEF Outer
    <2>. QED
        BY <1>3, <2>1, BelowIsOutside
<1>8. Blocks' = Blocks /\ New = {} /\ Stays
    BY <1>1, NothingWritten
<1>. HIDE DEF f, g, body, exit
<1>9. DOMAIN walk' = {1, 2} /\ walk'[1] = f /\ walk'[2] = g /\ Len(walk') = 2
    BY <1>4
<1>10. Closing(d, Top.block)
    BY <1>1, <1>2, <1>3, <1>5, <1>6, <1>7, <1>8, <1>9 DEF Closing, Walks
<1>11. OneCall'
    BY <1>5, <1>9 DEF OneCall, Walker, Walks
<1>12. Meets(d, Top.block, <<>>)
    <2>1. Wrote(Top.block, <<>>) /\ Len(<<>>) = 0
        BY <1>1, TopUses, NothingWrote
    <2>. QED
        BY <1>3, <1>5, <1>6, <1>9, <2>1 DEF Meets
<1>13. Calls(d, <<>>)
    <2>1. Spare(d) = {exit}
        BY <1>3 DEF Spare, exit
    <2>2. Entries(d) \subseteq {body} /\ exit \in Elements(HeldBlocks(d))
        BY <1>3, <2>1 DEF Entries, body, exit
    <2>3. Len(<<>>) = 0
        OBVIOUS
    <2>. QED
        BY <1>3, <1>5, <1>8, <1>9, <2>1, <2>2, <2>3 DEF Calls, Walks
<1>. QED
    BY <1>10, <1>11, <1>12, <1>13, LeaveKeeps

\* AND and OR are done: the paths meet in a PHI.
LEMMA GenShortCircuitMergeKeeps ==
    IInv /\ IInv' /\ RegionInv /\ GenShortCircuitMerge => LeaveStep
<1>. SUFFICES ASSUME IInv, IInv', RegionInv, GenShortCircuitMerge PROVE LeaveStep
    OBVIOUS
<1>1. /\ worklist # <<>> /\ walk = <<>> /\ worklist' = Rest
      /\ ast[Top.node].kind \in {"AND", "OR"} /\ Top.state = 2
      /\ UNCHANGED <<ast, succ, closed, held, nodeBlock, top>>
    BY DEF GenShortCircuitMerge, Turn
<1>2. PICK d : d = Depth
    OBVIOUS
<1>3. /\ d \in DOMAIN worklist /\ Opens(d) /\ Nested(d)
      /\ ~Testing(d) /\ State(d) = 2 /\ Kind(d) = ast[Top.node].kind
      /\ Holding(d) /\ HeldInstr(Top.node).blks = HeldBlocks(d)
      /\ Top.block \in Uses(Depth)
      /\ Elements(HeldBlocks(d)) \subseteq Uses(Depth)
      /\ 1 \in DOMAIN HeldBlocks(d) /\ 2 \in DOMAIN HeldBlocks(d)
      /\ Elements(HeldBlocks(d)) = {HeldBlocks(d)[1], HeldBlocks(d)[2]}
    BY <1>1, <1>2, TopOpened
<1>. DEFINE eval == Evaluated(Top.node)
            merge == Merged(Top.node)
            ins == Instr("PHI", nextValue, <<KidResult(Top.node, 1)>>, <<Top.block>>)
            f == Frame("phi", Top.node, eval, merge, Len(code[merge]) + 1, KidResult(Top.node, 2))
            g == Frame("link", Top.node, eval, merge, 0, NoId)
            h == Frame("rewrite", Top.node, Top.block, merge, 0, NoId)
<1>4. walk' = <<f, g, h>> /\ Emit(code, merge, ins)
    BY DEF GenShortCircuitMerge
<1>5. /\ f.do = "phi" /\ f.block = eval /\ f.jump = merge /\ f.at = Len(code[merge]) + 1
      /\ g.do = "link" /\ g.block = eval /\ g.jump = merge /\ g.at = 0
      /\ h.do = "rewrite" /\ h.block = Top.block /\ h.jump = merge /\ h.at = 0
      /\ f.node = Top.node /\ g.node = Top.node /\ h.node = Top.node
    BY DEF Frame
<1>6. /\ eval \in Uses(Depth) /\ eval \in Inside(d)
      /\ merge \in Uses(Depth) /\ merge \notin Inside(d) /\ Spare(d) = {merge}
      /\ Entries(d) = {eval} /\ merge \in Elements(HeldBlocks(d))
    <2>1. /\ eval = HeldBlocks(d)[IF Kind(d) = "OR" THEN 2 ELSE 1]
          /\ merge = HeldBlocks(d)[IF Kind(d) = "OR" THEN 1 ELSE 2]
        BY <1>1, <1>3 DEF Evaluated, Merged
    <2>2. eval = Floor(d) /\ Spare(d) = {merge}
        BY <1>1, <1>3, <2>1 DEF Floor, Spare
    <2>3. eval \in Elements(HeldBlocks(d)) /\ merge \in Elements(HeldBlocks(d))
        BY <1>3, <2>1 DEF Elements
    <2>4. eval \in Inside(d) /\ merge \notin Inside(d)
        BY <1>3, <2>2 DEF Nested, Inside
    <2>5. Elements(HeldBlocks(d)) = {eval, merge}
        BY <1>3, <2>1
    <2>6. Entries(d) = {eval}
        BY <1>3, <2>2, <2>4, <2>5 DEF Entries
    <2>. QED
        BY <1>3, <2>2, <2>3, <2>4, <2>6
<1>7. merge \in Blocks /\ ins.op = "PHI"
    BY <1>1, <1>6, TopUses DEF Instr
<1>. HIDE DEF f, g, h, eval, merge, ins
<1>8. Blocks' = Blocks /\ New = {} /\ Wrote(merge, <<ins>>)
    BY <1>4, <1>7, EmitWritesHere DEF IInv
<1>9. Len(code'[merge]) = Len(code[merge]) + 1
    <2>1. OldLen(merge) = Len(code[merge]) /\ Len(<<ins>>) = 1
        BY <1>7 DEF OldLen
    <2>. QED
        BY <1>8, <2>1 DEF Wrote
<1>10. /\ DOMAIN walk' = {1, 2, 3} /\ Len(walk') = 3
       /\ walk'[1] = f /\ walk'[2] = g /\ walk'[3] = h
    BY <1>4
<1>11. Closing(d, merge)
    <2>1. Stays /\ \A c \in Blocks : c # merge => code'[c] = code[c]
        BY <1>8 DEF Wrote
    <2>. QED
        BY <1>1, <1>2, <1>3, <1>5, <1>6, <1>8, <1>9, <1>10, <2>1 DEF Closing, Walks
<1>12. OneCall'
    BY <1>5, <1>10 DEF OneCall, Walker, Walks
<1>13. Meets(d, merge, <<ins>>)
    <2>1. Len(<<ins>>) = 1 /\ <<ins>>[1] = ins
        OBVIOUS
    <2>2. \A x \in 1..Len(<<ins>>) : <<ins>>[x].op \notin Leaving
        BY <1>7, <2>1 DEF Leaving
    <2>. QED
        BY <1>3, <1>5, <1>6, <1>8, <1>10, <2>1, <2>2 DEF Meets
<1>14. Calls(d, <<ins>>)
    <2>1. Len(<<ins>>) = 1 /\ <<ins>>[1] = ins
        OBVIOUS
    <2>2. \A x \in 1..Len(<<ins>>) : <<ins>>[x].op # "BLOCK"
        BY <1>7, <2>1
    <2>. QED
        BY <1>3, <1>5, <1>6, <1>8, <1>10, <2>2 DEF Calls, Walks
<1>. QED
    BY <1>11, <1>12, <1>13, <1>14, LeaveKeeps

\* IF is done: the paths meet in a new block.
LEMMA GenIfMergeKeeps == IInv /\ IInv' /\ RegionInv /\ GenIfMerge => LeaveStep
<1>. SUFFICES ASSUME IInv, IInv', RegionInv, GenIfMerge PROVE LeaveStep
    OBVIOUS
<1>1. /\ worklist # <<>> /\ walk = <<>> /\ worklist' = Rest
      /\ ast[Top.node].kind = "IF" /\ Top.state = 2
      /\ UNCHANGED <<ast, closed, held, nodeBlock, top>> /\ succ' = Grown(succ, 1)
    BY DEF GenIfMerge, Turn
<1>2. PICK d : d = Depth
    OBVIOUS
<1>3. /\ d \in DOMAIN worklist /\ Opens(d) /\ Nested(d)
      /\ ~Testing(d) /\ State(d) = 2 /\ Kind(d) = "IF"
      /\ Holding(d) /\ HeldInstr(Top.node).blks = HeldBlocks(d)
      /\ Top.block \in Uses(Depth)
      /\ Elements(HeldBlocks(d)) = Inner(d) /\ Inner(d) \subseteq Uses(Depth)
      /\ 1 \in DOMAIN HeldBlocks(d) /\ 2 \in DOMAIN HeldBlocks(d)
      /\ Elements(HeldBlocks(d)) = {HeldBlocks(d)[1], HeldBlocks(d)[2]}
    BY <1>1, <1>2, TopOpened
<1>. DEFINE then == HeldBlocks(d)[1]
            else == HeldBlocks(d)[2]
            merge == NextBlock
            ins == Instr("PHI", nextValue, <<>>, <<>>)
            f1 == Frame("phi", Top.node, then, merge, 1, KidResult(Top.node, 2))
            f2 == Frame("phi", Top.node, else, merge, 1, KidResult(Top.node, 3))
            g1 == Frame("link", Top.node, then, merge, 0, NoId)
            g2 == Frame("link", Top.node, else, merge, 0, NoId)
            h == Frame("rewrite", Top.node, Top.block, merge, 1, NoId)
<1>4. walk' = <<f1, f2, g1, g2, h>> /\ Emit(Grown(code, 1), merge, ins)
    BY <1>3 DEF GenIfMerge
<1>5. /\ f1.do = "phi" /\ f1.block = then /\ f1.jump = merge /\ f1.at = 1
      /\ f2.do = "phi" /\ f2.block = else /\ f2.jump = merge /\ f2.at = 1
      /\ g1.do = "link" /\ g1.block = then /\ g1.jump = merge /\ g1.at = 0
      /\ g2.do = "link" /\ g2.block = else /\ g2.jump = merge /\ g2.at = 0
      /\ h.do = "rewrite" /\ h.block = Top.block /\ h.jump = merge /\ h.at = 1
      /\ \A f \in {f1, f2, g1, g2, h} : f.node = Top.node
    BY DEF Frame
<1>6. /\ then \in Uses(Depth) /\ then \in Inside(d)
      /\ else \in Uses(Depth) /\ else \in Inside(d)
      /\ Entries(d) = {then, else} /\ Spare(d) = {}
    <2>1. then = Floor(d) /\ Spare(d) = {}
        BY <1>3 DEF Floor, Spare
    <2>2. then \in Inner(d) /\ else \in Inner(d)
        BY <1>3 DEF Elements
    <2>3. else >= Floor(d) /\ else \in Blocks
        BY <1>1, <1>3, <2>2, TopUses DEF Nested
    <2>. QED
        BY <1>3, <2>1, <2>2, <2>3 DEF Nested, Inside, Entries
<1>7. NextBlock \in Nat /\ Blocks = 0..(NextBlock - 1) /\ merge \notin Blocks
    BY DEF IInv, CodeInv
<1>8. /\ Blocks' = 0..(NextBlock + 1 - 1) /\ New = NextBlock..(NextBlock + 1 - 1)
      /\ Wrote(merge, <<ins>>)
    <2>1. merge \in 0..(NextBlock + 1 - 1) /\ 1 \in Nat
        BY <1>7
    <2>. HIDE DEF merge, ins
    <2>. QED
        BY <1>4, <2>1, EmitWrites DEF IInv
<1>9. merge \in New /\ merge \notin Inside(d) /\ ins.op = "PHI"
    BY <1>7, <1>8 DEF Inside, Instr
<1>. HIDE DEF f1, f2, g1, g2, h, then, else, merge, ins
<1>10. Len(code'[merge]) = 1
    <2>1. OldLen(merge) = 0 /\ Len(<<ins>>) = 1
        BY <1>7 DEF OldLen
    <2>. QED
        BY <1>8, <2>1 DEF Wrote
<1>11. SuccFrom(Top.block) /\ succ'[Top.block] = succ[Top.block]
    <2>1. Top.block \in Blocks
        BY <1>1, TopUses
    <2>2. 1 \in 1..2
        OBVIOUS
    <2>3. SuccFrom(Top.block)
        BY <1>1, <1>8, <2>1, <2>2, SuccKept
    <2>4. succ'[Top.block] = succ[Top.block]
        BY <1>1, <1>7, <2>1 DEF Grown
    <2>. QED
        BY <2>3, <2>4
<1>12. /\ DOMAIN walk' = {1, 2, 3, 4, 5} /\ Len(walk') = 5
       /\ walk'[1] = f1 /\ walk'[2] = f2 /\ walk'[3] = g1 /\ walk'[4] = g2 /\ walk'[5] = h
    BY <1>4
<1>13. Closing(d, merge)
    <2>1. Stays /\ \A c \in Blocks : c # merge => code'[c] = code[c]
        BY <1>8 DEF Wrote
    <2>2. /\ \A c \in Blocks : succ'[c] = succ[c]
          /\ \A c \in New : succ'[c] = <<>>
        BY <1>11 DEF SuccFrom
    <2>3. \A w \in DOMAIN walk' :
             /\ walk'[w].block \in Uses(Depth)
             /\ walk'[w].do \in Walks => walk'[w].block \in Inside(d)
             /\ walk'[w].do # "return" => walk'[w].jump \in Uses(Depth) \cup New
             /\ walk'[w].jump \notin Inside(d)
             /\ walk'[w].do = "rewrite" => walk'[w].block = Top.block
             /\ walk'[w].do # "return" => Holding(d) /\ walk'[w].node = Top.node
             /\ walk'[w].do = "phi" \/ walk'[w].at # 0 =>
                   walk'[w].at = Len(code'[walk'[w].jump])
        <3>. SUFFICES ASSUME NEW w \in DOMAIN walk'
                      PROVE  /\ walk'[w].block \in Uses(Depth)
                             /\ walk'[w].do \in Walks => walk'[w].block \in Inside(d)
                             /\ walk'[w].jump \in Uses(Depth) \cup New
                             /\ walk'[w].jump \notin Inside(d)
                             /\ walk'[w].do = "rewrite" => walk'[w].block = Top.block
                             /\ walk'[w].node = Top.node
                             /\ walk'[w].do = "phi" \/ walk'[w].at # 0 =>
                                   walk'[w].at = Len(code'[walk'[w].jump])
            BY <1>3
        <3>1. walk'[w].jump = merge /\ walk'[w].node = Top.node
            BY <1>5, <1>12
        <3>2. walk'[w] \in {f1, f2} => /\ walk'[w].do = "phi" /\ walk'[w].at = 1
                                      /\ walk'[w].block \in {then, else}
            BY <1>5
        <3>3. walk'[w] \in {g1, g2} => /\ walk'[w].do = "link" /\ walk'[w].at = 0
                                      /\ walk'[w].block \in {then, else}
            BY <1>5
        <3>4. walk'[w] = h => /\ walk'[w].do = "rewrite" /\ walk'[w].at = 1
                              /\ walk'[w].block = Top.block
            BY <1>5
        <3>5. walk'[w] \in {f1, f2} \/ walk'[w] \in {g1, g2} \/ walk'[w] = h
            BY <1>12
        <3>6. {then, else} \subseteq Uses(Depth) \cap Inside(d) /\ Top.block \in Uses(Depth)
            BY <1>3, <1>6
        <3>. QED
            BY <1>9, <1>10, <3>1, <3>2, <3>3, <3>4, <3>5, <3>6 DEF Walks
    <2>. QED
        BY <1>1, <1>2, <1>3, <1>9, <2>1, <2>2, <2>3 DEF Closing
<1>14. OneCall'
    BY <1>5, <1>12 DEF OneCall, Walker, Walks
<1>15. Meets(d, merge, <<ins>>)
    <2>1. Len(<<ins>>) = 1 /\ <<ins>>[1] = ins
        OBVIOUS
    <2>2. \A x \in 1..Len(<<ins>>) : <<ins>>[x].op \notin Leaving
        BY <1>9, <2>1 DEF Leaving
    <2>3. \A w \in DOMAIN walk' : walk'[w].do = "rewrite" => walk'[w].jump = merge
        BY <1>5, <1>12
    <2>4. walk'[5].do = "rewrite" /\ walk'[5].block = Top.block /\ 5 \in DOMAIN walk'
        BY <1>5, <1>12
    <2>. QED
        BY <1>3, <1>8, <1>9, <2>1, <2>2, <2>3, <2>4 DEF Meets
<1>16. New = {merge}
    <2>1. NextBlock + 1 - 1 = NextBlock
        BY <1>7
    <2>2. NextBlock..NextBlock = {NextBlock}
        BY <1>7
    <2>. QED
        BY <1>8, <2>1, <2>2 DEF merge
<1>17. Calls(d, <<ins>>)
    <2>1. Len(<<ins>>) = 1 /\ <<ins>>[1] = ins
        OBVIOUS
    <2>2. \A x \in 1..Len(<<ins>>) : <<ins>>[x].op # "BLOCK"
        BY <1>9, <2>1
    <2>3. \A w \in DOMAIN walk' :
             /\ walk'[w].jump = merge /\ walk'[w].do # "return"
             /\ walk'[w].do = "link" => walk'[w].block \in {then, else}
             /\ walk'[w].do = "rewrite" => w = Len(walk')
        BY <1>5, <1>12
    <2>4. \A a \in {then, else} : \E w \in DOMAIN walk' :
             walk'[w].do \in Walks /\ walk'[w].block = a
        BY <1>5, <1>12 DEF Walks
    <2>5. /\ \E w \in DOMAIN walk' : walk'[w].do = "rewrite" /\ walk'[w].jump = merge
          /\ \E w \in DOMAIN walk' : walk'[w].do = "link" /\ walk'[w].jump = merge
        BY <1>5, <1>12
    <2>. QED
        BY <1>3, <1>6, <1>16, <2>2, <2>3, <2>4, <2>5 DEF Calls
<1>. QED
    BY <1>13, <1>14, <1>15, <1>17, LeaveKeeps

-----------------------------------------------------------------------------
(* The steps of a walk. *)

\* What such a step may do, but for a rewrite: it writes the block that it
\* has come to, and goes on with the frames that are left and with frames for
\* the successors.
Walked ==
    /\ walk # <<>> /\ Stays /\ Blocks' = Blocks
    /\ UNCHANGED <<ast, worklist, held, nodeBlock, top>>
    /\ \A b \in Blocks : b # Call.block =>
          Len(code'[b]) = Len(code[b]) /\ succ'[b] = succ[b]
    /\ Len(code'[Call.block]) # Len(code[Call.block]) =>
          Call.do \in Walks /\ Call.block # Call.jump
    /\ Elements(succ'[Call.block]) \subseteq Elements(succ[Call.block]) \cup
          (IF Call.do = "return" THEN {} ELSE {Call.jump})
    /\ closed' \subseteq closed \cup
          (IF Call.do = "return" THEN {Call.block} ELSE {})
    /\ \A w \in DOMAIN walk' : \E v \in DOMAIN walk :
          /\ walk'[w].do = walk[v].do /\ walk'[w].jump = walk[v].jump
          /\ walk'[w].at = walk[v].at /\ walk'[w].node = walk[v].node
          /\ \/ walk'[w].block = walk[v].block
             \/ /\ v = 1 /\ Call.do \in Walks /\ Call.block # Call.jump
                /\ walk'[w].block \in Elements(succ[Call.block])

\* The frames of a walk, and those that are left when it goes on.
LEMMA Frames ==
    ASSUME IInv, walk # <<>>
    PROVE  /\ Len(walk) \in Nat /\ DOMAIN walk = 1..Len(walk)
           /\ 1 \in DOMAIN walk /\ Call = walk[1] /\ Call.block \in Blocks
           /\ \A w \in DOMAIN walk : walk[w].block \in Blocks
           /\ DOMAIN Tail(walk) = 1..(Len(walk) - 1)
           /\ Len(Tail(walk)) = Len(walk) - 1
           /\ \A w \in DOMAIN Tail(walk) : w + 1 \in DOMAIN walk /\ Tail(walk)[w] = walk[w + 1]
<1>1. walk \in Seq(ReadyFrames)
    BY DEF IInv
<1>2. /\ Len(walk) \in Nat /\ DOMAIN walk = 1..Len(walk)
      /\ \A w \in DOMAIN walk : walk[w] \in ReadyFrames
    BY <1>1, LenProperties, ElementOfSeq
<1>3. /\ Head(walk) = walk[1]
      /\ Tail(walk) \in Seq(ReadyFrames) /\ Len(Tail(walk)) = Len(walk) - 1
      /\ \A w \in 1..(Len(walk) - 1) : Tail(walk)[w] = walk[w + 1]
    BY <1>1, HeadTailProperties
<1>4. DOMAIN Tail(walk) = 1..(Len(walk) - 1)
    BY <1>3, LenProperties
<1>5. Len(walk) # 0
    BY <1>1, EmptySeq
<1>6. \A w \in DOMAIN walk : walk[w].block \in Blocks
    BY <1>2 DEF ReadyFrames
<1>7. 1 \in DOMAIN walk
    BY <1>2, <1>5
<1>. QED
    BY <1>2, <1>3, <1>4, <1>6, <1>7 DEF Call

\* The items see nothing of it.
LEMMA WalkedViews ==
    ASSUME IInv, Walked, NEW i \in DOMAIN worklist
    PROVE  /\ Node(i)' = Node(i) /\ State(i)' = State(i)
           /\ Holding(i)' <=> Holding(i)
           /\ Opens(i)' <=> Opens(i)
           /\ Opens(i) => Floor(i)' = Floor(i) /\ Spare(i)' = Spare(i)
           /\ Opens(i) => Inside(i)' = Inside(i)
           /\ Outer(i)' = Outer(i) /\ Inner(i)' = Inner(i) /\ Uses(i)' = Uses(i)
<1>1. /\ Stays /\ ast' = ast /\ Blocks' = Blocks
      /\ worklist'[i] = worklist[i]
      /\ held' = held /\ top' = top /\ nodeBlock' = nodeBlock
    BY DEF Walked
<1>2. /\ Node(i)' = Node(i) /\ State(i)' = State(i)
      /\ Holding(i)' <=> Holding(i)
      /\ Opens(i)' <=> Opens(i)
      /\ Opens(i) => Floor(i)' = Floor(i) /\ Spare(i)' = Spare(i)
    BY <1>1, ViewKept
<1>3. Outer(i)' = Outer(i) /\ Inner(i)' = Inner(i) /\ Uses(i)' = Uses(i)
    BY <1>1, UsesKept
<1>4. Opens(i) => Inside(i)' = Inside(i)
    BY <1>1, <1>2 DEF Inside
<1>. QED
    BY <1>2, <1>3, <1>4

\* What is written is inside whatever is open.
LEMMA WalkedNested ==
    ASSUME IInv, RegionInv, Walked, NEW i \in DOMAIN worklist, Opens(i)
    PROVE  Nested(i)'
<1>1. /\ Node(i)' = Node(i)
      /\ Holding(i)' <=> Holding(i)
      /\ Floor(i)' = Floor(i) /\ Spare(i)' = Spare(i) /\ Inside(i)' = Inside(i)
      /\ Outer(i)' = Outer(i) /\ Inner(i)' = Inner(i) /\ Uses(i)' = Uses(i)
    BY WalkedViews
<1>2. Nested(i)
    BY DEF RegionInv, Regions
<1>3. /\ worklist' = worklist /\ held' = held /\ walk # <<>> /\ Blocks' = Blocks
    BY DEF Walked
<1>4. \A k \in DOMAIN worklist : Uses(k)' = Uses(k)
    BY WalkedViews
<1>5. 1 \in DOMAIN walk /\ Call = walk[1] /\ Call.block \in Blocks
    BY <1>3, Frames
<1>6. Call.block \in Inside(i) /\ (Call.do # "return" => Call.jump \in Inside(i))
    BY <1>2, <1>5 DEF Nested
<1>7. Elements(succ[Call.block]) \subseteq Inside(i)
    BY <1>2, <1>6 DEF Nested
<1>8. \A b \in Inside(i) : Elements(succ'[b]) \subseteq Inside(i)
    <2>. SUFFICES ASSUME NEW b \in Inside(i) PROVE Elements(succ'[b]) \subseteq Inside(i)
        OBVIOUS
    <2>1. CASE b = Call.block
        BY <1>6, <1>7, <2>1 DEF Walked
    <2>2. CASE b # Call.block
        <3>1. succ'[b] = succ[b]
            BY <2>2 DEF Walked, Inside
        <3>. QED
            BY <1>2, <3>1 DEF Nested, Elements
    <2>. QED
        BY <2>1, <2>2
<1>9. ASSUME NEW w \in DOMAIN walk'
      PROVE  /\ walk'[w].block \in Inside(i)
             /\ walk'[w].do # "return" => walk'[w].jump \in Inside(i)
    <2>1. PICK v \in DOMAIN walk :
             /\ walk'[w].do = walk[v].do /\ walk'[w].jump = walk[v].jump
             /\ \/ walk'[w].block = walk[v].block
                \/ walk'[w].block \in Elements(succ[Call.block])
        BY DEF Walked
    <2>2. /\ walk[v].block \in Inside(i)
          /\ walk[v].do # "return" => walk[v].jump \in Inside(i)
        BY <1>2 DEF Nested
    <2>. QED
        BY <1>7, <2>1, <2>2
<1>. QED
    BY <1>1, <1>2, <1>3, <1>4, <1>8, <1>9 DEF Nested

\* What will still be written is still open.
LEMMA WalkedOpen ==
    ASSUME IInv, RegionInv, Walked
    PROVE  StillOpen'
<1>1. /\ 1 \in DOMAIN walk /\ Call = walk[1] /\ Call.block \in Blocks
      /\ worklist' = worklist
    BY Frames DEF Walked
<1>2. ASSUME NEW i \in DOMAIN worklist'
      PROVE  Uses(i)' \cap closed' = {}
    <2>1. Uses(i)' = Uses(i) /\ Uses(i) \cap closed = {}
        BY <1>1, WalkedViews DEF RegionInv, StillOpen
    <2>2. CASE Call.do = "return"
        <3>1. PICK S \in SUBSET Blocks : Apart(S)
            BY DEF RegionInv, WalkApart
        <3>2. Call.jump = NoBlock /\ Call.block # NoBlock
            BY <1>1, <2>2, NoBlockIsNone DEF RegionInv, OneCall, IInv
        <3>3. Call.block \in S
            BY <1>1, <2>2, <3>1, <3>2 DEF Apart, Walker, Walks
        <3>4. Uses(i) \cap S = {}
            BY <1>1, <3>1 DEF Apart
        <3>. QED
            BY <2>1, <3>3, <3>4 DEF Walked
    <2>3. CASE Call.do # "return"
        BY <2>1, <2>3 DEF Walked
    <2>. QED
        BY <2>2, <2>3
<1>3. ASSUME NEW w \in DOMAIN walk'
      PROVE  /\ walk'[w].do # "return" => walk'[w].jump \notin closed'
             /\ walk'[w].do = "link" => walk'[w].block \notin closed'
    <2>1. PICK v \in DOMAIN walk :
             /\ walk'[w].do = walk[v].do /\ walk'[w].jump = walk[v].jump
             /\ \/ walk'[w].block = walk[v].block
                \/ v = 1 /\ Call.do \in Walks
        BY DEF Walked
    <2>2. /\ walk[v].do # "return" => walk[v].jump \notin closed
          /\ walk[v].do = "link" => walk[v].block \notin closed
        BY DEF RegionInv, StillOpen
    <2>3. CASE Call.do = "return"
        <3>1. walk[v].do = "return"
            BY <1>1, <2>3 DEF RegionInv, OneCall
        <3>. QED
            BY <2>1, <3>1
    <2>4. CASE Call.do # "return"
        <3>1. closed' \subseteq closed
            BY <2>4 DEF Walked
        <3>2. "link" \notin Walks
            BY DEF Walks
        <3>. QED
            BY <1>1, <2>1, <2>2, <3>1, <3>2
    <2>. QED
        BY <2>3, <2>4
<1>. QED
    BY <1>2, <1>3 DEF StillOpen

\* The walk stays among the blocks that nothing uses afterwards.
LEMMA ApartKept ==
    ASSUME IInv, RegionInv, Walked, NEW S \in SUBSET Blocks, Apart(S)
    PROVE  Apart(S)'
<1>1. /\ 1 \in DOMAIN walk /\ Call = walk[1] /\ Call.block \in Blocks
      /\ worklist' = worklist /\ Blocks' = Blocks
    BY Frames DEF Walked
<1>2. Apart(S)
    OBVIOUS
<1>3. ASSUME NEW w \in DOMAIN walk', Walker(w)'
      PROVE  /\ walk'[w].block \in S \cup {walk'[w].jump}
             /\ walk'[w].jump \notin S
             /\ \A b \in S : Elements(succ'[b]) \subseteq S \cup {walk'[w].jump}
    <2>1. PICK v \in DOMAIN walk :
             /\ walk'[w].do = walk[v].do /\ walk'[w].jump = walk[v].jump
             /\ \/ walk'[w].block = walk[v].block
                \/ /\ v = 1 /\ Call.block # Call.jump
                   /\ walk'[w].block \in Elements(succ[Call.block])
        BY DEF Walked
    <2>2. Walker(v)
        BY <1>3, <2>1 DEF Walker
    <2>3. /\ walk[v].block \in S \cup {walk[v].jump} /\ walk[v].jump \notin S
          /\ \A b \in S : Elements(succ[b]) \subseteq S \cup {walk[v].jump}
        BY <1>2, <2>2 DEF Apart
    <2>4. Walker(1)
        <3>1. v \in 1..Len(walk) /\ (v = 1 \/ 1 < v)
            BY Frames DEF Walked
        <3>. QED
            BY <1>1, <2>2, <3>1 DEF RegionInv, OneCall
    <2>5. Call.jump = walk[v].jump
        BY <1>1, <2>2, <2>4 DEF RegionInv, OneCall
    <2>6. walk'[w].block \in S \cup {walk'[w].jump}
        <3>1. CASE walk'[w].block = walk[v].block
            BY <2>1, <2>3, <3>1
        <3>2. CASE /\ v = 1 /\ Call.block # Call.jump
                   /\ walk'[w].block \in Elements(succ[Call.block])
            <4>1. Call.block \in S
                BY <1>1, <2>3, <3>2
            <4>. QED
                BY <2>1, <2>3, <3>2, <4>1
        <3>. QED
            BY <2>1, <3>1, <3>2
    <2>7. \A b \in S : Elements(succ'[b]) \subseteq S \cup {walk'[w].jump}
        <3>. SUFFICES ASSUME NEW b \in S
                      PROVE  Elements(succ'[b]) \subseteq S \cup {walk'[w].jump}
            OBVIOUS
        <3>1. CASE b = Call.block
            <4>1. Elements(succ'[b]) \subseteq Elements(succ[b]) \cup {Call.jump}
                BY <3>1 DEF Walked
            <4>. QED
                BY <2>1, <2>3, <2>5, <4>1
        <3>2. CASE b # Call.block
            <4>1. succ'[b] = succ[b]
                BY <3>2 DEF Walked
            <4>. QED
                BY <2>1, <2>3, <4>1 DEF Elements
        <3>. QED
            BY <3>1, <3>2
    <2>. QED
        BY <2>1, <2>3, <2>6, <2>7
<1>4. ASSUME NEW w \in DOMAIN walk', walk'[w].do = "rewrite"
      PROVE  walk'[w].block \notin S /\ walk'[w].jump \notin S
    <2>1. PICK v \in DOMAIN walk :
             /\ walk'[w].do = walk[v].do /\ walk'[w].jump = walk[v].jump
             /\ \/ walk'[w].block = walk[v].block
                \/ v = 1 /\ Call.do \in Walks
        BY DEF Walked
    <2>2. "rewrite" \notin Walks
        BY DEF Walks
    <2>3. walk'[w].block = walk[v].block
        BY <1>1, <1>4, <2>1, <2>2
    <2>. QED
        BY <1>2, <1>4, <2>1, <2>3 DEF Apart
<1>5. \A i \in DOMAIN worklist' : Uses(i)' \cap S = {}
    BY <1>1, <1>2, WalkedViews DEF Apart
<1>6. ASSUME NEW w \in DOMAIN walk', walk'[w].do # "return"
      PROVE  walk'[w].jump \notin S /\ held'[walk'[w].node][1] \notin S
    <2>1. PICK v \in DOMAIN walk :
             /\ walk'[w].do = walk[v].do /\ walk'[w].jump = walk[v].jump
             /\ walk'[w].node = walk[v].node
        BY DEF Walked
    <2>. QED
        BY <1>2, <1>6, <2>1 DEF Apart, Walked
<1>. QED
    BY <1>3, <1>4, <1>5, <1>6 DEF Apart

\* The step of a walk leaves alone what it does not write.
LEMMA WalkedApart ==
    ASSUME IInv, RegionInv, Walked
    PROVE  WalkApart'
<1>1. PICK S \in SUBSET Blocks : Apart(S)
    BY DEF RegionInv, WalkApart
<1>2. Blocks' = Blocks /\ Apart(S)'
    BY <1>1, ApartKept DEF Walked
<1>. QED
    BY <1>2 DEF WalkApart

\* The instructions held stay the last of their blocks.
LEMMA WalkedHeld ==
    ASSUME IInv, RegionInv, Walked
    PROVE  LastHeld'
<1>1. /\ 1 \in DOMAIN walk /\ Call = walk[1] /\ Call.block \in Blocks
      /\ worklist' = worklist /\ held' = held /\ Blocks' = Blocks
    BY Frames DEF Walked
<1>2. ASSUME NEW i \in DOMAIN worklist', Holding(i)'
      PROVE  held'[Node(i)'][2] = Len(code'[held'[Node(i)'][1]])
    <2>1. i \in DOMAIN worklist /\ Holding(i) /\ Opens(i) /\ Node(i)' = Node(i)
        BY <1>1, <1>2, WalkedViews DEF Opens
    <2>2. Nested(i) /\ Call.block \in Inside(i)
        BY <1>1, <2>1 DEF RegionInv, Regions, Nested
    <2>3. held[Node(i)][1] < Floor(i) /\ held[Node(i)][1] \in Blocks
        BY <2>1, <2>2, HoldingTyped DEF Nested
    <2>4. Call.block # held[Node(i)][1]
        <3>1. Call.block \in Int /\ Floor(i) \in Int /\ held[Node(i)][1] \in Int
            BY <1>1, <2>1, <2>3, UsesTyped DEF IInv, CodeInv
        <3>2. Call.block >= Floor(i)
            BY <2>2 DEF Inside
        <3>. QED
            BY <2>3, <3>1, <3>2
    <2>5. Len(code'[held[Node(i)][1]]) = Len(code[held[Node(i)][1]])
        BY <2>3, <2>4 DEF Walked
    <2>. QED
        BY <1>1, <2>1, <2>5 DEF RegionInv, LastHeld
<1>3. PICK S \in SUBSET Blocks : Apart(S)
    BY DEF RegionInv, WalkApart
<1>4. ASSUME NEW v \in DOMAIN walk, walk[v].do # "return",
             NEW b \in Blocks, b \notin S
      PROVE  Len(code'[b]) = Len(code[b])
    <2>1. CASE b # Call.block
        BY <2>1 DEF Walked
    <2>2. CASE b = Call.block
        <3>1. ASSUME Call.do \in Walks /\ Call.block # Call.jump
              PROVE  FALSE
            BY <1>1, <1>3, <1>4, <2>2, <3>1 DEF Apart, Walker
        <3>. QED
            BY <2>2, <3>1 DEF Walked
    <2>. QED
        BY <2>1, <2>2
<1>5. ASSUME NEW w \in DOMAIN walk'
      PROVE  /\ walk'[w].do # "return" =>
                   held'[walk'[w].node][2] = Len(code'[held'[walk'[w].node][1]])
             /\ walk'[w].do = "phi" \/ walk'[w].at # 0 =>
                   walk'[w].at = Len(code'[walk'[w].jump])
    <2>1. PICK v \in DOMAIN walk :
             /\ walk'[w].do = walk[v].do /\ walk'[w].jump = walk[v].jump
             /\ walk'[w].at = walk[v].at /\ walk'[w].node = walk[v].node
        BY DEF Walked
    <2>2. walk[v] \in ReadyFrames
        BY LenProperties, ElementOfSeq DEF IInv
    <2>3. /\ walk[v].do # "return" =>
                held[walk[v].node][2] = Len(code[held[walk[v].node][1]])
          /\ walk[v].do = "phi" \/ walk[v].at # 0 =>
                walk[v].at = Len(code[walk[v].jump])
        BY DEF RegionInv, LastHeld, FramesHeld
    <2>4. walk[v].do # "return" =>
             walk[v].jump \notin S /\ held[walk[v].node][1] \notin S
        BY <1>3 DEF Apart
    <2>5. CASE walk[v].do # "return"
        <3>1. held[walk[v].node][1] \in Blocks /\ walk[v].jump \in Blocks
            BY <2>2, <2>5 DEF ReadyFrames, FrameReady, Holds
        <3>2. /\ Len(code'[held[walk[v].node][1]]) = Len(code[held[walk[v].node][1]])
              /\ Len(code'[walk[v].jump]) = Len(code[walk[v].jump])
            BY <1>4, <2>4, <2>5, <3>1
        <3>. QED
            BY <1>1, <2>1, <2>3, <3>2
    <2>6. CASE walk[v].do = "return"
        <3>1. walk[v].jump = NoBlock
            BY <2>6 DEF RegionInv, OneCall
        <3>2. walk[v].at = 0
            BY <2>2, <3>1 DEF ReadyFrames, FrameReady
        <3>. QED
            BY <2>1, <2>6, <3>2
    <2>. QED
        BY <2>5, <2>6
<1>. QED
    BY <1>2, <1>5 DEF LastHeld, FramesHeld

\* A step of a walk keeps the regions.
LEMMA WalkedKeeps ==
    ASSUME IInv, RegionInv, Walked, OneCall'
    PROVE  RegionInv'
<1>1. worklist' = worklist
    BY DEF Walked
<1>2. Order'
    BY <1>1, WalkedViews DEF RegionInv, Order
<1>3. Regions'
    BY <1>1, WalkedViews, WalkedNested DEF Regions
<1>. QED
    BY <1>2, <1>3, WalkedOpen, WalkedApart, WalkedHeld DEF RegionInv

\* The walk goes on with the frames that are left.
LEMMA Returned ==
    ASSUME IInv, RegionInv, walk # <<>>, walk' = Tail(walk)
    PROVE  /\ OneCall'
           /\ \A w \in DOMAIN walk' : \E v \in DOMAIN walk :
                 /\ walk'[w].do = walk[v].do /\ walk'[w].jump = walk[v].jump
                 /\ walk'[w].at = walk[v].at /\ walk'[w].node = walk[v].node
                 /\ \/ walk'[w].block = walk[v].block
                    \/ /\ v = 1 /\ Call.do \in Walks /\ Call.block # Call.jump
                       /\ walk'[w].block \in Elements(succ[Call.block])
<1>1. /\ Len(walk) \in Nat /\ DOMAIN walk = 1..Len(walk)
      /\ DOMAIN walk' = 1..(Len(walk) - 1)
      /\ \A w \in DOMAIN walk' : w + 1 \in DOMAIN walk /\ walk'[w] = walk[w + 1]
    BY Frames
<1>2. OneCall
    BY DEF RegionInv
<1>3. OneCall'
    <2>1. \A v, w \in DOMAIN walk' : v < w /\ Walker(w)' => Walker(v)'
        <3>. SUFFICES ASSUME NEW v \in DOMAIN walk', NEW w \in DOMAIN walk',
                             v < w, Walker(w)'
                      PROVE  Walker(v)'
            OBVIOUS
        <3>1. v + 1 < w + 1 /\ v + 1 \in DOMAIN walk /\ w + 1 \in DOMAIN walk
            BY <1>1
        <3>2. Walker(w + 1)
            BY <1>1 DEF Walker
        <3>3. Walker(v + 1)
            BY <1>2, <3>1, <3>2 DEF OneCall
        <3>. QED
            BY <1>1, <3>3 DEF Walker
    <2>2. \A v, w \in DOMAIN walk' : Walker(v)' /\ Walker(w)' =>
             walk'[v].do = walk'[w].do /\ walk'[v].jump = walk'[w].jump
        BY <1>1, <1>2 DEF OneCall, Walker
    <2>3. \A v, w \in DOMAIN walk' : walk'[v].do = "return" =>
             walk'[v].jump = NoBlock /\ walk'[w].do = "return"
        BY <1>1, <1>2 DEF OneCall
    <2>. QED
        BY <2>1, <2>2, <2>3 DEF OneCall
<1>. QED
    BY <1>1, <1>3


-----------------------------------------------------------------------------
(* The blocks that are left, as a walk sees them. *)

\* What a step of a walk writes comes behind the block that it has come to:
\* a JUMP or a RETURN.  Every rewrite that was to come is still to come.
Behind ==
    /\ \A b \in Blocks : \A x \in DOMAIN code[b] :
          x \in DOMAIN code'[b] /\ code'[b][x].op = code[b][x].op
    /\ \A b \in Blocks : b # Call.block => DOMAIN code'[b] = DOMAIN code[b]
    /\ \A x \in DOMAIN code'[Call.block] \ DOMAIN code[Call.block] :
          /\ Call.do \in Walks /\ Call.block # Call.jump
          /\ code'[Call.block][x].op \in {"JUMP", "RETURN"}
          /\ \A y \in DOMAIN code'[Call.block] :
                y \in Int /\ y <= x /\ (y # x => y \in DOMAIN code[Call.block])
    /\ \A w \in DOMAIN walk : walk[w].do = "rewrite" =>
          \E v \in DOMAIN walk' : walk'[v] = walk[w]

\* Such a step keeps every block left once.
LEMMA BehindTidy ==
    ASSUME Behind, NEW b \in Blocks, Tidy(b)
    PROVE  Tidy(b)'
<1>1. \A x \in DOMAIN code[b] : x \in DOMAIN code'[b] /\ code'[b][x].op = code[b][x].op
    BY DEF Behind
<1>2. CASE DOMAIN code'[b] = DOMAIN code[b]
    BY <1>1, <1>2 DEF Tidy, Clean, Leaves, Cut
<1>3. CASE DOMAIN code'[b] # DOMAIN code[b]
    <2>1. b = Call.block
        BY <1>3 DEF Behind
    <2>2. PICK x \in DOMAIN code'[b] : x \notin DOMAIN code[b]
        BY <1>1, <1>3
    <2>3. /\ code'[b][x].op \in {"JUMP", "RETURN"}
          /\ \A y \in DOMAIN code'[b] :
                y \in Int /\ y <= x /\ (y # x => y \in DOMAIN code[b])
        BY <2>1, <2>2 DEF Behind
    <2>4. CASE Clean(b)
        <3>1. \A y \in DOMAIN code'[b] : y # x => code'[b][y].op \notin Leaving
            BY <1>1, <2>3, <2>4 DEF Clean, Leaves
        <3>2. \A y \in DOMAIN code'[b] : (y < x => y # x) /\ ~(y > x)
            BY <2>2, <2>3
        <3>3. Cut(b, x)'
            BY <2>2, <2>3, <3>1, <3>2 DEF Cut, Leaving
        <3>. QED
            BY <2>2, <3>3 DEF Tidy
    <2>5. CASE ~Clean(b)
        <3>1. PICK i \in DOMAIN code[b] : Cut(b, i)
            BY <2>5 DEF Tidy
        <3>2. i \in DOMAIN code'[b] /\ i \in Int /\ x \in Int /\ i <= x /\ i # x
            BY <1>1, <2>2, <2>3, <3>1
        <3>3. \A j \in DOMAIN code'[b] : j < i => code'[b][j].op \notin Leaving
            <4>. SUFFICES ASSUME NEW j \in DOMAIN code'[b], j < i
                          PROVE  code'[b][j].op \notin Leaving
                OBVIOUS
            <4>1. j # x
                BY <2>3, <3>2
            <4>. QED
                BY <1>1, <2>3, <3>1, <4>1 DEF Cut
        <3>4. \A j \in DOMAIN code'[b] : j > i => code'[b][j].op \in {"JUMP", "RETURN"}
            BY <1>1, <2>3, <3>1 DEF Cut
        <3>5. Cut(b, i)'
            BY <1>1, <3>1, <3>2, <3>3, <3>4 DEF Cut
        <3>. QED
            BY <3>2, <3>5 DEF Tidy
    <2>. QED
        BY <2>4, <2>5
<1>. QED
    BY <1>2, <1>3

\* What is left stays so: the items do not move, and no rewrite is lost.
LEMMA BehindLeft ==
    ASSUME IInv, Walked, Behind, NEW b, Left(b)
    PROVE  Left(b)'
<1>1. worklist' = worklist /\ ast' = ast
    BY DEF Walked
<1>2. CASE \E i \in DOMAIN worklist :
              (Testing(i) \/ State(i) = 2) /\ worklist[i].block = b
    <2>1. PICK i \in DOMAIN worklist :
             (Testing(i) \/ State(i) = 2) /\ worklist[i].block = b
        BY <1>2
    <2>2. i \in DOMAIN worklist' /\ worklist'[i].block = b
        BY <1>1, <2>1
    <2>3. Testing(i)' \/ State(i)' = 2
        BY <1>1, <2>1 DEF Testing, State, Kind
    <2>. QED
        BY <2>2, <2>3 DEF Left
<1>3. CASE \E w \in DOMAIN walk : walk[w].do = "rewrite" /\ walk[w].block = b
    BY <1>3 DEF Behind, Left
<1>. QED
    BY <1>2, <1>3 DEF Left

\* And it keeps every block left once.
LEMMA WalkedClean ==
    ASSUME IInv, RegionInv, CleanInv, Walked, Behind
    PROVE  CleanInv'
<1>1. /\ 1 \in DOMAIN walk /\ Call = walk[1] /\ Call.block \in Blocks
      /\ worklist' = worklist /\ Blocks' = Blocks /\ nodeBlock' = nodeBlock
      /\ ast' = ast
    BY Frames DEF Walked
<1>2. PICK S \in SUBSET Blocks : Apart(S)
    BY DEF RegionInv, WalkApart
<1>3. ASSUME NEW b \in Blocks, Clean(b), ~Clean(b)'
      PROVE  b = Call.block /\ b \in S
    <2>1. \A x \in DOMAIN code[b] : x \in DOMAIN code'[b] /\ code'[b][x].op = code[b][x].op
        BY DEF Behind
    <2>2. DOMAIN code'[b] # DOMAIN code[b]
        BY <1>3, <2>1 DEF Clean, Leaves
    <2>3. b = Call.block
        BY <2>2 DEF Behind
    <2>4. Call.do \in Walks /\ Call.block # Call.jump
        BY <2>1, <2>2, <2>3 DEF Behind
    <2>5. Call.block \in S \cup {Call.jump}
        BY <1>1, <1>2, <2>4 DEF Apart, Walker
    <2>. QED
        BY <2>3, <2>4, <2>5
<1>4. ASSUME NEW i \in DOMAIN worklist, NEW b \in Uses(i), Clean(b) \/ Left(b)
      PROVE  Clean(b)' \/ Left(b)'
    <2>1. b \in Blocks /\ b \notin S
        BY <1>2, UsesTyped DEF Apart
    <2>. QED
        BY <1>3, <1>4, <2>1, BehindLeft
<1>5. ASSUME NEW i \in DOMAIN worklist
      PROVE  CleanItem(i)'
    <2>1. /\ Node(i)' = Node(i) /\ State(i)' = State(i) /\ Kind(i)' = Kind(i)
          /\ worklist'[i] = worklist[i]
        BY <1>1 DEF Node, State, Kind
    <2>2. CleanItem(i)
        BY DEF CleanInv
    <2>3. worklist[i].block \in Uses(i) /\ (Testing(i) => nodeBlock[Node(i)] \in Uses(i))
        BY UsesTyped DEF Uses, Inner
    <2>4. Clean(worklist[i].block)' \/ Left(worklist[i].block)'
        <3>1. PICK b : b = worklist[i].block
            OBVIOUS
        <3>2. Clean(b)' \/ Left(b)'
            BY <1>4, <2>2, <2>3, <3>1 DEF CleanItem
        <3>. QED
            BY <2>1, <3>1, <3>2 DEF Clean, Left
    <2>5. ASSUME Testing(i)'
          PROVE  Clean(nodeBlock[Node(i)])' \/ Left(nodeBlock[Node(i)])'
        <3>1. Testing(i)
            BY <2>1, <2>5 DEF Testing
        <3>2. PICK b : b = nodeBlock[Node(i)]
            OBVIOUS
        <3>3. Clean(b)' \/ Left(b)'
            BY <1>4, <2>2, <2>3, <3>1, <3>2 DEF CleanItem
        <3>4. nodeBlock'[Node(i)'] = b
            BY <1>1, <2>1, <3>2
        <3>. QED
            BY <3>3, <3>4 DEF Clean, Left
    <2>6. \A b \in Spare(i)' : Clean(b)'
        <3>. SUFFICES ASSUME NEW b \in Spare(i)' PROVE Clean(b)'
            OBVIOUS
        <3>1. Opens(i)
            BY <2>1 DEF Spare, Opens, Holding
        <3>2. b \in Spare(i)
            BY <3>1, WalkedViews
        <3>3. Call.block \in Inside(i)
            BY <1>1, <3>1 DEF RegionInv, Regions, Nested
        <3>4. b # Call.block /\ Clean(b) /\ b \in Blocks
            BY <2>2, <3>1, <3>2, <3>3, UsesTyped DEF Inside, CleanItem
        <3>. QED
            BY <1>3, <3>4
    <2>. QED
        BY <2>4, <2>5, <2>6 DEF CleanItem
<1>6. ASSUME NEW w \in DOMAIN walk', walk'[w].do = "rewrite"
      PROVE  Clean(walk[w].jump)'
    <2>1. PICK v \in DOMAIN walk : walk'[w].do = walk[v].do /\ walk'[w].jump = walk[v].jump
        BY DEF Walked
    <2>2. PICK b : b = walk[v].jump
        OBVIOUS
    <2>3. Clean(b) /\ b \notin S
        BY <1>2, <1>6, <2>1, <2>2 DEF CleanInv, Apart
    <2>4. b \in Blocks
        <3>1. walk[v] \in ReadyFrames
            BY LenProperties, ElementOfSeq DEF IInv
        <3>. QED
            BY <1>6, <2>1, <2>2, <3>1 DEF ReadyFrames, FrameReady
    <2>5. Clean(b)'
        BY <1>3, <2>3, <2>4
    <2>. QED
        BY <2>1, <2>2, <2>5 DEF Clean
<1>7. \A b \in Blocks : Tidy(b)'
    BY BehindTidy DEF CleanInv
<1>. QED
    BY <1>1, <1>5, <1>6, <1>7 DEF CleanInv

\* Nothing written, and a frame gone that was no rewrite.
LEMMA BehindNothing ==
    ASSUME IInv, code' = code, Blocks' = Blocks, walk # <<>>,
           \A w \in DOMAIN walk : w # 1 => \E v \in DOMAIN walk' : walk'[v] = walk[w],
           Call.do # "rewrite"
    PROVE  Behind
<1>1. 1 \in DOMAIN walk /\ Call = walk[1]
    BY Frames
<1>2. \A w \in DOMAIN walk : walk[w].do = "rewrite" => w # 1
    BY <1>1
<1>. QED
    BY <1>2 DEF Behind

\* The frames that are left are those that come.
LEMMA TailFrames ==
    ASSUME IInv, walk # <<>>, walk' = Tail(walk)
    PROVE  \A w \in DOMAIN walk : w # 1 => \E v \in DOMAIN walk' : walk'[v] = walk[w]
<1>1. /\ Len(walk) \in Nat /\ DOMAIN walk = 1..Len(walk)
      /\ DOMAIN walk' = 1..(Len(walk) - 1)
      /\ \A w \in DOMAIN walk' : walk'[w] = walk[w + 1]
    BY Frames
<1>2. ASSUME NEW w \in DOMAIN walk, w # 1
      PROVE  \E v \in DOMAIN walk' : walk'[v] = walk[w]
    <2>1. PICK l : l = Len(walk)
        OBVIOUS
    <2>2. PICK v : v = w - 1
        OBVIOUS
    <2>3. v \in 1..(l - 1) /\ v + 1 = w
        BY <1>1, <1>2, <2>1, <2>2
    <2>. QED
        BY <1>1, <2>1, <2>3
<1>. QED
    BY <1>2
\* One instruction behind what the block held.
BehindAt(ins) ==
    /\ ins.op \in {"JUMP", "RETURN"}
    /\ DOMAIN code'[Call.block] = 1..(Len(code[Call.block]) + 1)
    /\ code'[Call.block][Len(code[Call.block]) + 1] = ins
    /\ \A b \in Blocks : \A x \in DOMAIN code[b] :
          x \in DOMAIN code'[b] /\ code'[b][x].op = code[b][x].op
    /\ \A b \in Blocks : b # Call.block => DOMAIN code'[b] = DOMAIN code[b]

\* Such an instruction comes behind.
LEMMA BehindOne ==
    ASSUME IInv, walk # <<>>, NEW ins, BehindAt(ins), Call.block \in Blocks,
           Call.do \in Walks, Call.block # Call.jump, Call.do # "rewrite",
           \A w \in DOMAIN walk : w # 1 => \E v \in DOMAIN walk' : walk'[v] = walk[w]
    PROVE  Behind
<1>1. 1 \in DOMAIN walk /\ Call = walk[1]
    BY Frames
<1>2. \A w \in DOMAIN walk : walk[w].do = "rewrite" => w # 1
    BY <1>1
<1>3. DOMAIN code[Call.block] = 1..Len(code[Call.block]) /\ Len(code[Call.block]) \in Nat
    BY BlockIsSeq DEF IInv
<1>4. PICK l : l = Len(code[Call.block])
    OBVIOUS
<1>5. /\ l \in Nat /\ DOMAIN code[Call.block] = 1..l
      /\ DOMAIN code'[Call.block] = 1..(l + 1)
      /\ code'[Call.block][l + 1].op \in {"JUMP", "RETURN"}
    BY <1>3, <1>4 DEF BehindAt
<1>6. \A x \in DOMAIN code'[Call.block] \ DOMAIN code[Call.block] :
         /\ x = l + 1
         /\ \A y \in DOMAIN code'[Call.block] :
               y \in Int /\ y <= x /\ (y # x => y \in DOMAIN code[Call.block])
    BY <1>5
<1>7. \A x \in DOMAIN code'[Call.block] \ DOMAIN code[Call.block] :
         /\ code'[Call.block][x].op \in {"JUMP", "RETURN"}
         /\ \A y \in DOMAIN code'[Call.block] :
               y \in Int /\ y <= x /\ (y # x => y \in DOMAIN code[Call.block])
    BY <1>5, <1>6
<1>. QED
    BY <1>2, <1>7 DEF Behind, BehindAt


-----------------------------------------------------------------------------
(* The steps of a walk, one by one. *)

\* The successors grow.  The frames that are left come again, the last one
\* last, and the others that come are the walk's own.
Follows ==
    /\ \A b \in Blocks : Elements(succ[b]) \subseteq Elements(succ'[b])
    /\ \A w \in DOMAIN walk : w # 1 => \E v \in DOMAIN walk' : walk'[v] = walk[w]
    /\ \A v \in DOMAIN walk' :
          \/ \E w \in DOMAIN walk :
                w # 1 /\ walk'[v] = walk[w] /\ (w = Len(walk) => v = Len(walk'))
          \/ Call.do \in Walks /\ walk'[v].do = Call.do /\ walk'[v].jump = Call.jump

\* When a frame is done the others follow.
LEMMA TailFollows ==
    ASSUME IInv, walk # <<>>, walk' = Tail(walk),
           \A b \in Blocks : Elements(succ[b]) \subseteq Elements(succ'[b])
    PROVE  Follows
<1>1. /\ Len(walk) \in Nat /\ DOMAIN walk = 1..Len(walk)
      /\ DOMAIN walk' = 1..(Len(walk) - 1) /\ Len(walk') = Len(walk) - 1
      /\ \A w \in DOMAIN walk' : w + 1 \in DOMAIN walk /\ walk'[w] = walk[w + 1]
    BY Frames
<1>2. ASSUME NEW v \in DOMAIN walk'
      PROVE  \E w \in DOMAIN walk :
                w # 1 /\ walk'[v] = walk[w] /\ (w = Len(walk) => v = Len(walk'))
    <2>1. PICK l : l = Len(walk)
        OBVIOUS
    <2>2. PICK w : w = v + 1
        OBVIOUS
    <2>3. v \in 1..(l - 1) /\ l \in Nat
        BY <1>1, <2>1
    <2>4. w # 1 /\ (w = l => v = l - 1)
        BY <2>2, <2>3
    <2>5. w \in DOMAIN walk /\ walk'[v] = walk[w]
        BY <1>1, <2>2
    <2>. QED
        BY <1>1, <2>1, <2>4, <2>5
<1>3. \A w \in DOMAIN walk : w # 1 => \E v \in DOMAIN walk' : walk'[v] = walk[w]
    BY TailFrames
<1>. QED
    BY <1>2, <1>3 DEF Follows

\* A step of a walk keeps the regions, and no item goes on behind a leaving.
WalkStep == RegionInv' /\ (CleanInv => CleanInv') /\ Walked /\ Behind /\ Follows

\* A walk that goes on goes on in every successor.
Descends ==
    \A i \in DOMAIN succ[Call.block] : \E v \in DOMAIN walk' :
        /\ walk'[v].do = Call.do /\ walk'[v].jump = Call.jump
        /\ walk'[v].block = succ[Call.block][i]

\* The block jumped to is not walked into.
LEMMA WalkSkipKeeps == IInv /\ RegionInv /\ WalkSkip => WalkStep
<1>. SUFFICES ASSUME IInv, RegionInv, WalkSkip PROVE WalkStep
    OBVIOUS
<1>1. /\ walk # <<>> /\ walk' = Tail(walk)
      /\ UNCHANGED <<ast, worklist, code, succ, closed, held, nodeBlock, top>>
    BY DEF WalkSkip, Walking
<1>2. Blocks' = Blocks /\ Stays
    BY <1>1, NothingWritten
<1>3. Walked
    BY <1>1, <1>2, Returned DEF Walked
<1>4. Behind
    <2>1. Call.do # "rewrite"
        BY DEF WalkSkip, Walking
    <2>. QED
        BY <1>1, <1>2, <2>1, TailFrames, BehindNothing
<1>5. Follows
    BY <1>1, TailFollows
<1>. QED
    BY <1>1, <1>3, <1>4, <1>5, Returned, WalkedKeeps, WalkedClean DEF WalkStep

\* A block that gets one more successor.
LEMMA SuccAdded ==
    ASSUME IInv, NEW b \in Blocks, NEW j \in Blocks,
           succ' = [succ EXCEPT ![b] = Append(@, j)]
    PROVE  /\ \A c \in Blocks : c # b => succ'[c] = succ[c]
           /\ Elements(succ'[b]) \subseteq Elements(succ[b]) \cup {j}
           /\ Elements(succ[b]) \cup {j} \subseteq Elements(succ'[b])
<1>. DEFINE old == succ[b]
<1>1. succ \in [Blocks -> Seq(Blocks)] /\ old \in Seq(Blocks)
    BY FlowParts
<1>2. /\ \A c \in Blocks : c # b => succ'[c] = succ[c]
      /\ succ'[b] = Append(old, j)
    BY <1>1
<1>. HIDE DEF old
<1>3. /\ Append(old, j) \in Seq(Blocks)
      /\ Len(Append(old, j)) = Len(old) + 1
      /\ \A i \in 1..(Len(old) + 1) :
            Append(old, j)[i] = IF i = Len(old) + 1 THEN j ELSE old[i]
      /\ Len(old) \in Nat /\ DOMAIN old = 1..Len(old)
    BY <1>1, AppendProperties, LenProperties
<1>4. DOMAIN Append(old, j) = 1..(Len(old) + 1)
    BY <1>3, LenProperties
<1>5. ASSUME NEW i \in 1..(Len(old) + 1), i # Len(old) + 1
      PROVE  i \in DOMAIN old
    BY <1>3, <1>5
<1>6. \A i \in DOMAIN Append(old, j) : Append(old, j)[i] \in Elements(old) \cup {j}
    BY <1>3, <1>4, <1>5 DEF Elements
<1>7. Elements(Append(old, j)) \subseteq Elements(old) \cup {j}
    BY <1>6 DEF Elements
<1>8. \A i \in DOMAIN old : i \in DOMAIN Append(old, j) /\ Append(old, j)[i] = old[i]
    <2>1. \A l \in Nat : \A i \in 1..l : i \in 1..(l + 1) /\ i # l + 1
        OBVIOUS
    <2>. QED
        BY <1>3, <1>4, <2>1
<1>9. /\ Len(old) + 1 \in DOMAIN Append(old, j)
      /\ Append(old, j)[Len(old) + 1] = j
    BY <1>3, <1>4
<1>10. Elements(old) \cup {j} \subseteq Elements(Append(old, j))
    BY <1>8, <1>9 DEF Elements
<1>. QED
    BY <1>2, <1>7, <1>10 DEF old

\* A successor is added after the walks.
LEMMA WalkLinkKeeps == IInv /\ RegionInv /\ WalkLink => WalkStep
<1>. SUFFICES ASSUME IInv, RegionInv, WalkLink PROVE WalkStep
    OBVIOUS
<1>1. /\ walk # <<>> /\ walk' = Tail(walk) /\ Call.do = "link"
      /\ UNCHANGED <<ast, worklist, code, closed, held, nodeBlock, top>>
      /\ succ' = [succ EXCEPT ![Call.block] = Append(@, Call.jump)]
    BY DEF WalkLink, Walking
<1>2. Blocks' = Blocks /\ Stays
    BY <1>1, NothingWritten
<1>3. Call.block \in Blocks /\ Call.jump \in Blocks
    BY <1>1, CallReady DEF FrameReady
<1>4. /\ \A c \in Blocks : c # Call.block => succ'[c] = succ[c]
      /\ Elements(succ'[Call.block]) \subseteq Elements(succ[Call.block]) \cup {Call.jump}
      /\ Elements(succ[Call.block]) \cup {Call.jump} \subseteq Elements(succ'[Call.block])
    BY <1>1, <1>3, SuccAdded
<1>5. Walked
    BY <1>1, <1>2, <1>4, Returned DEF Walked
<1>6. Behind
    BY <1>1, <1>2, TailFrames, BehindNothing
<1>7. Follows
    BY <1>1, <1>4, TailFollows
<1>. QED
    BY <1>1, <1>5, <1>6, <1>7, Returned, WalkedKeeps, WalkedClean DEF WalkStep

\* Intervals that are equal have the same length.
LEMMA SameLength ==
    ASSUME NEW l \in Nat, NEW m \in Nat, 1..l = 1..m
    PROVE  l = m
<1>1. \A i \in Nat : i >= 1 /\ i <= l <=> i >= 1 /\ i <= m
    <2>1. \A i \in Nat : i \in 1..l <=> i \in 1..m
        OBVIOUS
    <2>. QED
        BY <2>1
<1>2. /\ l >= 1 /\ l <= l <=> l >= 1 /\ l <= m
      /\ m >= 1 /\ m <= l <=> m >= 1 /\ m <= m
    BY <1>1
<1>. QED
    BY <1>2

\* What an emission over other operands of a PHI leaves of the code.
LEMMA EmitOver ==
    ASSUME CodeInv, NEW c, Alike(c), NEW b \in Blocks,
           \A x \in Blocks : \A i \in DOMAIN code[x] :
              code[x][i].op # "PHI" => c[x][i] = code[x][i],
           NEW ins \in ReadyInstructions(Blocks), Emit(c, b, ins)
    PROVE  /\ Blocks' = Blocks /\ Stays
           /\ \A x \in Blocks : x # b => code'[x] = c[x] /\ Len(code'[x]) = Len(code[x])
           /\ Len(code'[b]) = Len(code[b]) + 1
           /\ DOMAIN code'[b] = 1..(Len(code[b]) + 1)
           /\ code'[b][Len(code[b]) + 1] = ins
           /\ \A i \in DOMAIN code[b] : code'[b][i] = c[b][i]
<1>1. /\ c \in [Blocks -> Seq(ReadyInstructions(Blocks))]
      /\ \A x \in Blocks : DOMAIN c[x] = DOMAIN code[x]
    BY DEF Alike
<1>2. code' = [c EXCEPT ![b] = Append(@, ins)]
    BY DEF Emit
<1>3. /\ Blocks' = Blocks
      /\ \A x \in Blocks : x # b => code'[x] = c[x]
      /\ code'[b] = Append(c[b], ins)
    BY <1>1, <1>2 DEF Blocks
<1>4. ASSUME NEW x \in Blocks
      PROVE  /\ Len(c[x]) = Len(code[x]) /\ Len(code[x]) \in Nat
             /\ DOMAIN code[x] = 1..Len(code[x])
    <2>1. /\ c[x] \in Seq(ReadyInstructions(Blocks))
          /\ code[x] \in Seq(ReadyInstructions(Blocks))
          /\ DOMAIN c[x] = DOMAIN code[x]
        BY <1>1, BlockIsSeq
    <2>2. /\ Len(c[x]) \in Nat /\ DOMAIN c[x] = 1..Len(c[x])
          /\ Len(code[x]) \in Nat /\ DOMAIN code[x] = 1..Len(code[x])
        BY <2>1, LenProperties
    <2>3. Len(c[x]) = Len(code[x])
        <3>1. 1..Len(c[x]) = 1..Len(code[x])
            BY <2>1, <2>2
        <3>. QED
            BY <2>2, <3>1, SameLength
    <2>. QED
        BY <2>2, <2>3
<1>. DEFINE old == c[b]
<1>5. old \in Seq(ReadyInstructions(Blocks))
    BY <1>1
<1>6. Len(old) = Len(code[b]) /\ Len(code[b]) \in Nat
    BY <1>4
<1>. HIDE DEF old
<1>7. /\ Append(old, ins) \in Seq(ReadyInstructions(Blocks))
      /\ Len(Append(old, ins)) = Len(old) + 1
      /\ \A i \in 1..(Len(old) + 1) :
            Append(old, ins)[i] = IF i = Len(old) + 1 THEN ins ELSE old[i]
    BY <1>5, AppendProperties
<1>8. DOMAIN Append(old, ins) = 1..(Len(old) + 1)
    BY <1>7, LenProperties
<1>9. code'[b] = Append(old, ins)
    BY <1>3 DEF old
<1>10. /\ Len(code'[b]) = Len(code[b]) + 1
       /\ DOMAIN code'[b] = 1..(Len(code[b]) + 1)
    BY <1>6, <1>7, <1>8, <1>9
<1>11. code'[b][Len(code[b]) + 1] = ins
    <2>1. PICK l : l = Len(code[b]) + 1
        OBVIOUS
    <2>2. l \in 1..(Len(old) + 1) /\ l = Len(old) + 1
        BY <1>6, <2>1
    <2>3. Append(old, ins)[l] = ins
        BY <1>7, <2>2
    <2>. QED
        BY <1>9, <2>1, <2>3
<1>12. \A i \in DOMAIN code[b] : code'[b][i] = c[b][i] /\ i \in DOMAIN code'[b]
    <2>. TAKE i \in DOMAIN code[b]
    <2>1. i \in 1..(Len(old) + 1) /\ i # Len(old) + 1
        BY <1>4, <1>6
    <2>2. Append(old, ins)[i] = old[i]
        BY <1>7, <2>1
    <2>. QED
        BY <1>6, <1>9, <1>10, <2>1, <2>2 DEF old
<1>13. Stays
    <2>. SUFFICES ASSUME NEW x \in Blocks, NEW i \in DOMAIN code[x]
                  PROVE  /\ i \in DOMAIN code'[x]
                         /\ code[x][i].op # "PHI" => code'[x][i] = code[x][i]
        BY <1>3 DEF Stays
    <2>1. code[x][i].op # "PHI" => c[x][i] = code[x][i]
        OBVIOUS
    <2>2. CASE x # b
        BY <1>1, <1>3, <2>1, <2>2
    <2>3. CASE x = b
        BY <1>12, <2>1, <2>3
    <2>. QED
        BY <2>2, <2>3
<1>14. \A x \in Blocks : x # b => Len(code'[x]) = Len(code[x])
    BY <1>3, <1>4
<1>. QED
    BY <1>3, <1>10, <1>11, <1>12, <1>13, <1>14

\* What a leaf of the walk emits, and over which code.
Filled ==
    IF Call.do = "jump" THEN code
    ELSE [code EXCEPT ![Call.jump][Call.at].args = Append(@, Call.value),
                      ![Call.jump][Call.at].blks = Append(@, Call.block)]
\* The JUMP that a leaf gets.
JumpBack == Instr("JUMP", nextValue, <<>>, <<Call.jump>>)

\* It goes behind the leaf, and a PHI may get operands, but no block else is
\* touched.
LEMMA JumpWrites ==
    ASSUME IInv, WalkJump
    PROVE  /\ Alike(Filled) /\ Call.block \in Blocks /\ Call.jump \in Blocks
           /\ \A x \in Blocks : \A i \in DOMAIN code[x] :
                 code[x][i].op # "PHI" => Filled[x][i] = code[x][i]
           /\ \A x \in Blocks : x # Call.jump => Filled[x] = code[x]
           /\ JumpBack \in ReadyInstructions(Blocks)
           /\ Emit(Filled, Call.block, JumpBack)
<1>. DEFINE b == Call.block
            to == Call.jump
<1>1. walk # <<>> /\ Call.do \in {"phi", "jump"}
    BY DEF WalkJump, Walking
<1>2. b \in Blocks /\ to \in Blocks /\ Call.value \in Int
    BY <1>1, CallReady DEF FrameReady
<1>4. Call.do # "jump" => Call.at \in DOMAIN code[to] /\ code[to][Call.at].op = "PHI"
    BY <1>1, CallReady DEF FrameReady
<1>5. Alike(Filled)
    <2>1. CASE Call.do = "jump"
        <3>1. Filled = code
            BY <2>1 DEF Filled
        <3>. QED
            BY <3>1 DEF IInv, CodeInv, Alike
    <2>2. CASE Call.do # "jump"
        <3>1. Alike([code EXCEPT ![to][Call.at].args = Append(@, Call.value),
                                 ![to][Call.at].blks = Append(@, b)])
            BY <1>2, <1>4, <2>2, PhiFilled DEF IInv
        <3>. QED
            BY <2>2, <3>1 DEF Filled
    <2>. QED
        BY <2>1, <2>2
<1>6. /\ \A x \in Blocks : x # to => Filled[x] = code[x]
      /\ \A i \in DOMAIN code[to] :
            code[to][i].op # "PHI" => Filled[to][i] = code[to][i]
    <2>1. CASE Call.do = "jump"
        BY <2>1 DEF Filled
    <2>2. CASE Call.do # "jump"
        <3>. DEFINE old == code[to]
                    phi == [old[Call.at] EXCEPT !.args = Append(@, Call.value),
                                                !.blks = Append(@, b)]
        <3>1. Filled = [code EXCEPT ![to] = [old EXCEPT ![Call.at] = phi]]
            BY <1>2, <1>4, <2>2 DEF Filled, IInv, CodeInv
        <3>. HIDE DEF phi
        <3>2. /\ \A x \in Blocks : x # to => Filled[x] = code[x]
              /\ Filled[to] = [old EXCEPT ![Call.at] = phi]
            BY <1>2, <3>1 DEF IInv, CodeInv
        <3>3. \A i \in DOMAIN old : i # Call.at => Filled[to][i] = old[i]
            BY <3>2
        <3>4. \A i \in DOMAIN code[to] :
                 code[to][i].op # "PHI" => Filled[to][i] = code[to][i]
            BY <1>4, <2>2, <3>3
        <3>. QED
            BY <3>2, <3>4
    <2>. QED
        BY <2>1, <2>2
<1>7. JumpBack \in ReadyInstructions(Blocks)
    <2>. DEFINE args == <<>>
                blks == <<to>>
    <2>1. args \in Seq(Int) /\ blks \in Seq(Blocks) /\ nextValue \in Nat
        BY <1>2, EmptySeq DEF IInv, CodeInv
    <2>2. "JUMP" \in Ops \ {"BRANCH", "BLOCK"}
        BY DEF Ops, Leaving
    <2>. HIDE DEF args, blks
    <2>3. Instr("JUMP", nextValue, args, blks) \in ReadyInstructions(Blocks)
        BY <2>1, <2>2, InstrReady
    <2>. QED
        BY <2>3 DEF args, blks, JumpBack
<1>8. Emit(Filled, b, JumpBack)
    BY DEF WalkJump, Filled, JumpBack
<1>9. \A x \in Blocks : \A i \in DOMAIN code[x] :
         code[x][i].op # "PHI" => Filled[x][i] = code[x][i]
    <2>. SUFFICES ASSUME NEW x \in Blocks, NEW i \in DOMAIN code[x], code[x][i].op # "PHI"
                  PROVE  Filled[x][i] = code[x][i]
        OBVIOUS
    <2>1. CASE x = to
        BY <1>6, <2>1
    <2>2. CASE x # to
        BY <1>6, <2>2
    <2>. QED
        BY <2>1, <2>2
<1>. QED
    BY <1>2, <1>5, <1>6, <1>7, <1>8, <1>9

\* A leaf jumps.
LEMMA WalkJumpKeeps == IInv /\ RegionInv /\ WalkJump => WalkStep
<1>. SUFFICES ASSUME IInv, RegionInv, WalkJump PROVE WalkStep
    OBVIOUS
<1>1. /\ walk # <<>> /\ walk' = Tail(walk) /\ Call.do \in {"phi", "jump"}
      /\ Call.block # Call.jump
      /\ UNCHANGED <<ast, worklist, closed, held, nodeBlock, top>>
      /\ succ' = [succ EXCEPT ![Call.block] = Append(@, Call.jump)]
    BY DEF WalkJump, Walking
<1>2. /\ Alike(Filled) /\ Call.block \in Blocks /\ Call.jump \in Blocks
      /\ \A x \in Blocks : \A i \in DOMAIN code[x] :
            code[x][i].op # "PHI" => Filled[x][i] = code[x][i]
      /\ JumpBack \in ReadyInstructions(Blocks)
      /\ Emit(Filled, Call.block, JumpBack)
    BY JumpWrites
<1>3. /\ Blocks' = Blocks /\ Stays
      /\ \A x \in Blocks : x # Call.block => Len(code'[x]) = Len(code[x])
    BY <1>2, EmitOver DEF IInv
<1>4. /\ \A c \in Blocks : c # Call.block => succ'[c] = succ[c]
      /\ Elements(succ'[Call.block]) \subseteq Elements(succ[Call.block]) \cup {Call.jump}
      /\ Elements(succ[Call.block]) \cup {Call.jump} \subseteq Elements(succ'[Call.block])
    BY <1>1, <1>2, SuccAdded
<1>5. Walked
    <2>1. Call.do # "return" /\ Call.do \in Walks
        BY <1>1 DEF Walks
    <2>. QED
        BY <1>1, <1>3, <1>4, <2>1, Returned DEF Walked
<1>6. Behind
    <2>1. /\ \A x \in Blocks : x # Call.block => code'[x] = Filled[x]
          /\ DOMAIN code'[Call.block] = 1..(Len(code[Call.block]) + 1)
          /\ code'[Call.block][Len(code[Call.block]) + 1] = JumpBack
          /\ \A i \in DOMAIN code[Call.block] :
                code'[Call.block][i] = Filled[Call.block][i]
        BY <1>2, EmitOver DEF IInv
    <2>2. \A x \in Blocks : /\ DOMAIN Filled[x] = DOMAIN code[x]
                            /\ \A i \in DOMAIN code[x] : Filled[x][i].op = code[x][i].op
        BY <1>2 DEF Alike
    <2>3. JumpBack.op \in {"JUMP", "RETURN"}
        BY DEF JumpBack, Instr
    <2>4. BehindAt(JumpBack)
        <3>1. \A b \in Blocks : \A x \in DOMAIN code[b] :
                 x \in DOMAIN code'[b] /\ code'[b][x].op = code[b][x].op
            BY <1>3, <2>1, <2>2 DEF Stays
        <3>. QED
            BY <2>1, <2>2, <2>3, <3>1 DEF BehindAt
    <2>5. Call.do \in Walks /\ Call.do # "rewrite"
        BY <1>1 DEF Walks
    <2>. QED
        BY <1>1, <1>2, <2>4, <2>5, TailFrames, BehindOne
<1>7. Follows
    BY <1>1, <1>4, TailFollows
<1>. QED
    BY <1>1, <1>5, <1>6, <1>7, Returned, WalkedKeeps, WalkedClean DEF WalkStep

\* A leaf of the body of a BLOCK gets a RETURN.
LEMMA ReturnWrites ==
    ASSUME IInv, WalkReturn
    PROVE  /\ Call.block \in Blocks /\ Blocks' = Blocks /\ New = {}
           /\ Wrote(Call.block, <<Instr("RETURN", nextValue, <<Call.value>>, <<>>)>>)
<1>1. walk # <<>> /\ Emit(code, Call.block, Instr("RETURN", nextValue, <<Call.value>>, <<>>))
    BY DEF WalkReturn, Walking
<1>2. Call.block \in Blocks
    BY <1>1, CallReady
<1>. QED
    BY <1>1, <1>2, EmitWritesHere DEF IInv

\* It is closed.
LEMMA WalkReturnKeeps == IInv /\ RegionInv /\ WalkReturn => WalkStep
<1>. SUFFICES ASSUME IInv, RegionInv, WalkReturn PROVE WalkStep
    OBVIOUS
<1>1. /\ walk # <<>> /\ walk' = Tail(walk) /\ Call.do = "return"
      /\ UNCHANGED <<ast, worklist, succ, held, nodeBlock, top>>
      /\ closed' = closed \cup {Call.block}
    BY DEF WalkReturn, Walking
<1>2. /\ Call.block \in Blocks /\ Blocks' = Blocks /\ Stays
      /\ \A c \in Blocks : c # Call.block => code'[c] = code[c]
    BY ReturnWrites DEF Wrote
<1>3. Call.block # Call.jump
    <2>1. Call.jump = NoBlock
        BY <1>1, Frames DEF RegionInv, OneCall
    <2>. QED
        BY <1>2, <2>1, NoBlockIsNone DEF IInv
<1>4. Walked
    <2>1. Call.do \in Walks
        BY <1>1 DEF Walks
    <2>. QED
        BY <1>1, <1>2, <1>3, <2>1, Returned DEF Walked
<1>5. Behind
    <2>. DEFINE ins == Instr("RETURN", nextValue, <<Call.value>>, <<>>)
    <2>1. ins.op = "RETURN"
        BY DEF Instr
    <2>. HIDE DEF ins
    <2>2. Wrote(Call.block, <<ins>>)
        BY ReturnWrites DEF ins
    <2>3. /\ Len(<<ins>>) = 1 /\ <<ins>>[1] = ins /\ 1 \in 1..1
          /\ OldLen(Call.block) = Len(code[Call.block])
          /\ DOMAIN code[Call.block] = 1..Len(code[Call.block])
        BY <1>2, BlockIsSeq DEF OldLen, IInv
    <2>4. /\ DOMAIN code'[Call.block] = 1..(Len(code[Call.block]) + 1)
          /\ \A x \in 1..Len(code[Call.block]) :
                code'[Call.block][x] = code[Call.block][x]
          /\ code'[Call.block][Len(code[Call.block]) + 1] = ins
        <3>1. /\ DOMAIN code'[Call.block] = 1..(Len(code[Call.block]) + Len(<<ins>>))
              /\ \A x \in 1..Len(code[Call.block]) :
                    code'[Call.block][x] = code[Call.block][x]
              /\ \A x \in 1..Len(<<ins>>) :
                    code'[Call.block][Len(code[Call.block]) + x] = <<ins>>[x]
            BY <2>2, <2>3 DEF Wrote
        <3>. QED
            BY <2>3, <3>1
    <2>5. BehindAt(ins)
        <3>1. \A b \in Blocks : \A x \in DOMAIN code[b] :
                 x \in DOMAIN code'[b] /\ code'[b][x].op = code[b][x].op
            <4>. SUFFICES ASSUME NEW b \in Blocks, NEW x \in DOMAIN code[b]
                          PROVE  x \in DOMAIN code'[b] /\ code'[b][x].op = code[b][x].op
                OBVIOUS
            <4>1. x \in DOMAIN code'[b]
                BY <1>2 DEF Stays
            <4>. QED
                BY <1>2, <2>3, <2>4, <4>1
        <3>. QED
            BY <1>2, <2>1, <2>4, <3>1 DEF BehindAt
    <2>6. Call.do \in Walks /\ Call.do # "rewrite"
        BY <1>1 DEF Walks
    <2>. QED
        BY <1>1, <1>2, <1>3, <2>5, <2>6, TailFrames, BehindOne
<1>6. Follows
    BY <1>1, TailFollows
<1>. QED
    BY <1>1, <1>4, <1>5, <1>6, Returned, WalkedKeeps, WalkedClean DEF WalkStep

\* The walk goes on in the successors.
LEMMA WalkDescendKeeps == IInv /\ RegionInv /\ WalkDescend => WalkStep /\ Descends
<1>. SUFFICES ASSUME IInv, RegionInv, WalkDescend PROVE WalkStep /\ Descends
    OBVIOUS
<1>. DEFINE next == succ[Call.block]
            frames == [i \in DOMAIN next |-> [Call EXCEPT !.block = next[i]]]
            rest == Tail(walk)
            fs == [do : Walks \cup {"link", "rewrite"}, node : Nodes, block : Blocks,
                   jump : Blocks \cup {NoBlock}, at : Nat, value : Int]
<1>1. /\ walk # <<>> /\ Call.do \in Walks /\ Call.block # Call.jump
      /\ walk' = frames \o rest
      /\ UNCHANGED <<ast, worklist, code, succ, closed, held, nodeBlock, top>>
    BY DEF WalkDescend, Walking
<1>2. Call.block \in Blocks /\ Call \in fs /\ rest \in Seq(ReadyFrames)
    BY <1>1, CallReady
<1>3. next \in Seq(Blocks) /\ Len(next) \in Nat /\ DOMAIN next = 1..Len(next)
    BY <1>2, FlowParts, LenProperties
<1>4. /\ Len(walk) \in Nat /\ DOMAIN walk = 1..Len(walk) /\ 1 \in DOMAIN walk
      /\ Call = walk[1] /\ Len(rest) = Len(walk) - 1
      /\ \A w \in 1..(Len(walk) - 1) : w + 1 \in DOMAIN walk /\ rest[w] = walk[w + 1]
    BY <1>1, Frames
<1>5. \A i \in DOMAIN next : /\ next[i] \in Blocks
                             /\ frames[i].do = Call.do /\ frames[i].jump = Call.jump
                             /\ frames[i].at = Call.at /\ frames[i].block = next[i]
                             /\ frames[i].node = Call.node
                             /\ frames[i] \in fs
    <2>1. \A i \in DOMAIN next : next[i] \in Blocks
        BY <1>3, ElementOfSeq
    <2>. HIDE DEF next
    <2>. QED
        BY <1>2, <2>1
<1>6. frames \in Seq(fs) /\ Len(frames) = Len(next)
    <2>1. frames \in [1..Len(next) -> fs]
        BY <1>3, <1>5
    <2>2. frames \in Seq(fs)
        BY <1>3, <2>1, SeqDef
    <2>3. DOMAIN frames = 1..Len(frames) /\ Len(frames) \in Nat /\ DOMAIN frames = 1..Len(next)
        BY <1>3, <2>2, LenProperties
    <2>4. 1..Len(frames) = 1..Len(next)
        BY <2>3
    <2>. QED
        BY <1>3, <2>2, <2>3, <2>4, SameLength
<1>7. rest \in Seq(fs)
    <2>1. ReadyFrames \subseteq fs
        BY DEF ReadyFrames
    <2>. QED
        BY <1>2, <2>1, SeqMonotonic
<1>. HIDE DEF frames, rest, fs, next
<1>8. /\ walk' \in Seq(fs) /\ Len(walk') = Len(next) + (Len(walk) - 1)
      /\ DOMAIN walk' = 1..(Len(next) + (Len(walk) - 1))
      /\ \A w \in 1..(Len(next) + (Len(walk) - 1)) : walk'[w] =
            IF w <= Len(next) THEN frames[w] ELSE rest[w - Len(next)]
    <2>1. /\ frames \o rest \in Seq(fs)
          /\ Len(frames \o rest) = Len(frames) + Len(rest)
          /\ \A w \in 1..(Len(frames) + Len(rest)) : (frames \o rest)[w] =
                IF w <= Len(frames) THEN frames[w] ELSE rest[w - Len(frames)]
        BY <1>6, <1>7, ConcatProperties
    <2>2. DOMAIN (frames \o rest) = 1..(Len(frames) + Len(rest))
        BY <2>1, LenProperties
    <2>. QED
        BY <1>1, <1>4, <1>6, <2>1, <2>2
<1>9. ASSUME NEW w \in DOMAIN walk'
      PROVE  \/ /\ w \in DOMAIN next /\ w <= Len(next)
                /\ walk'[w].do = Call.do /\ walk'[w].jump = Call.jump
                /\ walk'[w].at = Call.at /\ walk'[w].block = next[w]
                /\ walk'[w].node = Call.node
             \/ /\ w > Len(next) /\ w - Len(next) + 1 \in DOMAIN walk
                /\ walk'[w] = walk[w - Len(next) + 1]
    <2>1. CASE w <= Len(next)
        <3>1. w \in DOMAIN next /\ walk'[w] = frames[w]
            BY <1>3, <1>8, <2>1
        <3>. QED
            BY <1>5, <2>1, <3>1
    <2>2. CASE ~(w <= Len(next))
        <3>1. w > Len(next) /\ w - Len(next) \in 1..(Len(walk) - 1)
            BY <1>3, <1>4, <1>8, <2>2
        <3>2. walk'[w] = rest[w - Len(next)]
            BY <1>8, <2>2
        <3>. QED
            BY <1>4, <3>1, <3>2
    <2>. QED
        BY <2>1, <2>2
<1>10. Walked
    <2>1. Blocks' = Blocks /\ Stays
        BY <1>1, NothingWritten
    <2>2. ASSUME NEW w \in DOMAIN walk'
          PROVE  \E v \in DOMAIN walk :
                    /\ walk'[w].do = walk[v].do /\ walk'[w].jump = walk[v].jump
                    /\ walk'[w].at = walk[v].at /\ walk'[w].node = walk[v].node
                    /\ \/ walk'[w].block = walk[v].block
                       \/ /\ v = 1 /\ Call.do \in Walks /\ Call.block # Call.jump
                          /\ walk'[w].block \in Elements(succ[Call.block])
        <3>1. CASE /\ w \in DOMAIN next
                   /\ walk'[w].do = Call.do /\ walk'[w].jump = Call.jump
                   /\ walk'[w].at = Call.at /\ walk'[w].block = next[w]
                   /\ walk'[w].node = Call.node
            <4>1. walk'[w].block \in Elements(succ[Call.block])
                BY <3>1 DEF Elements, next
            <4>. QED
                BY <1>1, <1>4, <3>1, <4>1
        <3>2. CASE /\ w - Len(next) + 1 \in DOMAIN walk
                   /\ walk'[w] = walk[w - Len(next) + 1]
            BY <3>2
        <3>. QED
            BY <1>9, <3>1, <3>2
    <2>. QED
        BY <1>1, <2>1, <2>2 DEF Walked
<1>11. OneCall'
    <2>1. Walker(1)
        BY <1>1, <1>4 DEF Walker
    <2>2. \A v, w \in DOMAIN walk' : v < w /\ Walker(w)' => Walker(v)'
        <3>. SUFFICES ASSUME NEW v \in DOMAIN walk', NEW w \in DOMAIN walk',
                             v < w, Walker(w)'
                      PROVE  Walker(v)'
            OBVIOUS
        <3>1. CASE walk'[v].do = Call.do
            BY <1>1, <3>1 DEF Walker
        <3>2. CASE /\ v > Len(next) /\ v - Len(next) + 1 \in DOMAIN walk
                   /\ walk'[v] = walk[v - Len(next) + 1]
            <4>1. w > Len(next) /\ ~(w <= Len(next))
                BY <1>3, <1>8, <3>2
            <4>2. /\ w - Len(next) + 1 \in DOMAIN walk
                  /\ walk'[w] = walk[w - Len(next) + 1]
                BY <1>9, <4>1
            <4>3. v - Len(next) + 1 < w - Len(next) + 1
                BY <1>3, <1>8
            <4>4. Walker(w - Len(next) + 1)
                BY <4>2 DEF Walker
            <4>5. Walker(v - Len(next) + 1)
                BY <3>2, <4>2, <4>3, <4>4 DEF RegionInv, OneCall
            <4>. QED
                BY <3>2, <4>5 DEF Walker
        <3>. QED
            BY <1>9, <3>1, <3>2
    <2>3. \A w \in DOMAIN walk' : \E v \in DOMAIN walk :
             walk'[w].do = walk[v].do /\ walk'[w].jump = walk[v].jump
        BY <1>10 DEF Walked
    <2>4. \A v, w \in DOMAIN walk' : Walker(v)' /\ Walker(w)' =>
             walk'[v].do = walk'[w].do /\ walk'[v].jump = walk'[w].jump
        BY <2>3 DEF RegionInv, OneCall, Walker
    <2>5. \A v, w \in DOMAIN walk' : walk'[v].do = "return" =>
             walk'[v].jump = NoBlock /\ walk'[w].do = "return"
        BY <2>3 DEF RegionInv, OneCall
    <2>. QED
        BY <2>2, <2>4, <2>5 DEF OneCall
<1>12. ASSUME NEW w \in DOMAIN walk, w # 1
       PROVE  \E v \in DOMAIN walk' : walk'[v] = walk[w]
    <2>1. PICK l : l = Len(walk)
        OBVIOUS
    <2>2. PICK m : m = Len(next)
        OBVIOUS
    <2>3. PICK v : v = m + w - 1
        OBVIOUS
    <2>4. /\ v \in 1..(m + (l - 1)) /\ ~(v <= m)
          /\ v - m \in 1..(l - 1) /\ v - m + 1 = w
        <3>1. m \in Nat /\ l \in Nat /\ w \in 2..l
            BY <1>3, <1>4, <1>12, <2>1, <2>2
        <3>. QED
            BY <2>3, <3>1
    <2>5. v \in DOMAIN walk' /\ walk'[v] = rest[v - m]
        BY <1>8, <2>1, <2>2, <2>4
    <2>6. rest[v - m] = walk[v - m + 1]
        BY <1>4, <2>1, <2>4
    <2>. QED
        BY <2>4, <2>5, <2>6
<1>13. Behind
    <2>1. Call.do # "rewrite"
        BY <1>1 DEF Walks
    <2>2. Blocks' = Blocks
        BY <1>1, NothingWritten
    <2>. QED
        BY <1>1, <1>12, <2>1, <2>2, BehindNothing
<1>14. Follows
    <2>1. ASSUME NEW w \in DOMAIN walk'
          PROVE  \/ \E v \in DOMAIN walk : /\ v # 1 /\ walk'[w] = walk[v]
                                           /\ v = Len(walk) => w = Len(walk')
                 \/ Call.do \in Walks /\ walk'[w].do = Call.do /\ walk'[w].jump = Call.jump
        <3>1. CASE walk'[w].do = Call.do /\ walk'[w].jump = Call.jump
            BY <1>1, <3>1
        <3>2. CASE /\ w > Len(next) /\ w - Len(next) + 1 \in DOMAIN walk
                   /\ walk'[w] = walk[w - Len(next) + 1]
            <4>1. PICK l : l = Len(walk)
                OBVIOUS
            <4>2. PICK m : m = Len(next)
                OBVIOUS
            <4>3. PICK v : v = w - m + 1
                OBVIOUS
            <4>4. w \in 1..(m + (l - 1)) /\ w > m /\ m \in Nat /\ l \in Nat
                BY <1>3, <1>4, <1>8, <3>2, <4>1, <4>2
            <4>5. v # 1 /\ (v = l => w = m + (l - 1))
                BY <4>3, <4>4
            <4>6. v \in DOMAIN walk /\ walk'[w] = walk[v]
                BY <3>2, <4>2, <4>3
            <4>. QED
                BY <1>8, <4>1, <4>2, <4>5, <4>6
        <3>. QED
            BY <1>9, <3>1, <3>2
    <2>2. \A b \in Blocks : Elements(succ[b]) \subseteq Elements(succ'[b])
        BY <1>1
    <2>. QED
        BY <1>12, <2>1, <2>2 DEF Follows
<1>15. Descends
    <2>1. ASSUME NEW i \in DOMAIN next
          PROVE  \E v \in DOMAIN walk' :
                    /\ walk'[v].do = Call.do /\ walk'[v].jump = Call.jump
                    /\ walk'[v].block = next[i]
        <3>1. i \in 1..Len(next) /\ i <= Len(next) /\ i \in 1..(Len(next) + (Len(walk) - 1))
            BY <1>3, <1>4
        <3>2. i \in DOMAIN walk' /\ walk'[i] = frames[i]
            BY <1>8, <3>1
        <3>. QED
            BY <1>5, <3>2
    <2>. QED
        BY <2>1 DEF Descends, next
<1>. QED
    BY <1>10, <1>11, <1>13, <1>14, <1>15, WalkedKeeps, WalkedClean DEF WalkStep

-----------------------------------------------------------------------------
(* What follows goes on in another block. *)

\* An item uses what it did and the block that the frame leads to; where it
\* did not use the block that was left, the same.
LEMMA RewriteUses ==
    ASSUME IInv, RegionInv, WalkRewrite, NEW i \in DOMAIN worklist
    PROVE  /\ i \in DOMAIN worklist'
           /\ Node(i)' = Node(i) /\ State(i)' = State(i)
           /\ Holding(i)' <=> Holding(i)
           /\ Opens(i)' <=> Opens(i)
           /\ Opens(i) => Floor(i)' = Floor(i) /\ Inside(i)' = Inside(i)
           /\ Outer(i)' \subseteq Outer(i) \cup {Call.jump}
           /\ Inner(i)' \subseteq Inner(i) \cup {Call.jump}
           /\ Call.block \notin Outer(i) => Outer(i)' = Outer(i)
           /\ Call.block \notin Inner(i) => Inner(i)' = Inner(i)
<1>1. /\ walk # <<>>
      /\ UNCHANGED <<ast, code, succ, closed, held, top>>
      /\ DOMAIN worklist' = DOMAIN worklist
      /\ worklist'[i] = IF worklist[i].block = Call.block
                        THEN [worklist[i] EXCEPT !.block = Call.jump]
                        ELSE worklist[i]
      /\ nodeBlock' \in [Nodes -> {Call.jump} \cup {nodeBlock[n] : n \in Nodes}]
      /\ \A n \in Nodes : /\ nodeBlock'[n] \in {nodeBlock[n], Call.jump}
                          /\ nodeBlock[n] # Call.block => nodeBlock'[n] = nodeBlock[n]
    BY DEF WalkRewrite, Walking
<1>2. Stays /\ Blocks' = Blocks
    BY <1>1, NothingWritten
<1>3. /\ worklist'[i].node = worklist[i].node
      /\ worklist'[i].state = worklist[i].state
      /\ worklist'[i].block \in {worklist[i].block, Call.jump}
      /\ worklist[i].block # Call.block => worklist'[i].block = worklist[i].block
    <2>1. worklist[i] \in ReadyItems
        BY ElementOfSeq, LenProperties DEF IInv
    <2>2. worklist[i] \in [node : Nodes, block : Blocks, state : 0..2]
        BY <2>1 DEF ReadyItems
    <2>. QED
        BY <1>1, <2>2
<1>4. /\ Node(i)' = Node(i) /\ State(i)' = State(i) /\ Kind(i)' = Kind(i)
      /\ Testing(i)' <=> Testing(i)
      /\ Holding(i)' <=> Holding(i)
      /\ Opens(i)' <=> Opens(i)
      /\ Holding(i) => HeldBlocks(i)' = HeldBlocks(i)
      /\ Opens(i) => Floor(i)' = Floor(i) /\ Spare(i)' = Spare(i)
    BY <1>1, <1>2, <1>3, ViewKept
<1>5. Opens(i) => Inside(i)' = Inside(i)
    BY <1>2, <1>4 DEF Inside
<1>6. top'[Node(i)'] = top[Node(i)]
    BY <1>1, <1>4
<1>7. /\ Outer(i)' \subseteq Outer(i) \cup {Call.jump}
      /\ Call.block \notin Outer(i) => Outer(i)' = Outer(i)
    BY <1>3, <1>4, <1>6 DEF Outer
<1>8. Node(i) \in Nodes
    BY ItemTyped
<1>9. /\ Inner(i)' \subseteq Inner(i) \cup {Call.jump}
      /\ Call.block \notin Inner(i) => Inner(i)' = Inner(i)
    <2>1. CASE Testing(i)
        BY <1>1, <1>4, <1>6, <1>8, <2>1 DEF Inner
    <2>2. CASE ~Testing(i)
        BY <1>4, <2>2 DEF Inner, Elements
    <2>. QED
        BY <2>1, <2>2
<1>. QED
    BY <1>1, <1>4, <1>5, <1>7, <1>9

\* A rewrite moves nothing out of a region that is open.
LEMMA RewriteNested ==
    ASSUME IInv, RegionInv, WalkRewrite, NEW i \in DOMAIN worklist, Opens(i)
    PROVE  Nested(i)'
<1>. DEFINE b == Call.block
            to == Call.jump
<1>1. /\ walk # <<>> /\ walk' = Tail(walk) /\ Call.do = "rewrite"
      /\ DOMAIN worklist' = DOMAIN worklist /\ succ' = succ /\ held' = held
    BY DEF WalkRewrite, Walking
<1>2. Nested(i)
    BY DEF RegionInv, Regions
<1>3. 1 \in DOMAIN walk /\ Call = walk[1]
    BY <1>1, Frames
<1>4. b \in Inside(i) /\ to \in Inside(i) /\ b >= Floor(i) /\ to >= Floor(i)
    BY <1>1, <1>2, <1>3 DEF Nested, Inside
<1>5. b \in Int /\ Floor(i) \in Int
    BY <1>4, UsesTyped DEF Inside, IInv, CodeInv
<1>6. ~(b < Floor(i))
    BY <1>4, <1>5
<1>7. /\ Node(i)' = Node(i) /\ (Holding(i)' <=> Holding(i))
      /\ Floor(i)' = Floor(i) /\ Inside(i)' = Inside(i)
      /\ Outer(i)' = Outer(i)
      /\ Inner(i)' \subseteq Inner(i) \cup {to}
    BY <1>2, <1>6, RewriteUses DEF Nested
<1>8. ASSUME NEW k \in DOMAIN worklist, k < i
      PROVE  \A x \in Uses(k)' : x < Floor(i)
    <2>1. \A x \in Uses(k) : x < Floor(i)
        BY <1>2, <1>8 DEF Nested
    <2>2. Outer(k)' = Outer(k) /\ Inner(k)' = Inner(k)
        BY <1>6, <2>1, RewriteUses DEF Uses
    <2>. QED
        BY <2>1, <2>2 DEF Uses
<1>9. ASSUME NEW k \in DOMAIN worklist, k > i
      PROVE  Uses(k)' \subseteq Inside(i)
    <2>1. Uses(k) \subseteq Inside(i)
        BY <1>2, <1>9 DEF Nested
    <2>2. Outer(k)' \subseteq Outer(k) \cup {to} /\ Inner(k)' \subseteq Inner(k) \cup {to}
        BY RewriteUses
    <2>. QED
        BY <1>4, <2>1, <2>2 DEF Uses
<1>10. \A w \in DOMAIN walk' : /\ walk'[w].block \in Inside(i)
                               /\ walk'[w].do # "return" => walk'[w].jump \in Inside(i)
    BY <1>1, <1>2, Frames DEF Nested
<1>11. \A x \in Inner(i)' : x >= Floor(i)
    BY <1>2, <1>4, <1>7 DEF Nested
<1>. QED
    BY <1>1, <1>2, <1>7, <1>8, <1>9, <1>10, <1>11 DEF Nested

\* A rewrite moves what was to go on in the block just left to the block
\* where the paths meet: only items above every open region move.
LEMMA WalkRewriteKeeps == IInv /\ RegionInv /\ WalkRewrite => RegionInv'
<1>. SUFFICES ASSUME IInv, RegionInv, WalkRewrite PROVE RegionInv'
    OBVIOUS
<1>1. /\ walk # <<>> /\ walk' = Tail(walk) /\ Call.do = "rewrite"
      /\ DOMAIN worklist' = DOMAIN worklist
      /\ UNCHANGED <<code, succ, closed, held>>
    BY DEF WalkRewrite, Walking
<1>2. /\ 1 \in DOMAIN walk /\ Call = walk[1]
      /\ \A w \in DOMAIN walk' : \E v \in DOMAIN walk : walk'[w] = walk[v]
    BY <1>1, Frames
<1>3. Order'
    BY <1>1, RewriteUses DEF RegionInv, Order
<1>4. Regions'
    BY <1>1, RewriteUses, RewriteNested DEF Regions
<1>5. StillOpen'
    <2>1. Call.jump \notin closed
        BY <1>1, <1>2 DEF RegionInv, StillOpen
    <2>2. ASSUME NEW i \in DOMAIN worklist
          PROVE  Uses(i)' \cap closed' = {}
        <3>1. Uses(i)' \subseteq Uses(i) \cup {Call.jump}
            BY RewriteUses DEF Uses
        <3>. QED
            BY <1>1, <2>1, <3>1 DEF RegionInv, StillOpen
    <2>. QED
        BY <1>1, <1>2, <2>2 DEF RegionInv, StillOpen
<1>6. OneCall'
    BY <1>1, Returned
<1>7. WalkApart'
    <2>1. ~Walker(1)
        BY <1>1, <1>2 DEF Walker, Walks
    <2>2. \A w \in DOMAIN walk : ~Walker(w)
        <3>. SUFFICES ASSUME NEW w \in DOMAIN walk PROVE ~Walker(w)
            OBVIOUS
        <3>1. w = 1 \/ 1 < w
            BY <1>1, Frames
        <3>. QED
            BY <1>2, <2>1, <3>1 DEF RegionInv, OneCall
    <2>3. \A w \in DOMAIN walk' : ~Walker(w)'
        BY <1>2, <2>2 DEF Walker
    <2>4. Apart({})'
        BY <2>3 DEF Apart
    <2>. QED
        BY <2>4 DEF WalkApart
<1>8. LastHeld'
    <2>1. \A i \in DOMAIN worklist' : Holding(i)' =>
             held'[Node(i)'][2] = Len(code'[held'[Node(i)'][1]])
        BY <1>1, RewriteUses DEF RegionInv, LastHeld
    <2>2. FramesHeld'
        BY <1>1, <1>2 DEF RegionInv, LastHeld, FramesHeld
    <2>. QED
        BY <2>1, <2>2 DEF LastHeld
<1>. QED
    BY <1>3, <1>4, <1>5, <1>6, <1>7, <1>8 DEF RegionInv

-----------------------------------------------------------------------------
(* The regions, always. *)

\* At first nothing is open.
LEMMA InitRegion == Init => RegionInv
<1>. SUFFICES ASSUME Init PROVE RegionInv
    OBVIOUS
<1>1. /\ worklist = <<Item(1, 0, 0)>> /\ walk = <<>> /\ closed = {}
      /\ DOMAIN worklist = {1} /\ worklist[1] = Item(1, 0, 0)
      /\ DOMAIN walk = {}
    BY DEF Init
<1>2. State(1) = 0
    BY <1>1 DEF State, Item
<1>3. \A i \in DOMAIN worklist : ~Opens(i) /\ ~Holding(i)
    BY <1>1, <1>2 DEF Opens, Testing, Holding
<1>4. Order /\ Regions /\ StillOpen /\ OneCall /\ LastHeld
    BY <1>1, <1>3 DEF Order, Regions, StillOpen, OneCall, LastHeld, FramesHeld
<1>5. Apart({})
    BY <1>1 DEF Apart
<1>. QED
    BY <1>4, <1>5 DEF RegionInv, WalkApart

\* Stuttering.
LEMMA SameRegion == IInv /\ RegionInv /\ UNCHANGED vars => RegionInv'
<1>. SUFFICES ASSUME IInv, RegionInv, UNCHANGED vars PROVE RegionInv'
    OBVIOUS
<1>1. UNCHANGED <<ast, worklist, walk, code, succ, closed, held, nodeBlock, top>>
    BY DEF vars
<1>2. Stays /\ Blocks' = Blocks
    BY <1>1, NothingWritten
<1>3. ASSUME NEW i \in DOMAIN worklist
      PROVE  /\ Node(i)' = Node(i) /\ State(i)' = State(i)
             /\ Holding(i)' <=> Holding(i)
             /\ Opens(i)' <=> Opens(i)
             /\ Opens(i) => Floor(i)' = Floor(i) /\ Inside(i)' = Inside(i)
             /\ Outer(i)' = Outer(i) /\ Inner(i)' = Inner(i) /\ Uses(i)' = Uses(i)
    <2>1. /\ Node(i)' = Node(i) /\ State(i)' = State(i)
          /\ Holding(i)' <=> Holding(i)
          /\ Opens(i)' <=> Opens(i)
          /\ Opens(i) => Floor(i)' = Floor(i) /\ Spare(i)' = Spare(i)
        BY <1>1, <1>2, ViewKept
    <2>2. Outer(i)' = Outer(i) /\ Inner(i)' = Inner(i) /\ Uses(i)' = Uses(i)
        BY <1>1, <1>2, UsesKept
    <2>. QED
        BY <1>2, <2>1, <2>2 DEF Inside
<1>4. Order'
    BY <1>1, <1>3 DEF RegionInv, Order
<1>5. ASSUME NEW i \in DOMAIN worklist, Opens(i)
      PROVE  Nested(i)'
    <2>1. Nested(i)
        BY <1>5 DEF RegionInv, Regions
    <2>. QED
        BY <1>1, <1>3, <1>5, <2>1 DEF Nested, Elements
<1>6. Regions'
    BY <1>1, <1>3, <1>5 DEF Regions
<1>7. StillOpen' /\ OneCall' /\ LastHeld'
    BY <1>1, <1>3 DEF RegionInv, StillOpen, OneCall, LastHeld, FramesHeld, Walker
<1>8. WalkApart'
    <2>1. PICK S \in SUBSET Blocks : Apart(S)
        BY DEF RegionInv, WalkApart
    <2>2. Apart(S)'
        BY <1>1, <1>3, <2>1 DEF Apart, Walker, Elements
    <2>. QED
        BY <1>2, <2>2 DEF WalkApart
<1>. QED
    BY <1>4, <1>6, <1>7, <1>8 DEF RegionInv

\* A rewrite moves every item that was to go on in the block that was left,
\* and the condition of a loop with it, to a block that nothing has left.
LEMMA RewriteClean ==
    ASSUME IInv, RegionInv, CleanInv, WalkRewrite
    PROVE  CleanInv'
<1>. DEFINE to == Call.jump
<1>1. /\ walk # <<>> /\ walk' = Tail(walk) /\ Call.do = "rewrite"
      /\ DOMAIN worklist' = DOMAIN worklist /\ ast' = ast
      /\ UNCHANGED <<code, succ, closed, held, top>>
    BY DEF WalkRewrite, Walking
<1>2. /\ 1 \in DOMAIN walk /\ Call = walk[1]
      /\ \A w \in DOMAIN walk' : \E v \in DOMAIN walk : walk'[w] = walk[v]
      /\ Blocks' = Blocks /\ Stays
    BY <1>1, Frames, NothingWritten
<1>3. Clean(to)
    BY <1>1, <1>2 DEF CleanInv
<1>4. \A b : Clean(b)' <=> Clean(b)
    BY <1>1 DEF Clean
<1>5. ASSUME NEW i \in DOMAIN worklist
      PROVE  /\ worklist'[i].node = worklist[i].node
             /\ worklist'[i].state = worklist[i].state
             /\ worklist'[i].block = IF worklist[i].block = Call.block THEN to
                                     ELSE worklist[i].block
             /\ Node(i)' = Node(i) /\ State(i)' = State(i) /\ Kind(i)' = Kind(i)
             /\ Testing(i)' <=> Testing(i)
    <2>1. worklist[i] \in ReadyItems
        BY ElementOfSeq, LenProperties DEF IInv
    <2>2. worklist[i] \in [node : Nodes, block : Blocks, state : 0..2]
        BY <2>1 DEF ReadyItems
    <2>3. /\ worklist'[i].node = worklist[i].node
          /\ worklist'[i].state = worklist[i].state
          /\ worklist'[i].block = IF worklist[i].block = Call.block THEN to
                                  ELSE worklist[i].block
        BY <2>2 DEF WalkRewrite
    <2>. QED
        BY <1>1, <2>3 DEF Node, State, Kind, Testing
<1>6. ASSUME NEW b, Left(b), b # Call.block
      PROVE  Left(b)'
    <2>1. CASE \E i \in DOMAIN worklist :
                  (Testing(i) \/ State(i) = 2) /\ worklist[i].block = b
        <3>1. PICK i \in DOMAIN worklist :
                 (Testing(i) \/ State(i) = 2) /\ worklist[i].block = b
            BY <2>1
        <3>2. worklist'[i].block = b /\ (Testing(i)' \/ State(i)' = 2)
            BY <1>5, <1>6, <3>1
        <3>. QED
            BY <1>1, <3>2 DEF Left
    <2>2. CASE \E w \in DOMAIN walk : walk[w].do = "rewrite" /\ walk[w].block = b
        <3>1. PICK w \in DOMAIN walk : walk[w].do = "rewrite" /\ walk[w].block = b
            BY <2>2
        <3>2. w # 1
            BY <1>2, <1>6, <3>1
        <3>3. PICK v \in DOMAIN walk' : walk'[v] = walk[w]
            BY <1>1, <3>2, TailFrames
        <3>. QED
            BY <3>1, <3>3 DEF Left
    <2>. QED
        BY <1>6, <2>1, <2>2 DEF Left
<1>7. ASSUME NEW b, Clean(b) \/ Left(b), b # Call.block
      PROVE  Clean(b)' \/ Left(b)'
    BY <1>4, <1>6, <1>7
<1>8. ASSUME NEW i \in DOMAIN worklist
      PROVE  CleanItem(i)'
    <2>1. CleanItem(i) /\ Node(i) \in Nodes
        BY ItemTyped DEF CleanInv
    <2>2. Clean(worklist[i].block)' \/ Left(worklist[i].block)'
        <3>1. CASE worklist[i].block = Call.block
            <4>1. worklist'[i].block = to
                BY <1>5, <3>1
            <4>. QED
                BY <1>1, <1>3, <4>1 DEF Clean
        <3>2. CASE worklist[i].block # Call.block
            <4>1. PICK b : b = worklist[i].block
                OBVIOUS
            <4>2. Clean(b)' \/ Left(b)'
                BY <1>7, <2>1, <3>2, <4>1 DEF CleanItem
            <4>3. worklist'[i].block = b
                BY <1>5, <3>2, <4>1
            <4>. QED
                BY <4>2, <4>3 DEF Clean, Left
        <3>. QED
            BY <3>1, <3>2
    <2>3. ASSUME Testing(i)'
          PROVE  Clean(nodeBlock[Node(i)])' \/ Left(nodeBlock[Node(i)])'
        <3>1. Testing(i) /\ Opens(i) /\ Node(i)' = Node(i)
            BY <1>5, <2>3 DEF Opens
        <3>2. PICK b : b = nodeBlock[Node(i)]
            OBVIOUS
        <3>3. Clean(b) \/ Left(b)
            BY <2>1, <3>1, <3>2 DEF CleanItem
        <3>4. CASE b # Call.block
            <4>1. nodeBlock'[Node(i)] = b
                BY <2>1, <3>2, <3>4 DEF WalkRewrite
            <4>2. Clean(b)' \/ Left(b)'
                BY <1>7, <3>3, <3>4
            <4>. QED
                BY <3>1, <4>1, <4>2 DEF Clean, Left
        <3>5. CASE b = Call.block
            <4>1. Nested(i)
                BY <3>1 DEF RegionInv, Regions
            <4>2. worklist[i].block \in Outer(i) /\ b \in Inner(i)
                BY <3>1, <3>2 DEF Outer, Inner
            <4>3. worklist[i].block < Floor(i) /\ b >= Floor(i)
                BY <4>1, <4>2 DEF Nested
            <4>4. /\ worklist[i].block \in Int /\ b \in Int /\ Floor(i) \in Int
                <5>1. Uses(i) \subseteq Blocks /\ Floor(i) \in Blocks /\ Blocks \subseteq Int
                    BY <3>1, UsesTyped DEF IInv, CodeInv
                <5>. QED
                    BY <4>2, <5>1 DEF Uses
            <4>5. worklist[i].block # b
                BY <4>3, <4>4
            <4>6. nodeBlock'[Node(i)] = to
                BY <2>1, <3>2, <3>5, <4>5 DEF WalkRewrite, Node
            <4>. QED
                BY <1>1, <1>3, <3>1, <4>6 DEF Clean
        <3>. QED
            BY <3>4, <3>5
    <2>4. \A b \in Spare(i)' : Clean(b)'
        <3>. SUFFICES ASSUME NEW b \in Spare(i)' PROVE Clean(b)'
            OBVIOUS
        <3>1. State(i)' = 2 /\ Kind(i)' # "IF"
            BY DEF Spare
        <3>2. Opens(i)
            BY <1>5, <3>1 DEF Opens, Holding
        <3>3. Spare(i)' = Spare(i)
            BY <1>1, <1>2, <1>5, <3>2, ViewKept
        <3>. QED
            BY <1>4, <2>1, <3>3 DEF CleanItem
    <2>. QED
        BY <2>2, <2>3, <2>4 DEF CleanItem
<1>9. ASSUME NEW w \in DOMAIN walk', walk'[w].do = "rewrite"
      PROVE  Clean(walk[w].jump)'
    <2>1. PICK v \in DOMAIN walk : walk'[w] = walk[v]
        BY <1>2
    <2>2. Clean(walk[v].jump)
        BY <1>9, <2>1 DEF CleanInv
    <2>. QED
        BY <1>1, <2>1, <2>2 DEF Clean
<1>10. \A b \in Blocks : Tidy(b)'
    BY <1>1 DEF CleanInv, Tidy, Clean, Cut
<1>. QED
    BY <1>1, <1>2, <1>8, <1>9, <1>10 DEF CleanInv

\* The first block holds the argument list, and is not left.
LEMMA InitClean == Init => CleanInv
<1>. SUFFICES ASSUME Init PROVE CleanInv
    OBVIOUS
<1>1. /\ worklist = <<Item(1, 0, 0)>> /\ walk = <<>>
      /\ DOMAIN worklist = {1} /\ worklist[1] = Item(1, 0, 0)
      /\ DOMAIN walk = {}
    BY DEF Init
<1>2. State(1) = 0 /\ worklist[1].block = 0
    BY <1>1 DEF State, Item
<1>3. /\ Blocks = {0} /\ DOMAIN code[0] = 1..2
      /\ \A x \in DOMAIN code[0] : code[0][x].op \in {"CONST_ARRAY", "STORE"}
    <2>. DEFINE is == <<Const("CONST_ARRAY", 0, Args), Store(1, 1, 0)>>
    <2>1. code = [b \in {0} |-> is]
        <3>1. 0..0 = {0}
            OBVIOUS
        <3>. QED
            BY <3>1 DEF Init
    <2>2. /\ DOMAIN is = 1..2 /\ is[1].op = "CONST_ARRAY" /\ is[2].op = "STORE"
        BY DEF Const, Store, Instr
    <2>3. 1..2 = {1, 2}
        OBVIOUS
    <2>. HIDE DEF is
    <2>. QED
        BY <2>1, <2>2, <2>3 DEF Blocks
<1>4. Clean(0)
    BY <1>3 DEF Clean, Leaves, Leaving
<1>. QED
    BY <1>1, <1>2, <1>3, <1>4 DEF CleanInv, CleanItem, Testing, Spare, Tidy

\* Stuttering.
LEMMA SameClean == IInv /\ CleanInv /\ UNCHANGED vars => CleanInv'
<1>. SUFFICES ASSUME IInv, CleanInv, UNCHANGED vars PROVE CleanInv'
    OBVIOUS
<1>1. UNCHANGED <<ast, worklist, walk, code, succ, closed, held, nodeBlock, top>>
    BY DEF vars
<1>2. Blocks' = Blocks /\ Stays
    BY <1>1, NothingWritten
<1>3. \A b : (Clean(b)' <=> Clean(b)) /\ (Left(b)' <=> Left(b))
    BY <1>1 DEF Clean, Left, Testing, State, Kind
<1>4. ASSUME NEW i \in DOMAIN worklist
      PROVE  CleanItem(i)'
    <2>1. /\ CleanItem(i) /\ Node(i)' = Node(i) /\ State(i)' = State(i)
          /\ Kind(i)' = Kind(i) /\ Testing(i)' <=> Testing(i)
        BY <1>1 DEF CleanInv, Node, State, Kind, Testing
    <2>2. Spare(i)' = Spare(i)
        BY <1>1 DEF Spare, State, Kind, HeldBlocks, HeldInstr, Node
    <2>. QED
        BY <1>1, <1>3, <2>1, <2>2 DEF CleanItem, Clean, Left, Testing, State, Kind, Node
<1>5. \A b \in Blocks : Tidy(b)'
    BY <1>1 DEF CleanInv, Tidy, Clean, Cut
<1>. QED
    BY <1>1, <1>2, <1>3, <1>4, <1>5 DEF CleanInv, Clean

\* Nor does a walk write a closed block: it jumps from open ones, to blocks
\* that are still used.
LEMMA WalksClosed ==
    ASSUME IInv, RegionInv,
           \/ WalkJump \/ WalkReturn \/ WalkDescend
           \/ WalkSkip \/ WalkLink \/ WalkRewrite
    PROVE  ClosedKept
<1>1. walk # <<>> /\ closed \subseteq Blocks /\ Call.block \in Blocks
    BY CallReady DEF WalkJump, WalkReturn, WalkDescend, WalkSkip, WalkLink,
                     WalkRewrite, Walking, IInv, FlowOK
<1>2. 1 \in DOMAIN walk /\ Call = walk[1]
    BY <1>1, Frames
<1>3. CASE WalkDescend \/ WalkSkip \/ WalkRewrite
    BY <1>3 DEF WalkDescend, WalkSkip, WalkRewrite, ClosedKept
<1>4. CASE WalkLink
    <2>1. Call.block \notin closed /\ closed' = closed /\ code' = code
        BY <1>2, <1>4 DEF RegionInv, StillOpen, WalkLink, Walking
    <2>2. Call.jump \in Blocks
        BY <1>4, CallReady DEF WalkLink, Walking, FrameReady
    <2>3. \A c \in Blocks : c # Call.block => succ'[c] = succ[c]
        BY <1>1, <1>4, <2>2, SuccAdded DEF WalkLink
    <2>. QED
        BY <1>1, <2>1, <2>3 DEF ClosedKept
<1>5. CASE WalkReturn
    <2>1. /\ Call.block \notin closed /\ closed \subseteq closed' /\ succ' = succ
          /\ Emit(code, Call.block, Instr("RETURN", nextValue, <<Call.value>>, <<>>))
        BY <1>5 DEF WalkReturn, Open
    <2>2. Wrote(Call.block, <<Instr("RETURN", nextValue, <<Call.value>>, <<>>)>>)
        BY <1>1, <2>1, EmitWritesHere DEF IInv
    <2>3. \A c \in Blocks : c # Call.block => code'[c] = code[c]
        BY <2>2 DEF Wrote
    <2>. QED
        BY <1>1, <2>1, <2>3 DEF ClosedKept
<1>6. CASE WalkJump
    <2>1. /\ Call.block \notin closed /\ closed' = closed
          /\ Call.do \in {"phi", "jump"}
          /\ succ' = [succ EXCEPT ![Call.block] = Append(@, Call.jump)]
        BY <1>6 DEF WalkJump, Open, Walking
    <2>2. Call.jump \in Blocks /\ Call.jump \notin closed
        BY <1>1, <1>2, <2>1, CallReady DEF FrameReady, RegionInv, StillOpen
    <2>3. \A c \in Blocks : c # Call.block => succ'[c] = succ[c]
        BY <1>1, <2>1, <2>2, SuccAdded
    <2>4. /\ Alike(Filled)
          /\ \A x \in Blocks : \A i \in DOMAIN code[x] :
                code[x][i].op # "PHI" => Filled[x][i] = code[x][i]
          /\ \A x \in Blocks : x # Call.jump => Filled[x] = code[x]
          /\ JumpBack \in ReadyInstructions(Blocks)
          /\ Emit(Filled, Call.block, JumpBack)
        BY <1>6, JumpWrites
    <2>5. CodeInv
        BY DEF IInv
    <2>6. \A x \in Blocks : x # Call.block => code'[x] = Filled[x]
        BY <1>1, <2>4, <2>5, EmitOver
    <2>. QED
        BY <1>1, <2>1, <2>2, <2>3, <2>4, <2>6 DEF ClosedKept
<1>. QED
    BY <1>3, <1>4, <1>5, <1>6

\* Every turn keeps the regions.
LEMMA TurnsKeep ==
    ASSUME IInv, IInv', RegionInv,
           \/ GenLiteral \/ GenIdentifier \/ GenNullary \/ GenSchedule
           \/ GenUnary \/ GenBinary \/ GenSlice \/ GenDump \/ GenExpr \/ GenAssign
           \/ GenCall \/ GenBlockEnter \/ GenBlockLeave
           \/ GenShortCircuit \/ GenShortCircuitMerge \/ GenIfBranch \/ GenIfMerge
           \/ GenWhileEnter \/ GenWhileBranch \/ GenWhileLoop
    PROVE  TurnStep
<1>1. CASE GenLiteral \/ GenIdentifier \/ GenNullary \/ GenUnary \/ GenBinary
           \/ GenSlice \/ GenDump \/ GenAssign
    BY <1>1, SimplePops DEF PlainStep
<1>2. CASE GenSchedule \/ GenExpr \/ GenCall
    BY <1>2, GenScheduleKeeps, GenExprKeeps, GenCallKeeps DEF PlainStep
<1>3. CASE GenBlockEnter \/ GenBlockLeave
    BY <1>3, GenBlockEnterKeeps, GenBlockLeaveKeeps DEF OpenStep, LeaveStep
<1>4. CASE GenShortCircuit \/ GenShortCircuitMerge
    BY <1>4, GenShortCircuitKeeps, GenShortCircuitMergeKeeps DEF OpenStep, LeaveStep
<1>5. CASE GenIfBranch \/ GenIfMerge
    BY <1>5, GenIfBranchKeeps, GenIfMergeKeeps DEF OpenStep, LeaveStep
<1>6. CASE GenWhileEnter \/ GenWhileBranch \/ GenWhileLoop
    BY <1>6, GenWhileEnterKeeps, GenWhileBranchKeeps, GenWhileLoopKeeps
       DEF OpenStep, LeaveStep
<1>. QED
    BY <1>1, <1>2, <1>3, <1>4, <1>5, <1>6

\* The steps of a walk, but for a rewrite.
LEMMA WalksKeep ==
    ASSUME IInv, RegionInv,
           \/ WalkJump \/ WalkReturn \/ WalkDescend \/ WalkSkip \/ WalkLink
    PROVE  WalkStep
    BY WalkJumpKeeps, WalkReturnKeeps, WalkDescendKeeps, WalkSkipKeeps, WalkLinkKeeps

\* Every step keeps the regions.
LEMMA NextRegion == IInv /\ IInv' /\ RegionInv /\ [Next]_vars => RegionStep
<1>. SUFFICES ASSUME IInv, IInv', RegionInv, [Next]_vars PROVE RegionStep
    OBVIOUS
<1>1. CASE Next /\ ~UNCHANGED vars
    <2>1. Generate
        BY <1>1 DEF Next, Return
    <2>2. CASE WalkJump \/ WalkReturn \/ WalkDescend \/ WalkSkip \/ WalkLink
        BY <2>2, WalksKeep, WalksClosed DEF RegionStep, WalkStep
    <2>3. CASE WalkRewrite
        BY <2>3, WalkRewriteKeeps, RewriteClean, WalksClosed DEF RegionStep
    <2>4. CASE ~(WalkJump \/ WalkReturn \/ WalkDescend \/ WalkSkip \/ WalkLink
                 \/ WalkRewrite)
        BY <2>1, <2>4, TurnsKeep DEF Generate, TurnStep
    <2>. QED
        BY <2>2, <2>3, <2>4
<1>2. CASE UNCHANGED vars
    BY <1>2, SameRegion, SameClean DEF vars, RegionStep, ClosedKept
<1>. QED
    BY <1>1, <1>2

\* The regions are nested as the tree is, in every state of the generator.
THEOREM RegionsAlways == Spec => []RegionInv
<1>1. IInv /\ IInv' /\ RegionInv /\ [Next]_vars => RegionInv'
    BY NextRegion DEF RegionStep
<1>. QED
    BY <1>1, Invariance, InitIInv, InitRegion, PTL DEF Spec

\* What node->instruction and the `phi` of AND, OR and IF point to is the last
\* instruction of its block until its last use, which comes behind the walks:
\* nothing that is generated into the region of the item, and nothing that the
\* walks over it emit, reallocates the array it lies in.
THEOREM HeldPointersStay == Spec => []HeldPointersStable
<1>1. ASSUME IInv, RegionInv
      PROVE  HeldPointersStable
    <2>1. ASSUME NEW w \in DOMAIN worklist, Holding(w)
          PROVE  /\ held[Node(w)] # NoPos
                 /\ held[Node(w)][2] = Len(code[held[Node(w)][1]])
        <3>1. held[Node(w)][1] \in Blocks
            BY <1>1, <2>1, HoldingTyped
        <3>2. NoPos[1] = -1 /\ -1 \notin Blocks
            BY <1>1 DEF NoPos, IInv, CodeInv
        <3>3. held[Node(w)] # NoPos
            BY <3>1, <3>2
        <3>. QED
            BY <1>1, <2>1, <3>3 DEF RegionInv, LastHeld
    <2>2. ASSUME NEW w \in DOMAIN walk
          PROVE  /\ walk[w].do # "return" => LastInBlock(walk[w].node)
                 /\ walk[w].at # 0 => walk[w].at = Len(code[walk[w].jump])
        <3>1. walk[w] \in ReadyFrames
            BY <1>1, LenProperties, ElementOfSeq DEF IInv
        <3>2. NoPos[1] = -1 /\ -1 \notin Blocks
            BY <1>1 DEF NoPos, IInv, CodeInv
        <3>3. walk[w].do # "return" => held[walk[w].node] # NoPos
            BY <3>1, <3>2 DEF ReadyFrames, FrameReady, Holds
        <3>. QED
            BY <1>1, <3>3 DEF RegionInv, LastHeld, FramesHeld, LastInBlock
    <2>. QED
        BY <2>1, <2>2 DEF HeldPointersStable, LastInBlock, Holding, Node, State, Kind
<1>. QED
    BY <1>1, Invariance, RegionsAlways, PTL

\* A block that was closed by a RETURN is never written again, nor does it
\* get a successor, at whatever index.
THEOREM ClosedBlocksStay == Spec => ClosedStays
<1>1. ASSUME IInv, IInv', RegionInv, [Next]_vars
      PROVE  [/\ closed \subseteq closed'
              /\ \A b \in closed : code'[b] = code[b] /\ succ'[b] = succ[b]]_vars
    BY <1>1, NextRegion DEF RegionStep, ClosedKept
<1>. QED
    BY <1>1, Invariance, RegionsAlways, PTL DEF ClosedStays, Spec

\* Where an item goes on, nothing has left the block, in every state of the
\* generator.
THEOREM CleanAlways == Spec => []CleanInv
<1>1. IInv /\ IInv' /\ RegionInv /\ CleanInv /\ [Next]_vars => CleanInv'
    BY NextRegion DEF RegionStep
<1>. QED
    BY <1>1, Invariance, RegionsAlways, InitClean, PTL DEF Spec

\* A block that is left at k runs up to k.
LEMMA CutIsLive ==
    ASSUME CodeInv, NEW b \in Blocks, NEW k \in DOMAIN code[b], Cut(b, k)
    PROVE  LiveLength(code[b]) = k
<1>. DEFINE is == code[b]
            First(i) == /\ is[i].op \in Leaving
                        /\ \A j \in 1..(i - 1) : is[j].op \notin Leaving
<1>1. DOMAIN is = 1..Len(is) /\ Len(is) \in Nat
    BY BlockIsSeq
<1>2. /\ is[k].op \in Leaving
      /\ \A j \in DOMAIN is : j < k => is[j].op \notin Leaving
    BY DEF Cut
<1>. HIDE DEF is
<1>3. k \in DOMAIN is
    BY DEF is
<1>4. First(k)
    <2>1. \A j \in 1..(k - 1) : j \in DOMAIN is /\ j < k
        BY <1>1, <1>3
    <2>. QED
        BY <1>2, <2>1
<1>5. ASSUME NEW l \in DOMAIN is, First(l)
      PROVE  l = k
    <2>1. ~(l < k)
        BY <1>2, <1>5
    <2>2. ~(k < l)
        <3>1. k < l => k \in 1..(l - 1)
            BY <1>1, <1>3
        <3>. QED
            BY <1>2, <1>5, <3>1
    <2>. QED
        BY <1>1, <1>3, <2>1, <2>2
<1>6. LiveLength(is) = CHOOSE i \in DOMAIN is : First(i)
    BY <1>2, <1>3 DEF LiveLength, Leaves
<1>. HIDE DEF First
<1>7. LiveLength(is) = k
    BY <1>3, <1>4, <1>5, <1>6
<1>. QED
    BY <1>7 DEF is

\* What the VM never comes to, behind the instruction that leaves a block, is
\* only jumps and returns of walks over its successors: no argument, operation
\* or PHI is emitted where it would not run.
THEOREM NothingFollows == Spec => []NothingAfterLeaving
<1>1. ASSUME IInv, CleanInv
      PROVE  NothingAfterLeaving
    <2>. SUFFICES ASSUME NEW b \in Blocks, NEW i \in DOMAIN code[b],
                         i > LiveLength(code[b])
                  PROVE  code[b][i].op \in {"JUMP", "RETURN"}
        BY DEF NothingAfterLeaving
    <2>1. CodeInv /\ Tidy(b)
        BY <1>1 DEF IInv, CleanInv
    <2>2. DOMAIN code[b] = 1..Len(code[b]) /\ Len(code[b]) \in Nat
        BY <2>1, BlockIsSeq
    <2>3. ~Clean(b)
        <3>1. Clean(b) => LiveLength(code[b]) = Len(code[b])
            BY DEF Clean, LiveLength
        <3>2. i \in Int /\ i <= Len(code[b])
            BY <2>2
        <3>. QED
            BY <2>2, <3>1, <3>2
    <2>4. PICK k \in DOMAIN code[b] : Cut(b, k)
        BY <2>1, <2>3 DEF Tidy
    <2>5. LiveLength(code[b]) = k
        BY <2>1, <2>4, CutIsLive
    <2>. QED
        BY <2>4, <2>5 DEF Cut
<1>. QED
    BY <1>1, Invariance, CleanAlways, PTL

-----------------------------------------------------------------------------
(* Where the successors lead. *)

\* Nothing leads out of the blocks of T.
Enclosed(T) == \A c \in T : Elements(succ[c]) \subseteq T

\* What comes after the block is in T, and the block is not.
After(b, T) == Enclosed(T) /\ Elements(succ[b]) \subseteq T /\ b \notin T
Acyclic == \A b \in Blocks : \E T \in SUBSET Blocks : After(b, T)

\* The blocks of a loop's condition, while its body is generated.
Condition(i) == top[Node(i)]..(Floor(i) - 1)

\* What the item has made and what is above it does not reach: nothing
\* follows the block that is kept for later, and the condition leads nowhere.
Bounded(i) ==
    /\ \A b \in Spare(i) : succ[b] = <<>>
    /\ Kind(i) = "WHILE" => Enclosed(Condition(i))

\* The calls that add a successor, all to the same block.
Linking(w) == walk[w].do \in {"phi", "jump", "link"}

\* They add it to blocks of S, and T holds all that it leads to.
Onward(S, T) ==
    /\ S \cap T = {} /\ Enclosed(T)
    /\ \A w \in DOMAIN walk : Linking(w) =>
          /\ walk[w].jump \in T
          /\ walk[w].block \in S \cup {walk[w].jump}
          /\ walk[w].do = "link" => walk[w].block \in S
    /\ \A w \in DOMAIN walk : walk[w].do \in {"phi", "jump"} =>
          \A b \in S : Elements(succ[b]) \subseteq S \cup {walk[w].jump}
Ahead == \E S, T \in SUBSET Blocks : Onward(S, T)

PathInv ==
    /\ Acyclic
    /\ \A i \in DOMAIN worklist : Holding(i) => Bounded(i)
    /\ Ahead

-----------------------------------------------------------------------------
(* Edges that keep the successors without a cycle. *)

\* New blocks, and edges to them.
LEMMA NewAfter ==
    ASSUME IInv, IInv', Acyclic, Blocks \subseteq Blocks', NEW b \in Blocks, SuccFrom(b)
    PROVE  Acyclic'
<1>1. /\ \A c \in Blocks : Elements(succ'[c]) \subseteq Elements(succ[c]) \cup New
      /\ \A c \in New : Elements(succ'[c]) = {}
    BY DEF SuccFrom, Elements
<1>2. \A c \in Blocks' : c \in Blocks \/ c \in New
    BY DEF New
<1>3. New \subseteq Blocks' /\ New \cap Blocks = {}
    BY DEF New
<1>4. ASSUME NEW c \in Blocks'
      PROVE  \E U \in SUBSET Blocks' : After(c, U)'
    <2>1. CASE c \in New
        <3>1. After(c, {})'
            BY <1>1, <2>1 DEF After, Enclosed
        <3>. QED
            BY <3>1
    <2>2. CASE c \in Blocks
        <3>1. PICK T \in SUBSET Blocks : After(c, T)
            BY <2>2 DEF Acyclic
        <3>2. PICK U : U = T \cup New
            OBVIOUS
        <3>3. U \in SUBSET Blocks' /\ c \notin U
            BY <1>3, <2>2, <3>1, <3>2 DEF After
        <3>4. \A x \in U : Elements(succ'[x]) \subseteq U
            BY <1>1, <3>1, <3>2 DEF After, Enclosed
        <3>5. Elements(succ'[c]) \subseteq U
            BY <1>1, <2>2, <3>1, <3>2 DEF After
        <3>6. After(c, U)'
            BY <3>3, <3>4, <3>5 DEF After, Enclosed
        <3>. QED
            BY <3>3, <3>6
    <2>. QED
        BY <1>2, <2>1, <2>2
<1>. QED
    BY <1>4 DEF Acyclic

\* An edge into a set that nothing leads out of.
LEMMA EdgeAfter ==
    ASSUME Acyclic, Blocks' = Blocks, NEW T \in SUBSET Blocks, Enclosed(T),
           NEW b \in Blocks \ T, NEW j \in T,
           \A c \in Blocks : c # b => succ'[c] = succ[c],
           Elements(succ'[b]) \subseteq Elements(succ[b]) \cup {j}
    PROVE  Acyclic' /\ Enclosed(T)'
<1>1. /\ \A c \in Blocks : c # b => Elements(succ'[c]) = Elements(succ[c])
      /\ Enclosed(T)'
    BY DEF Elements, Enclosed
<1>2. ASSUME NEW c \in Blocks
      PROVE  \E U \in SUBSET Blocks : After(c, U)'
    <2>1. PICK R \in SUBSET Blocks : After(c, R)
        BY DEF Acyclic
    <2>2. CASE c \in T
        <3>1. PICK U : U = R \cap T
            OBVIOUS
        <3>2. U \in SUBSET Blocks /\ c \notin U
            BY <2>1, <3>1 DEF After
        <3>3. \A x \in U : Elements(succ'[x]) \subseteq U
            BY <1>1, <2>1, <3>1 DEF After, Enclosed
        <3>4. Elements(succ'[c]) \subseteq U
            BY <1>1, <2>1, <2>2, <3>1 DEF After, Enclosed
        <3>5. After(c, U)'
            BY <3>2, <3>3, <3>4 DEF After, Enclosed
        <3>. QED
            BY <3>2, <3>5
    <2>3. CASE c \notin T
        <3>1. PICK U : U = R \cup T
            OBVIOUS
        <3>2. U \in SUBSET Blocks /\ c \notin U
            BY <2>1, <2>3, <3>1 DEF After
        <3>3. ASSUME NEW x \in Blocks, Elements(succ[x]) \subseteq R
              PROVE  Elements(succ'[x]) \subseteq U
            BY <1>1, <3>1, <3>3
        <3>4. \A x \in U : Elements(succ'[x]) \subseteq U
            BY <1>1, <2>1, <3>1, <3>3 DEF After, Enclosed
        <3>5. Elements(succ'[c]) \subseteq U
            BY <2>1, <3>3 DEF After
        <3>6. After(c, U)'
            BY <3>2, <3>4, <3>5 DEF After, Enclosed
        <3>. QED
            BY <3>2, <3>6
    <2>. QED
        BY <2>2, <2>3
<1>. QED
    BY <1>1, <1>2 DEF Acyclic

\* No edge.
LEMMA SameAfter ==
    ASSUME Acyclic, Blocks' = Blocks, succ' = succ
    PROVE  Acyclic'
<1>1. \A c \in Blocks : \A T \in SUBSET Blocks : After(c, T) => After(c, T)'
    BY DEF After, Enclosed, Elements
<1>. QED
    BY <1>1 DEF Acyclic

-----------------------------------------------------------------------------
(* What an item waits for does not reach what it has bounded. *)

\* The condition of a loop lies under the blocks that come after it.
LEMMA ConditionTyped ==
    ASSUME IInv, RegionInv, NEW i \in DOMAIN worklist, Holding(i), Kind(i) = "WHILE"
    PROVE  /\ Condition(i) \subseteq Blocks /\ top[Node(i)] \in Condition(i)
           /\ Condition(i) \cap Inside(i) = {}
<1>1. Opens(i) /\ ~Testing(i) /\ State(i) = 2
    BY DEF Opens, Holding, Testing
<1>2. Nested(i)
    BY <1>1 DEF RegionInv, Regions
<1>3. top[Node(i)] \in Outer(i)
    BY <1>1 DEF Outer
<1>4. top[Node(i)] \in Blocks /\ Floor(i) \in Blocks
    BY <1>1, <1>3, UsesTyped DEF Uses
<1>5. top[Node(i)] < Floor(i)
    BY <1>2, <1>3 DEF Nested
<1>6. Blocks = 0..(NextBlock - 1) /\ NextBlock \in Nat
    BY DEF IInv, CodeInv
<1>7. /\ top[Node(i)] \in Nat /\ Floor(i) \in Nat /\ Floor(i) < NextBlock
    BY <1>4, <1>6
<1>8. PICK t, f : t = top[Node(i)] /\ f = Floor(i)
    OBVIOUS
<1>9. Condition(i) = t..(f - 1)
    BY <1>8 DEF Condition
<1>10. /\ t..(f - 1) \subseteq Blocks /\ t \in t..(f - 1)
       /\ \A b \in t..(f - 1) : ~(b >= f)
    BY <1>5, <1>6, <1>7, <1>8
<1>. QED
    BY <1>8, <1>9, <1>10 DEF Inside

\* A step that writes one block inside keeps what bounds it.
LEMMA BoundedKept ==
    ASSUME IInv, RegionInv, NEW i \in DOMAIN worklist, Holding(i), Bounded(i),
           Node(i)' = Node(i), Kind(i)' = Kind(i),
           Floor(i)' = Floor(i), Spare(i)' = Spare(i),
           top'[Node(i)] = top[Node(i)],
           NEW b \in Inside(i), \A c \in Blocks : c # b => succ'[c] = succ[c]
    PROVE  Bounded(i)'
<1>1. Opens(i)
    BY DEF Opens
<1>2. Spare(i) \subseteq Blocks /\ Spare(i) \cap Inside(i) = {}
    BY <1>1, UsesTyped DEF Inside
<1>3. \A c \in Spare(i) : succ'[c] = <<>>
    BY <1>2 DEF Bounded
<1>4. Condition(i)' = Condition(i)
    BY DEF Condition
<1>5. ASSUME Kind(i) = "WHILE"
      PROVE  Enclosed(Condition(i))'
    <2>1. PICK T : T = Condition(i)
        OBVIOUS
    <2>2. T \subseteq Blocks /\ b \notin T
        BY <1>5, <2>1, ConditionTyped
    <2>3. \A c \in T : Elements(succ[c]) \subseteq T
        BY <1>5, <2>1 DEF Bounded, Enclosed
    <2>4. \A c \in T : Elements(succ'[c]) \subseteq T
        BY <2>2, <2>3 DEF Elements
    <2>. QED
        BY <1>4, <2>1, <2>4 DEF Enclosed
<1>. QED
    BY <1>3, <1>5 DEF Bounded

\* A turn leaves it to the items below.
LEMMA TurnBounded ==
    ASSUME IInv, IInv', RegionInv, Turned, NEW i \in 1..(Depth - 1), Holding(i)',
           NEW b \in Uses(Depth), \A c \in Blocks : c # b => succ'[c] = succ[c],
           Holding(i) => Bounded(i)
    PROVE  Bounded(i)'
<1>1. /\ i \in DOMAIN worklist /\ Holding(i)
      /\ Node(i)' = Node(i) /\ Kind(i)' = Kind(i)
      /\ Opens(i) => /\ Floor(i)' = Floor(i) /\ Spare(i)' = Spare(i)
                     /\ top'[Node(i)] = top[Node(i)]
    BY TurnViews
<1>2. Opens(i)
    BY <1>1 DEF Opens
<1>3. b \in Inside(i)
    BY <1>2, TurnInside
<1>. QED
    BY <1>1, <1>2, <1>3, BoundedKept

\* The popped item, when it comes back holding new blocks.  What is to be
\* shown is left to the loop that has its condition.
LEMMA TopBounded ==
    ASSUME IInv, IInv', RegionInv, Turned, Fresh, NEW d, d = Depth,
           d \in DOMAIN worklist', Holding(d)', \A c \in New : succ'[c] = <<>>,
           Kind(d)' = "WHILE" => Enclosed(Condition(d))'
    PROVE  Bounded(d)'
<1>1. Inner(d)' \subseteq New
    BY DEF Fresh
<1>2. Spare(d)' \subseteq Elements(HeldBlocks(d)')
    <2>1. CASE State(d)' # 2
        BY <2>1 DEF Spare
    <2>2. CASE State(d)' = 2
        <3>1. 1 \in DOMAIN HeldBlocks(d)' /\ 2 \in DOMAIN HeldBlocks(d)'
            BY <2>2, NextHolding
        <3>. QED
            BY <2>2, <3>1 DEF Spare, Elements
    <2>. QED
        BY <2>1, <2>2
<1>3. Inner(d)' = Elements(HeldBlocks(d)')
    BY DEF Inner, Holding, Testing
<1>. QED
    BY <1>1, <1>2, <1>3 DEF Bounded

-----------------------------------------------------------------------------
(* What a turn adds to the successors. *)

\* As many blocks as there are lists of successors.
LEMMA SuccBlocks ==
    ASSUME IInv, IInv', NEW k \in 1..2, NEW b, NEW t,
           succ' = Grown(succ, k) \/ Linked(k, b, t)
    PROVE  New = NextBlock..(NextBlock + k - 1)
<1>1. DOMAIN succ' = Blocks'
    BY DEF IInv, FlowOK
<1>2. DOMAIN succ' = 0..(NextBlock + k - 1)
    BY DEF Grown, Linked
<1>3. NextBlock \in Nat /\ Blocks = 0..(NextBlock - 1)
    BY DEF IInv, CodeInv
<1>4. PICK n, m : n = NextBlock /\ m = NextBlock + k - 1
    OBVIOUS
<1>5. (0..m) \ (0..(n - 1)) = n..m
    BY <1>3, <1>4
<1>6. Blocks' = 0..m /\ Blocks = 0..(n - 1)
    BY <1>1, <1>2, <1>3, <1>4
<1>. QED
    BY <1>4, <1>5, <1>6 DEF New

\* Edges to new blocks.
LEMMA SuccNew ==
    ASSUME IInv, IInv', worklist # <<>>, NEW k \in 1..2, NEW t,
           \A i \in DOMAIN t : t[i] \in NextBlock..(NextBlock + k - 1),
           t = <<NextBlock>> \/ t = <<NextBlock, NextBlock + 1>>,
           Linked(k, Top.block, t)
    PROVE  SuccFrom(Top.block)
<1>1. New = NextBlock..(NextBlock + k - 1)
    BY SuccBlocks
<1>2. Top.block \in Blocks
    BY TopUses
<1>3. t \in Seq(New)
    BY <1>1
<1>. QED
    BY <1>1, <1>2, <1>3, SuccTo

\* A turn adds only edges from the block that it goes on in to new blocks.
LEMMA TurnSucc ==
    ASSUME IInv, IInv',
           \/ GenLiteral \/ GenIdentifier \/ GenNullary \/ GenSchedule
           \/ GenUnary \/ GenBinary \/ GenSlice \/ GenDump \/ GenExpr \/ GenAssign
           \/ GenCall \/ GenBlockEnter \/ GenBlockLeave
           \/ GenShortCircuit \/ GenShortCircuitMerge \/ GenIfBranch \/ GenIfMerge
           \/ GenWhileEnter \/ GenWhileBranch \/ GenWhileLoop
    PROVE  worklist # <<>> /\ walk = <<>> /\ SuccFrom(Top.block)
<1>1. worklist # <<>> /\ walk = <<>>
    BY DEF GenLiteral, GenIdentifier, GenNullary, GenSchedule, GenUnary, GenBinary,
           GenSlice, GenDump, GenExpr, GenAssign, GenCall, GenBlockEnter,
           GenBlockLeave, GenShortCircuit, GenShortCircuitMerge, GenIfBranch,
           GenIfMerge, GenWhileEnter, GenWhileBranch, GenWhileLoop, Operator, Turn
<1>2. Top.block \in Blocks /\ NextBlock \in Nat /\ Blocks = 0..(NextBlock - 1)
    BY <1>1, TopUses DEF IInv, CodeInv
<1>3. CASE succ' = succ
    <2>1. DOMAIN succ' = Blocks' /\ DOMAIN succ = Blocks
        BY DEF IInv, FlowOK
    <2>2. New = {}
        BY <1>3, <2>1 DEF New
    <2>. QED
        BY <1>1, <1>3, <2>2 DEF SuccFrom
<1>4. CASE GenBlockEnter \/ GenIfMerge
    <2>1. succ' = Grown(succ, 1)
        BY <1>4 DEF GenBlockEnter, GenIfMerge
    <2>2. New = NextBlock..(NextBlock + 1 - 1)
        BY <2>1, SuccBlocks
    <2>. QED
        BY <1>1, <1>2, <2>1, <2>2, SuccKept
<1>5. CASE GenShortCircuit \/ GenIfBranch \/ GenWhileBranch
    <2>. DEFINE t == <<NextBlock, NextBlock + 1>>
    <2>1. Linked(2, Top.block, t)
        BY <1>5 DEF GenShortCircuit, GenIfBranch, GenWhileBranch, WhileFrom, Linked
    <2>2. \A i \in DOMAIN t : t[i] \in NextBlock..(NextBlock + 2 - 1)
        BY <1>2
    <2>. HIDE DEF t
    <2>3. t = <<NextBlock>> \/ t = <<NextBlock, NextBlock + 1>>
        BY DEF t
    <2>. QED
        BY <1>1, <2>1, <2>2, <2>3, SuccNew
<1>6. CASE GenWhileEnter
    <2>. DEFINE t == <<NextBlock>>
    <2>1. Linked(1, Top.block, t)
        <3>1. Grown(succ, 1)[Top.block] = succ[Top.block]
            BY <1>2 DEF Grown
        <3>2. succ[Top.block] \in Seq(Blocks \cup {NextBlock})
            BY <1>2, FlowParts, SeqMonotonic
        <3>3. Append(succ[Top.block], NextBlock) = succ[Top.block] \o t
            BY <3>2, AppendIsConcat
        <3>4. succ' = [Grown(succ, 1) EXCEPT ![Top.block] = Append(@, NextBlock)]
            BY <1>6 DEF GenWhileEnter
        <3>. HIDE DEF t
        <3>. QED
            BY <3>1, <3>3, <3>4 DEF Linked
    <2>2. \A i \in DOMAIN t : t[i] \in NextBlock..(NextBlock + 1 - 1)
        BY <1>2
    <2>. HIDE DEF t
    <2>3. t = <<NextBlock>> \/ t = <<NextBlock, NextBlock + 1>>
        BY DEF t
    <2>. QED
        BY <1>1, <2>1, <2>2, <2>3, SuccNew
<1>. QED
    BY <1>3, <1>4, <1>5, <1>6
    DEF GenLiteral, GenIdentifier, GenNullary, GenSchedule, GenUnary, GenBinary,
        GenSlice, GenDump, GenExpr, GenAssign, GenCall, GenBlockLeave,
        GenShortCircuitMerge, GenWhileLoop, Operator

\* The condition of a loop leads nowhere when its body is begun: its blocks
\* are those inside while it was tested, and all made before the body.
LEMMA ConditionEnclosed ==
    ASSUME IInv, IInv', RegionInv, GenWhileBranch, Fresh, NEW d, d = Depth,
           d \in DOMAIN worklist', Holding(d)'
    PROVE  Enclosed(Condition(d))'
<1>1. /\ worklist # <<>> /\ walk = <<>> /\ ast[Top.node].kind = "WHILE"
      /\ Top.state = 1 /\ top' = top
    BY DEF GenWhileBranch, Turn
<1>2. /\ d \in DOMAIN worklist /\ Top.node = Node(d) /\ Top.state = State(d)
      /\ Top.block = worklist[d].block
    BY <1>1, Positions
<1>3. Testing(d) /\ Opens(d) /\ Nested(d)
    BY <1>1, <1>2 DEF Testing, Kind, Node, Opens, RegionInv, Regions
<1>4. Floor(d) = top[Top.node] /\ Spare(d) = {}
    BY <1>1, <1>2, <1>3 DEF Floor, Spare, Testing
<1>5. Node(d)' = Top.node /\ Floor(d)' = NextBlock
    BY DEF Fresh
<1>6. Top.block < top[Top.node] /\ top[Top.node] \in Blocks /\ Top.block \in Blocks
    <2>1. Top.block \in Outer(d)
        BY <1>2 DEF Outer
    <2>2. Floor(d) \in Blocks
        BY <1>2, <1>3, UsesTyped
    <2>. QED
        BY <1>1, <1>3, <1>4, <2>1, <2>2, TopUses DEF Nested
<1>7. Blocks = 0..(NextBlock - 1) /\ NextBlock \in Nat
    BY DEF IInv, CodeInv
<1>8. PICK t, n, e : t = top[Top.node] /\ n = NextBlock /\ e = Top.block
    OBVIOUS
<1>9. /\ t..(n - 1) = {b \in 0..(n - 1) : b >= t}
      /\ e \notin t..(n - 1)
    BY <1>6, <1>7, <1>8
<1>10. Inside(d) = t..(n - 1)
    BY <1>4, <1>7, <1>8, <1>9 DEF Inside
<1>11. Condition(d)' = t..(n - 1)
    BY <1>1, <1>5, <1>8 DEF Condition
<1>12. SuccFrom(Top.block)
    BY TurnSucc
<1>13. \A c \in t..(n - 1) : c \in Blocks /\ c # e /\ Elements(succ[c]) \subseteq t..(n - 1)
    BY <1>3, <1>9, <1>10 DEF Nested, Inside
<1>14. \A c \in t..(n - 1) : Elements(succ'[c]) \subseteq t..(n - 1)
    BY <1>8, <1>12, <1>13 DEF SuccFrom, Elements
<1>. QED
    BY <1>11, <1>14 DEF Enclosed

-----------------------------------------------------------------------------
(* Where a walk begins. *)

\* It comes to blocks of S, which nothing leads out of, and jumps into T.
LEMMA AheadStarts ==
    ASSUME NEW S \in SUBSET Blocks', NEW T \in SUBSET Blocks', NEW j \in T,
           S \cap T = {},
           \A b \in T : Elements(succ'[b]) \subseteq T,
           \A b \in S : Elements(succ'[b]) \subseteq S,
           \A w \in DOMAIN walk' : walk'[w].do \in {"phi", "jump", "link"} =>
              walk'[w].jump = j /\ walk'[w].block \in S
    PROVE  Ahead'
<1>1. Onward(S, T)'
    BY DEF Onward, Linking, Enclosed
<1>. QED
    BY <1>1 DEF Ahead

\* A turn after which no walk adds successors.
LEMMA NoWalkAhead ==
    ASSUME \A w \in DOMAIN walk' : walk'[w].do \notin {"phi", "jump", "link"}
    PROVE  Ahead'
<1>1. Onward({}, {})'
    BY DEF Onward, Linking, Enclosed
<1>. QED
    BY <1>1 DEF Ahead

\* The body of a loop goes back to the condition.
LEMMA LoopAhead ==
    ASSUME IInv, IInv', RegionInv, PathInv, GenWhileLoop
    PROVE  Ahead'
<1>1. /\ worklist # <<>> /\ walk = <<>>
      /\ ast[Top.node].kind = "WHILE" /\ Top.state = 2
      /\ UNCHANGED <<code, succ>>
    BY DEF GenWhileLoop, Turn
<1>2. PICK d : d = Depth
    OBVIOUS
<1>3. /\ d \in DOMAIN worklist /\ Opens(d) /\ Nested(d) /\ Holding(d)
      /\ ~Testing(d) /\ State(d) = 2 /\ Kind(d) = "WHILE" /\ Node(d) = Top.node
      /\ HeldInstr(Top.node).blks = HeldBlocks(d)
    BY <1>1, <1>2, TopOpened
<1>4. Bounded(d)
    BY <1>3 DEF PathInv
<1>. DEFINE f == Frame("jump", Top.node, HeldBlocks(d)[1], top[Top.node], 0, NoId)
            g == Frame("rewrite", Top.node, Top.block, HeldBlocks(d)[2], 0, NoId)
<1>5. walk' = <<f, g>>
    BY <1>3 DEF GenWhileLoop
<1>6. f.block = Floor(d) /\ f.jump = top[Top.node] /\ g.do = "rewrite"
    BY <1>3 DEF Frame, Floor
<1>. HIDE DEF f, g
<1>7. DOMAIN walk' = {1, 2} /\ walk'[1] = f /\ walk'[2] = g
    BY <1>5
<1>8. PICK S, T, j : S = Inside(d) /\ T = Condition(d) /\ j = top[Top.node]
    OBVIOUS
<1>9. S \subseteq Blocks /\ Floor(d) \in S /\ \A b \in S : Elements(succ[b]) \subseteq S
    BY <1>3, <1>8 DEF Nested, Inside
<1>10. /\ T \subseteq Blocks /\ j \in T /\ S \cap T = {}
       /\ \A b \in T : Elements(succ[b]) \subseteq T
    BY <1>3, <1>4, <1>8, ConditionTyped DEF Bounded, Enclosed
<1>11. S \in SUBSET Blocks' /\ T \in SUBSET Blocks'
    BY <1>1, <1>9, <1>10, NothingWritten
<1>12. \A w \in DOMAIN walk' : walk'[w].do \in {"phi", "jump", "link"} =>
          walk'[w].jump = j /\ walk'[w].block \in S
    BY <1>6, <1>7, <1>8, <1>9
<1>. QED
    BY <1>1, <1>9, <1>10, <1>11, <1>12, AheadStarts

\* The paths of AND and OR go on in the join, which leads nowhere yet.
LEMMA ShortCircuitAhead ==
    ASSUME IInv, IInv', RegionInv, PathInv, GenShortCircuitMerge
    PROVE  Ahead'
<1>1. /\ worklist # <<>> /\ walk = <<>>
      /\ ast[Top.node].kind \in {"AND", "OR"} /\ Top.state = 2 /\ succ' = succ
    BY DEF GenShortCircuitMerge, Turn
<1>2. PICK d : d = Depth
    OBVIOUS
<1>3. /\ d \in DOMAIN worklist /\ Opens(d) /\ Nested(d) /\ Holding(d)
      /\ ~Testing(d) /\ State(d) = 2 /\ Kind(d) = ast[Top.node].kind
      /\ HeldInstr(Top.node).blks = HeldBlocks(d)
    BY <1>1, <1>2, TopOpened
<1>4. Bounded(d)
    BY <1>3 DEF PathInv
<1>. DEFINE eval == Evaluated(Top.node)
            merge == Merged(Top.node)
            f == Frame("phi", Top.node, eval, merge, Len(code[merge]) + 1, KidResult(Top.node, 2))
            g == Frame("link", Top.node, eval, merge, 0, NoId)
            h == Frame("rewrite", Top.node, Top.block, merge, 0, NoId)
<1>5. walk' = <<f, g, h>>
    BY DEF GenShortCircuitMerge
<1>6. /\ f.block = eval /\ f.jump = merge /\ g.block = eval /\ g.jump = merge
      /\ h.do = "rewrite"
    BY DEF Frame
<1>7. eval = Floor(d) /\ merge \in Spare(d)
    <2>1. /\ eval = HeldBlocks(d)[IF Kind(d) = "OR" THEN 2 ELSE 1]
          /\ merge = HeldBlocks(d)[IF Kind(d) = "OR" THEN 1 ELSE 2]
        BY <1>1, <1>3 DEF Evaluated, Merged
    <2>. QED
        BY <1>1, <1>3, <2>1 DEF Floor, Spare
<1>. HIDE DEF f, g, h, eval, merge
<1>8. DOMAIN walk' = {1, 2, 3} /\ walk'[1] = f /\ walk'[2] = g /\ walk'[3] = h
    BY <1>5
<1>9. PICK S, T : S = Inside(d) /\ T = {merge}
    OBVIOUS
<1>10. S \subseteq Blocks /\ eval \in S /\ \A b \in S : Elements(succ[b]) \subseteq S
    BY <1>3, <1>7, <1>9 DEF Nested, Inside
<1>11. merge \in Blocks /\ S \cap T = {} /\ \A b \in T : Elements(succ[b]) = {}
    <2>1. Spare(d) \subseteq Blocks /\ succ[merge] = <<>>
        BY <1>3, <1>4, <1>7, UsesTyped DEF Bounded
    <2>. QED
        BY <1>7, <1>9, <2>1 DEF Inside, Elements
<1>12. S \in SUBSET Blocks' /\ T \in SUBSET Blocks' /\ merge \in T
    <2>1. DOMAIN succ' = Blocks' /\ DOMAIN succ = Blocks
        BY DEF IInv, FlowOK
    <2>. QED
        BY <1>1, <1>9, <1>10, <1>11, <2>1
<1>13. \A w \in DOMAIN walk' : walk'[w].do \in {"phi", "jump", "link"} =>
          walk'[w].jump = merge /\ walk'[w].block \in S
    BY <1>6, <1>8, <1>10
<1>14. /\ \A b \in T : Elements(succ'[b]) \subseteq T
       /\ \A b \in S : Elements(succ'[b]) \subseteq S
    BY <1>1, <1>10, <1>11
<1>. QED
    BY <1>11, <1>12, <1>13, <1>14, AheadStarts

\* Those of IF go on in a new block.
LEMMA IfAhead ==
    ASSUME IInv, IInv', RegionInv, PathInv, GenIfMerge
    PROVE  Ahead'
<1>1. /\ worklist # <<>> /\ walk = <<>>
      /\ ast[Top.node].kind = "IF" /\ Top.state = 2 /\ succ' = Grown(succ, 1)
    BY DEF GenIfMerge, Turn
<1>2. PICK d : d = Depth
    OBVIOUS
<1>3. /\ d \in DOMAIN worklist /\ Opens(d) /\ Nested(d)
      /\ ~Testing(d) /\ State(d) = 2 /\ Kind(d) = "IF"
      /\ HeldInstr(Top.node).blks = HeldBlocks(d)
      /\ Elements(HeldBlocks(d)) = Inner(d) /\ Inner(d) \subseteq Uses(Depth)
      /\ 1 \in DOMAIN HeldBlocks(d) /\ 2 \in DOMAIN HeldBlocks(d)
    BY <1>1, <1>2, TopOpened
<1>. DEFINE then == HeldBlocks(d)[1]
            else == HeldBlocks(d)[2]
            merge == NextBlock
            f1 == Frame("phi", Top.node, then, merge, 1, KidResult(Top.node, 2))
            f2 == Frame("phi", Top.node, else, merge, 1, KidResult(Top.node, 3))
            g1 == Frame("link", Top.node, then, merge, 0, NoId)
            g2 == Frame("link", Top.node, else, merge, 0, NoId)
            h == Frame("rewrite", Top.node, Top.block, merge, 1, NoId)
<1>4. walk' = <<f1, f2, g1, g2, h>>
    BY <1>3 DEF GenIfMerge
<1>5. /\ f1.block = then /\ f1.jump = merge /\ f2.block = else /\ f2.jump = merge
      /\ g1.block = then /\ g1.jump = merge /\ g2.block = else /\ g2.jump = merge
      /\ h.do = "rewrite"
    BY DEF Frame
<1>6. then \in Inside(d) /\ else \in Inside(d)
    <2>1. then = Floor(d) /\ Spare(d) = {}
        BY <1>3 DEF Floor, Spare
    <2>2. then \in Inner(d) /\ else \in Inner(d)
        BY <1>3 DEF Elements
    <2>3. else >= Floor(d) /\ else \in Blocks
        BY <1>1, <1>3, <2>2, TopUses DEF Nested
    <2>. QED
        BY <1>3, <2>1, <2>2, <2>3 DEF Nested, Inside
<1>7. NextBlock \in Nat /\ Blocks = 0..(NextBlock - 1) /\ merge \notin Blocks
    BY DEF IInv, CodeInv
<1>8. /\ \A c \in Blocks : succ'[c] = succ[c]
      /\ succ'[merge] = <<>> /\ merge \in DOMAIN succ' /\ Blocks \subseteq DOMAIN succ'
    BY <1>1, <1>7 DEF Grown
<1>. HIDE DEF f1, f2, g1, g2, h, then, else, merge
<1>9. /\ DOMAIN walk' = {1, 2, 3, 4, 5}
      /\ walk'[1] = f1 /\ walk'[2] = f2 /\ walk'[3] = g1 /\ walk'[4] = g2 /\ walk'[5] = h
    BY <1>4
<1>10. PICK S, T : S = Inside(d) /\ T = {merge}
    OBVIOUS
<1>11. S \subseteq Blocks /\ \A b \in S : Elements(succ[b]) \subseteq S
    BY <1>3, <1>10 DEF Nested, Inside
<1>12. S \in SUBSET Blocks' /\ T \in SUBSET Blocks' /\ merge \in T /\ S \cap T = {}
    <2>1. DOMAIN succ' = Blocks'
        BY DEF IInv, FlowOK
    <2>. QED
        BY <1>7, <1>8, <1>10, <1>11, <2>1
<1>13. \A w \in DOMAIN walk' : walk'[w].do \in {"phi", "jump", "link"} =>
          walk'[w].jump = merge /\ walk'[w].block \in S
    BY <1>5, <1>6, <1>9, <1>10
<1>14. /\ \A b \in T : Elements(succ'[b]) \subseteq T
       /\ \A b \in S : Elements(succ'[b]) \subseteq S
    BY <1>8, <1>10, <1>11 DEF Elements
<1>. QED
    BY <1>12, <1>13, <1>14, AheadStarts

\* A turn keeps the paths.
LEMMA TurnPath ==
    ASSUME IInv, IInv', RegionInv, PathInv,
           \/ GenLiteral \/ GenIdentifier \/ GenNullary \/ GenSchedule
           \/ GenUnary \/ GenBinary \/ GenSlice \/ GenDump \/ GenExpr \/ GenAssign
           \/ GenCall \/ GenBlockEnter \/ GenBlockLeave
           \/ GenShortCircuit \/ GenShortCircuitMerge \/ GenIfBranch \/ GenIfMerge
           \/ GenWhileEnter \/ GenWhileBranch \/ GenWhileLoop
    PROVE  PathInv'
<1>1. /\ worklist # <<>> /\ walk = <<>> /\ SuccFrom(Top.block)
      /\ Turned /\ Fresh /\ Top.block \in Blocks /\ Top.block \in Uses(Depth)
    BY TurnSucc, TurnsKeep, TopUses DEF TurnStep
<1>2. Acyclic'
    <2>1. Blocks \subseteq Blocks'
        BY <1>1 DEF Turned, Stays
    <2>. QED
        BY <1>1, <2>1, NewAfter DEF PathInv
<1>3. PICK d : d = Depth
    OBVIOUS
<1>4. d \in Nat /\ d >= 1
    BY <1>1, <1>3, Positions
<1>5. ASSUME NEW i \in DOMAIN worklist', Holding(i)'
      PROVE  Bounded(i)'
    <2>1. i \in Nat /\ i >= 1
        BY PositionsNext
    <2>2. CASE i < d
        <3>1. i \in 1..(Depth - 1)
            BY <1>3, <1>4, <2>1, <2>2
        <3>2. i \in DOMAIN worklist
            BY <1>1, <3>1, TurnViews
        <3>3. \A c \in Blocks : c # Top.block => succ'[c] = succ[c]
            BY <1>1 DEF SuccFrom
        <3>4. Holding(i) => Bounded(i)
            BY <3>2 DEF PathInv
        <3>. QED
            BY <1>1, <1>5, <3>1, <3>3, <3>4, TurnBounded
    <2>3. CASE i = d
        <3>1. \A c \in New : succ'[c] = <<>>
            BY <1>1 DEF SuccFrom
        <3>2. ASSUME Kind(d)' = "WHILE"
              PROVE  Enclosed(Condition(d))'
            <4>1. Node(d)' = Top.node /\ ast' = ast
                BY <1>1, <1>3, <1>5, <2>3 DEF Fresh, Turned
            <4>2. State(d)' = 2 /\ ast[Top.node].kind = "WHILE"
                BY <1>5, <2>3, <3>2, <4>1 DEF Holding, Kind, Node
            <4>3. GenWhileBranch
                <5>1. CASE GenWhileEnter
                    <6>1. worklist' = Rest \o <<Item(Top.node, Top.block, 1),
                                                Item(Kid(Top.node, 1), NextBlock, 0)>>
                        BY <5>1 DEF GenWhileEnter
                    <6>. DEFINE s == <<Item(Top.node, Top.block, 1),
                                       Item(Kid(Top.node, 1), NextBlock, 0)>>
                    <6>2. s \in Seq({s[1], s[2]}) /\ Len(s) >= 1
                        OBVIOUS
                    <6>3. s[1].state = 1
                        BY DEF Item
                    <6>. HIDE DEF s
                    <6>4. worklist'[d] = s[1]
                        BY <1>1, <1>3, <6>1, <6>2, FirstPushed DEF s
                    <6>. QED
                        BY <4>2, <6>3, <6>4 DEF State
                <5>2. CASE GenWhileLoop
                    <6>1. worklist' = Rest
                        BY <5>2 DEF GenWhileLoop
                    <6>2. DOMAIN worklist' = 1..(d - 1)
                        BY <1>1, <1>3, <6>1, Popped
                    <6>. QED
                        BY <1>4, <1>5, <2>3, <6>2
                <5>. QED
                    BY <4>2, <5>1, <5>2
                    DEF GenLiteral, GenIdentifier, GenNullary, GenSchedule, GenUnary,
                        GenBinary, GenSlice, GenDump, GenExpr, GenAssign, GenCall,
                        GenBlockEnter, GenBlockLeave, GenShortCircuit,
                        GenShortCircuitMerge, GenIfBranch, GenIfMerge, Operator, Turn,
                        LiteralKinds, NullaryKinds, UnaryKinds, BinaryKinds
            <4>. QED
                BY <1>1, <1>3, <1>5, <2>3, <4>3, ConditionEnclosed
        <3>. QED
            BY <1>1, <1>3, <1>5, <2>3, <3>1, <3>2, TopBounded
    <2>4. CASE i > d
        <3>1. State(i)' = 0
            BY <1>1, <1>3, <2>4 DEF Fresh
        <3>. QED
            BY <1>5, <3>1 DEF Holding
    <2>. QED
        BY <1>4, <2>1, <2>2, <2>3, <2>4
<1>6. Ahead'
    <2>1. CASE GenWhileLoop \/ GenShortCircuitMerge \/ GenIfMerge
        BY <2>1, LoopAhead, ShortCircuitAhead, IfAhead
    <2>2. CASE GenBlockLeave
        <3>. DEFINE f == Frame("return", Top.node, HeldInstr(Top.node).blks[1], NoBlock, 0,
                               KidResult(Top.node, 1))
        <3>1. walk' = <<f>> /\ f.do = "return"
            BY <2>2 DEF GenBlockLeave, Frame
        <3>. HIDE DEF f
        <3>2. \A w \in DOMAIN walk' : walk'[w].do \notin {"phi", "jump", "link"}
            BY <3>1
        <3>. QED
            BY <3>2, NoWalkAhead
    <2>3. CASE walk' = <<>>
        BY <2>3, NoWalkAhead
    <2>. QED
        BY <1>1, <2>1, <2>2, <2>3
        DEF GenLiteral, GenIdentifier, GenNullary, GenSchedule, GenUnary, GenBinary,
            GenSlice, GenDump, GenExpr, GenAssign, GenCall, GenBlockEnter,
            GenShortCircuit, GenIfBranch, GenWhileEnter, GenWhileBranch, Operator
<1>. QED
    BY <1>2, <1>5, <1>6 DEF PathInv

-----------------------------------------------------------------------------
(* The steps of a walk. *)

\* What such a step does to the successors.
LEMMA WalkSucc ==
    ASSUME IInv, RegionInv, WalkJump \/ WalkReturn \/ WalkDescend \/ WalkSkip \/ WalkLink
    PROVE  \/ succ' = succ
           \/ /\ Call.do = "link" \/ (Call.do \in {"phi", "jump"} /\ Call.block # Call.jump)
              /\ succ' = [succ EXCEPT ![Call.block] = Append(@, Call.jump)]
    BY DEF WalkJump, WalkReturn, WalkDescend, WalkSkip, WalkLink, Walking

\* It is done in a region of every item that has opened one.
LEMMA WalkBounded ==
    ASSUME IInv, RegionInv, PathInv,
           WalkJump \/ WalkReturn \/ WalkDescend \/ WalkSkip \/ WalkLink,
           NEW i \in DOMAIN worklist', Holding(i)'
    PROVE  Bounded(i)'
<1>1. Walked
    BY WalksKeep DEF WalkStep
<1>2. i \in DOMAIN worklist /\ top' = top /\ ast' = ast /\ worklist' = worklist
    BY <1>1 DEF Walked
<1>3. /\ Node(i)' = Node(i) /\ Holding(i)
      /\ Opens(i) => Floor(i)' = Floor(i) /\ Spare(i)' = Spare(i)
    BY <1>1, <1>2, WalkedViews
<1>4. Kind(i)' = Kind(i) /\ Opens(i)
    BY <1>2, <1>3 DEF Kind, Opens
<1>5. walk # <<>> /\ 1 \in DOMAIN walk /\ Call = walk[1]
    BY <1>1, Frames DEF Walked
<1>6. Call.block \in Inside(i)
    BY <1>2, <1>4, <1>5 DEF RegionInv, Regions, Nested
<1>7. \A c \in Blocks : c # Call.block => succ'[c] = succ[c]
    BY <1>1 DEF Walked
<1>8. Bounded(i)
    BY <1>2, <1>3 DEF PathInv
<1>9. top'[Node(i)] = top[Node(i)]
    BY <1>2
<1>. QED
    BY <1>2, <1>3, <1>4, <1>6, <1>7, <1>8, <1>9, BoundedKept

\* The frames that are left, and those for the successors, go the same way.
LEMMA WalkPath ==
    ASSUME IInv, RegionInv, PathInv,
           WalkJump \/ WalkReturn \/ WalkDescend \/ WalkSkip \/ WalkLink
    PROVE  PathInv'
<1>1. Walked
    BY WalksKeep DEF WalkStep
<1>2. /\ walk # <<>> /\ Blocks' = Blocks
      /\ \A w \in DOMAIN walk' : \E v \in DOMAIN walk :
          /\ walk'[w].do = walk[v].do /\ walk'[w].jump = walk[v].jump
          /\ \/ walk'[w].block = walk[v].block
             \/ /\ v = 1 /\ Call.do \in Walks /\ Call.block # Call.jump
                /\ walk'[w].block \in Elements(succ[Call.block])
    BY <1>1 DEF Walked
<1>3. 1 \in DOMAIN walk /\ Call = walk[1] /\ Call.block \in Blocks
    BY <1>2, Frames
<1>4. OneCall
    BY DEF RegionInv
<1>5. PICK S \in SUBSET Blocks, T \in SUBSET Blocks : Onward(S, T)
    BY DEF PathInv, Ahead
<1>6. /\ S \cap T = {} /\ Enclosed(T)
      /\ \A w \in DOMAIN walk : Linking(w) =>
            /\ walk[w].jump \in T
            /\ walk[w].block \in S \cup {walk[w].jump}
            /\ walk[w].do = "link" => walk[w].block \in S
      /\ \A w \in DOMAIN walk : walk[w].do \in {"phi", "jump"} =>
            \A b \in S : Elements(succ[b]) \subseteq S \cup {walk[w].jump}
    BY <1>5 DEF Onward
<1>7. ASSUME NEW w \in DOMAIN walk', Linking(w)'
      PROVE  /\ walk'[w].jump \in T
             /\ walk'[w].block \in S \cup {walk'[w].jump}
             /\ walk'[w].do = "link" => walk'[w].block \in S
    <2>1. PICK v \in DOMAIN walk :
             /\ walk'[w].do = walk[v].do /\ walk'[w].jump = walk[v].jump
             /\ \/ walk'[w].block = walk[v].block
                \/ /\ v = 1 /\ Call.do \in Walks /\ Call.block # Call.jump
                   /\ walk'[w].block \in Elements(succ[Call.block])
        BY <1>2
    <2>2. Linking(v)
        BY <1>7, <2>1 DEF Linking
    <2>3. /\ walk[v].jump \in T /\ walk[v].block \in S \cup {walk[v].jump}
          /\ walk[v].do = "link" => walk[v].block \in S
        BY <1>6, <2>2
    <2>4. CASE walk'[w].block = walk[v].block
        BY <2>1, <2>3, <2>4
    <2>5. CASE /\ v = 1 /\ Call.do \in Walks /\ Call.block # Call.jump
               /\ walk'[w].block \in Elements(succ[Call.block])
        <3>1. walk[v].do \in {"phi", "jump"} /\ Call.block \in S
            BY <1>3, <2>2, <2>3, <2>5 DEF Linking, Walks
        <3>2. Elements(succ[Call.block]) \subseteq S \cup {walk[v].jump}
            BY <1>6, <3>1
        <3>. QED
            BY <2>1, <2>3, <2>5, <3>1, <3>2
    <2>. QED
        BY <2>1, <2>4, <2>5
<1>8. ASSUME NEW w \in DOMAIN walk', walk'[w].do \in {"phi", "jump"}
      PROVE  /\ \A b \in S : Elements(succ[b]) \subseteq S \cup {walk'[w].jump}
             /\ Call.do \in {"phi", "jump"} /\ Call.jump = walk'[w].jump
    <2>1. PICK v \in DOMAIN walk :
             walk'[w].do = walk[v].do /\ walk'[w].jump = walk[v].jump
        BY <1>2
    <2>2. Walker(v)
        BY <1>8, <2>1 DEF Walker, Walks
    <2>3. v \in Nat /\ (v = 1 \/ 1 < v)
        BY <1>2, Frames
    <2>4. Walker(1)
        BY <1>3, <1>4, <2>2, <2>3 DEF OneCall
    <2>5. walk[1].do = walk[v].do /\ walk[1].jump = walk[v].jump
        BY <1>3, <1>4, <2>2, <2>4 DEF OneCall
    <2>6. \A b \in S : Elements(succ[b]) \subseteq S \cup {walk[v].jump}
        BY <1>6, <1>8, <2>1
    <2>. QED
        BY <1>3, <1>8, <2>1, <2>5, <2>6
<1>9. CASE succ' = succ
    <2>1. Acyclic'
        BY <1>2, <1>9, SameAfter DEF PathInv
    <2>2. Enclosed(T)'
        BY <1>6, <1>9 DEF Enclosed, Elements
    <2>3. \A w \in DOMAIN walk' : walk'[w].do \in {"phi", "jump"} =>
             \A b \in S : Elements(succ'[b]) \subseteq S \cup {walk'[w].jump}
        BY <1>8, <1>9
    <2>4. Onward(S, T)'
        BY <1>6, <1>7, <2>2, <2>3 DEF Onward
    <2>5. Ahead'
        BY <1>2, <2>4 DEF Ahead
    <2>. QED
        BY <2>1, <2>5, WalkBounded DEF PathInv
<1>10. CASE /\ Call.do = "link" \/ (Call.do \in {"phi", "jump"} /\ Call.block # Call.jump)
            /\ succ' = [succ EXCEPT ![Call.block] = Append(@, Call.jump)]
    <2>1. Linking(1)
        BY <1>3, <1>10 DEF Linking
    <2>2. Call.jump \in T /\ Call.block \in S
        BY <1>3, <1>6, <1>10, <2>1
    <2>3. Call.block \in Blocks \ T
        BY <1>6, <2>2
    <2>4. Call.jump \in Blocks
        BY <2>2
    <2>5. /\ \A c \in Blocks : c # Call.block => succ'[c] = succ[c]
          /\ Elements(succ'[Call.block]) \subseteq Elements(succ[Call.block]) \cup {Call.jump}
        BY <1>3, <1>10, <2>4, SuccAdded
    <2>6. Acyclic' /\ Enclosed(T)'
        BY <1>2, <1>6, <2>2, <2>3, <2>5, EdgeAfter DEF PathInv
    <2>7. ASSUME NEW w \in DOMAIN walk', walk'[w].do \in {"phi", "jump"},
                 NEW b \in S
          PROVE  Elements(succ'[b]) \subseteq S \cup {walk'[w].jump}
        <3>1. /\ Elements(succ[b]) \subseteq S \cup {walk'[w].jump}
              /\ Call.jump = walk'[w].jump
            BY <1>8, <2>7
        <3>2. CASE b = Call.block
            BY <2>5, <3>1, <3>2
        <3>3. CASE b # Call.block
            BY <2>5, <3>1, <3>3 DEF Elements
        <3>. QED
            BY <3>2, <3>3
    <2>8. Onward(S, T)'
        BY <1>6, <1>7, <2>6, <2>7 DEF Onward
    <2>9. Ahead'
        BY <1>2, <2>8 DEF Ahead
    <2>. QED
        BY <2>6, <2>9, WalkBounded DEF PathInv
<1>. QED
    BY <1>9, <1>10, WalkSucc

\* A rewrite moves what is on the worklist, and no successor.
LEMMA RewritePath ==
    ASSUME IInv, RegionInv, PathInv, WalkRewrite
    PROVE  PathInv'
<1>1. /\ walk # <<>> /\ walk' = Tail(walk) /\ DOMAIN worklist' = DOMAIN worklist
      /\ UNCHANGED <<ast, code, succ, held, top>>
    BY DEF WalkRewrite, Walking
<1>2. Blocks' = Blocks /\ Stays
    BY <1>1, NothingWritten
<1>3. Acyclic'
    BY <1>1, <1>2, SameAfter DEF PathInv
<1>4. ASSUME NEW i \in DOMAIN worklist', Holding(i)'
      PROVE  Bounded(i)'
    <2>1. i \in DOMAIN worklist
        BY <1>1
    <2>2. Node(i)' = Node(i) /\ State(i)' = State(i)
        BY <2>1, RewriteUses
    <2>3. worklist'[i].node = worklist[i].node /\ worklist'[i].state = worklist[i].state
        BY <2>2 DEF Node, State
    <2>4. /\ Holding(i) /\ Kind(i)' = Kind(i)
          /\ Opens(i) => Floor(i)' = Floor(i) /\ Spare(i)' = Spare(i)
        BY <1>1, <1>2, <1>4, <2>1, <2>3, ViewKept
    <2>5. Opens(i) /\ Bounded(i)
        BY <2>1, <2>4 DEF Opens, PathInv
    <2>. QED
        BY <1>1, <2>2, <2>4, <2>5 DEF Bounded, Condition, Enclosed, Elements
<1>5. Ahead'
    <2>1. PICK S \in SUBSET Blocks, T \in SUBSET Blocks : Onward(S, T)
        BY DEF PathInv, Ahead
    <2>2. \A w \in DOMAIN walk' : w + 1 \in DOMAIN walk /\ walk'[w] = walk[w + 1]
        BY <1>1, Frames
    <2>3. Onward(S, T)'
        BY <1>1, <2>1, <2>2 DEF Onward, Linking, Enclosed, Elements
    <2>. QED
        BY <1>2, <2>3 DEF Ahead
<1>. QED
    BY <1>3, <1>4, <1>5 DEF PathInv

-----------------------------------------------------------------------------
(* The invariant. *)

\* There is one block, and nothing follows it.
LEMMA InitPath == Init => PathInv
<1>. SUFFICES ASSUME Init PROVE PathInv
    OBVIOUS
<1>1. /\ worklist = <<Item(1, 0, 0)>> /\ walk = <<>>
      /\ DOMAIN worklist = {1} /\ worklist[1] = Item(1, 0, 0)
      /\ DOMAIN walk = {}
    BY DEF Init
<1>2. State(1) = 0
    BY <1>1 DEF State, Item
<1>3. \A i \in DOMAIN worklist : ~Holding(i)
    BY <1>1, <1>2 DEF Holding
<1>4. \A b \in Blocks : succ[b] = <<>>
    <2>1. Blocks = 0..0
        BY DEF Init, Blocks
    <2>2. succ = [b \in 0..0 |-> <<>>]
        BY DEF Init
    <2>. QED
        BY <2>1, <2>2
<1>5. \A b \in Blocks : After(b, {})
    BY <1>4 DEF After, Enclosed, Elements
<1>6. Onward({}, {})
    BY <1>1 DEF Onward, Enclosed
<1>. QED
    BY <1>3, <1>5, <1>6 DEF PathInv, Acyclic, Ahead

\* Stuttering.
LEMMA SamePath == IInv /\ PathInv /\ UNCHANGED vars => PathInv'
<1>. SUFFICES ASSUME IInv, PathInv, UNCHANGED vars PROVE PathInv'
    OBVIOUS
<1>1. UNCHANGED <<ast, worklist, walk, code, succ, closed, held, nodeBlock, top>>
    BY DEF vars
<1>2. Stays /\ Blocks' = Blocks
    BY <1>1, NothingWritten
<1>3. Acyclic'
    BY <1>1, <1>2, SameAfter DEF PathInv
<1>4. ASSUME NEW i \in DOMAIN worklist', Holding(i)'
      PROVE  Bounded(i)'
    <2>1. /\ i \in DOMAIN worklist /\ Holding(i)
          /\ Node(i)' = Node(i) /\ Kind(i)' = Kind(i)
          /\ Opens(i) => Floor(i)' = Floor(i) /\ Spare(i)' = Spare(i)
        BY <1>1, <1>2, <1>4, ViewKept
    <2>2. Opens(i) /\ Bounded(i)
        BY <2>1 DEF Opens, PathInv
    <2>. QED
        BY <1>1, <2>1, <2>2 DEF Bounded, Condition, Enclosed, Elements
<1>5. Ahead'
    <2>1. PICK S \in SUBSET Blocks, T \in SUBSET Blocks : Onward(S, T)
        BY DEF PathInv, Ahead
    <2>2. Onward(S, T)'
        BY <1>1, <2>1 DEF Onward, Linking, Enclosed, Elements
    <2>. QED
        BY <1>2, <2>2 DEF Ahead
<1>. QED
    BY <1>3, <1>4, <1>5 DEF PathInv

\* Every step keeps the paths.
LEMMA NextPath == IInv /\ IInv' /\ RegionInv /\ PathInv /\ [Next]_vars => PathInv'
<1>. SUFFICES ASSUME IInv, IInv', RegionInv, PathInv, [Next]_vars PROVE PathInv'
    OBVIOUS
<1>1. CASE Next /\ ~UNCHANGED vars
    <2>1. Generate
        BY <1>1 DEF Next, Return
    <2>2. CASE WalkJump \/ WalkReturn \/ WalkDescend \/ WalkSkip \/ WalkLink
        BY <2>2, WalkPath
    <2>3. CASE WalkRewrite
        BY <2>3, RewritePath
    <2>4. CASE ~(WalkJump \/ WalkReturn \/ WalkDescend \/ WalkSkip \/ WalkLink
                 \/ WalkRewrite)
        BY <2>1, <2>4, TurnPath DEF Generate
    <2>. QED
        BY <2>2, <2>3, <2>4
<1>2. CASE UNCHANGED vars
    BY <1>2, SamePath
<1>. QED
    BY <1>1, <1>2

\* Every block has a set of blocks after it that it is not in, in every state
\* of the generator: what a walk is to come to is bounded.
THEOREM PathsAlways == Spec => []PathInv
    BY NextPath, InitPath, InitIInv, Invariance, RegionsAlways, PTL DEF Spec

-----------------------------------------------------------------------------
(* What the blocks reach. *)

\* r is the function that SuccessorsAcyclic defines: r[k] is what a path of at
\* most k + 1 edges of s leads to from b, for k up to n.
IsReach(r, s, b, n) ==
    r = [k \in 0..n |->
            IF k = 0 THEN {s[b][i] : i \in DOMAIN s[b]}
            ELSE LET near == r[k - 1]
                 IN  near \cup UNION {{s[c][i] : i \in DOMAIN s[c]} : c \in near}]

\* There is one, for every n: one more edge gives the next function.
LEMMA ReachExists ==
    ASSUME NEW n \in Nat, NEW s, NEW b
    PROVE  \E r : IsReach(r, s, b, n)
<1>. DEFINE F(r, k) ==
                IF k = 0 THEN {s[b][i] : i \in DOMAIN s[b]}
                ELSE r[k - 1] \cup
                     UNION {{s[c][i] : i \in DOMAIN s[c]} : c \in r[k - 1]}
            Good(r, m) == r = [k \in 0..m |-> F(r, k)]
            N == {m \in Nat : \E r : Good(r, m)}
<1>1. 0 \in N
    <2>. DEFINE r == [k \in {0} |-> {s[b][i] : i \in DOMAIN s[b]}]
    <2>1. 0..0 = {0}
        OBVIOUS
    <2>2. r = [k \in 0..0 |-> F(r, k)]
        BY <2>1
    <2>. QED
        BY <2>2
<1>2. ASSUME NEW m \in 1..n, m - 1 \in N
      PROVE  m \in N
    <2>1. PICK r : r = [k \in 0..(m - 1) |-> F(r, k)]
        BY <1>2
    <2>. DEFINE q == [k \in 0..m |-> IF k = m THEN F(r, m) ELSE r[k]]
    <2>2. ASSUME NEW k \in 0..m
          PROVE  F(q, k) = F(r, k)
        <3>1. CASE k = 0
            BY <3>1
        <3>2. CASE k # 0
            <4>1. k - 1 \in 0..m /\ k - 1 # m
                BY <3>2
            <4>2. q[k - 1] = r[k - 1]
                BY <4>1
            <4>. HIDE DEF q
            <4>. QED
                BY <4>2
        <3>. QED
            BY <3>1, <3>2
    <2>3. ASSUME NEW k \in 0..m
          PROVE  q[k] = F(q, k)
        <3>1. CASE k = m
            BY <3>1, <2>2
        <3>2. CASE k # m
            <4>1. k \in 0..(m - 1)
                BY <3>2
            <4>2. r[k] = F(r, k)
                <5>. HIDE DEF F
                <5>. QED
                    BY <2>1, <4>1
            <4>. HIDE DEF F
            <4>. QED
                BY <4>2, <3>2, <2>2
        <3>. QED
            BY <3>1, <3>2
    <2>. HIDE DEF F
    <2>4. q = [k \in 0..m |-> F(q, k)]
        <3>1. q = [k \in 0..m |-> q[k]]
            OBVIOUS
        <3>. HIDE DEF q
        <3>. QED
            BY <2>3, <3>1
    <2>5. Good(q, m) /\ m \in Nat
        BY <2>4
    <2>. HIDE DEF Good, q
    <2>. QED
        BY <2>5
<1>3. n \in N
    <2>. HIDE DEF N
    <2>1. 0..n \subseteq N
        BY <1>1, <1>2, UpTo
    <2>. QED
        BY <2>1
<1>4. PICK r : Good(r, n)
    BY <1>3
<1>. QED
    BY <1>4 DEF IsReach

\* It never leaves a set that nothing leads out of.
LEMMA ReachStays ==
    ASSUME NEW n \in Nat, NEW s, NEW b, NEW r, IsReach(r, s, b, n), NEW T,
           Elements(s[b]) \subseteq T, \A c \in T : Elements(s[c]) \subseteq T
    PROVE  r[n] \subseteq T
<1>. DEFINE A == {k \in Nat : r[k] \subseteq T}
<1>1. 0 \in A
    <2>1. 0 \in 0..n
        OBVIOUS
    <2>2. r[0] = {s[b][i] : i \in DOMAIN s[b]}
        BY <2>1 DEF IsReach
    <2>. QED
        BY <2>2 DEF Elements
<1>2. ASSUME NEW k \in 1..n, k - 1 \in A
      PROVE  k \in A
    <2>1. r[k] = r[k - 1] \cup UNION {{s[c][i] : i \in DOMAIN s[c]} : c \in r[k - 1]}
        <3>1. k \in 0..n /\ k # 0
            OBVIOUS
        <3>. QED
            BY <3>1 DEF IsReach
    <2>2. r[k - 1] \subseteq T
        BY <1>2
    <2>3. UNION {{s[c][i] : i \in DOMAIN s[c]} : c \in r[k - 1]} \subseteq T
        BY <2>2 DEF Elements
    <2>. QED
        BY <2>1, <2>2, <2>3
<1>3. 0..n \subseteq A
    <2>. HIDE DEF A
    <2>. QED
        BY <1>1, <1>2, UpTo
<1>. QED
    BY <1>3

\* A block that is not in the set of those after it does not reach itself.
LEMMA AcyclicReach ==
    ASSUME IInv, Acyclic
    PROVE  SuccessorsAcyclic
<1>1. NextBlock \in Nat
    BY DEF IInv, CodeInv
<1>2. ASSUME NEW b \in Blocks
      PROVE  b \notin LET reach[k \in 0..NextBlock] ==
                              IF k = 0 THEN {succ[b][i] : i \in DOMAIN succ[b]}
                              ELSE LET near == reach[k - 1]
                                   IN  near \cup
                                       UNION {{succ[c][i] : i \in DOMAIN succ[c]} :
                                                c \in near}
                       IN reach[NextBlock]
    <2>1. PICK T \in SUBSET Blocks : After(b, T)
        BY DEF Acyclic
    <2>. DEFINE reach[k \in 0..NextBlock] ==
                    IF k = 0 THEN {succ[b][i] : i \in DOMAIN succ[b]}
                    ELSE LET near == reach[k - 1]
                         IN  near \cup
                             UNION {{succ[c][i] : i \in DOMAIN succ[c]} : c \in near}
    <2>2. IsReach(reach, succ, b, NextBlock)
        <3>. DEFINE P(r) == IsReach(r, succ, b, NextBlock)
        <3>1. \E r : P(r)
            BY <1>1, ReachExists
        <3>2. reach = CHOOSE r : P(r)
            BY DEF IsReach
        <3>. HIDE DEF P, reach
        <3>3. P(reach)
            BY <3>1, <3>2, Zenon
        <3>. QED
            BY <3>3 DEF P
    <2>3. reach[NextBlock] \subseteq T
        <3>. HIDE DEF reach
        <3>. QED
            BY <1>1, <2>1, <2>2, ReachStays DEF After, Enclosed
    <2>. QED
        BY <2>1, <2>3 DEF After
<1>. QED
    BY <1>2 DEF SuccessorsAcyclic

\* The recursion of ir_successor_phi, ir_successor_jump and ir_successor_return
\* ends, whatever the tree: no block is its own successor, at any distance.
THEOREM SuccessorsStayAcyclic == Spec => []SuccessorsAcyclic
<1>1. IInv /\ PathInv => SuccessorsAcyclic
    BY AcyclicReach DEF PathInv
<1>. QED
    BY <1>1, Invariance, PathsAlways, PTL
=============================================================================
