-------------------------- MODULE IRGenControlProofs --------------------------
(***************************************************************************)
(* Proofs about where control goes and what it finds there, for every      *)
(* tree, vocabulary and argument list: ControlComplete and OperandsDefined *)
(* are invariants of Spec.                                                 *)
(*                                                                         *)
(* ControlComplete speaks of the finished code, and rests on what is so    *)
(* all the while (ControlInv).  One block at a time is left to go on in,   *)
(* in the program and in every region whose condition is generated, apart  *)
(* from those that an item or a walk has still to leave (SoleInv); every   *)
(* block of a region is one that a walk comes to when the region is left   *)
(* (FillInv); control comes from the start to where the generator is       *)
(* (CurrentInv), because a block that was left leads to the blocks that    *)
(* its item holds or to where their walks jump (RouteInv); and what leads  *)
(* from block to block stays with one owner, the program or a body         *)
(* (OwnInv).  When the worklist and the walks are empty that leaves one    *)
(* block that nothing leaves, and control comes to it.                     *)
(*                                                                         *)
(* OperandsDefined: a handler takes node->result of its arguments, which   *)
(* is uninitialized until the argument's own handler has run.  That it has *)
(* run follows from the order of the worklist: whatever an item is still   *)
(* to read is a value already, or is on the worklist above the item        *)
(* (ValueInv).                                                             *)
(***************************************************************************)
EXTENDS IRGenFlowProofs

-----------------------------------------------------------------------------
(* Where control goes. *)

\* What leads from a to d along successors, but not out of j.
Covers(a, j, d) ==
    \A T \in SUBSET Blocks :
        a \in T /\ (\A b \in T : b # j => Elements(succ[b]) \subseteq T) => d \in T

\* A walk is still to come to the block.
Awaited(d) ==
    \E w \in DOMAIN walk : /\ Walker(w) /\ d # walk[w].jump
                           /\ Covers(walk[w].block, walk[w].jump, d)

\* What leads from a to d along successors, those that are still to be added
\* among them.
Joined(T) ==
    /\ Enclosed(T)
    /\ \A w \in DOMAIN walk :
          walk[w].do = "link" /\ walk[w].block \in T => walk[w].jump \in T
Comes(a, d) == \A T \in SUBSET Blocks : a \in T /\ Joined(T) => d \in T

\* What control leads to from a.
Goes(T) == \A b \in T : Targets(code[b]) \subseteq T
Controls(a, d) == \A T \in SUBSET Blocks : a \in T /\ Goes(T) => d \in T

\* Every step: blocks and successors are added, what leaves a block stays.
Firm ==
    /\ Blocks \subseteq Blocks'
    /\ \A b \in Blocks :
          /\ Elements(succ[b]) \subseteq Elements(succ'[b])
          /\ Elements(succ[b]) \subseteq Blocks
          /\ Targets(code[b]) \subseteq Targets(code'[b])
          /\ Targets(code[b]) \subseteq Blocks
          /\ Clean(b)' => Clean(b)
          /\ ~Clean(b) => Targets(code'[b]) = Targets(code[b])

\* Every operation stays where it is.
OpsKept ==
    \A b \in Blocks : \A x \in DOMAIN code[b] :
        x \in DOMAIN code'[b] /\ code'[b][x].op = code[b][x].op

\* The first instruction that leaves a block.
LEMMA LiveAt ==
    ASSUME NEW S, NEW is \in Seq(S), NEW k \in DOMAIN is, is[k].op \in Leaving,
           \A j \in DOMAIN is : j < k => is[j].op \notin Leaving
    PROVE  Leaves(is) /\ LiveLength(is) = k
<1>1. DOMAIN is = 1..Len(is) /\ Len(is) \in Nat
    BY LenProperties
<1>2. \A l \in Nat : \A i \in 1..l : \A j \in 1..(i - 1) : j \in 1..l /\ j < i
    OBVIOUS
<1>3. Leaves(is)
    BY DEF Leaves
<1>4. \A j \in 1..(k - 1) : is[j].op \notin Leaving
    BY <1>1, <1>2
<1>5. ASSUME NEW i \in DOMAIN is, is[i].op \in Leaving,
             \A j \in 1..(i - 1) : is[j].op \notin Leaving
      PROVE  i = k
    <2>1. ~(i < k)
        BY <1>5
    <2>2. ~(k < i)
        <3>1. \A l \in Nat : \A m, n \in 1..l : m < n => m \in 1..(n - 1)
            OBVIOUS
        <3>. QED
            BY <1>1, <1>5, <3>1
    <2>. QED
        BY <1>1, <2>1, <2>2
<1>. QED
    BY <1>3, <1>4, <1>5 DEF LiveLength

\* Where it leads.
LEMMA TargetsAt ==
    ASSUME NEW S, NEW is \in Seq(S), NEW k \in DOMAIN is, is[k].op \in Leaving,
           \A j \in DOMAIN is : j < k => is[j].op \notin Leaving
    PROVE  /\ Leaves(is) /\ Exit(is) = is[k].op
           /\ Targets(is) = IF is[k].op = "RETURN" THEN {} ELSE Elements(is[k].blks)
<1>1. Leaves(is) /\ LiveLength(is) = k
    BY LiveAt
<1>2. Exit(is) = is[k].op
    BY <1>1 DEF Exit
<1>3. is[k].op \in {"BRANCH", "JUMP"} <=> is[k].op # "RETURN"
    BY DEF Leaving
<1>. QED
    BY <1>1, <1>2, <1>3 DEF Targets, Elements

\* A block that nothing leaves leads nowhere.
LEMMA NoTargets ==
    ASSUME NEW is, ~Leaves(is)
    PROVE  Targets(is) = {} /\ Exit(is) = "END"
    BY DEF Targets, Exit

\* The targets are blocks.
LEMMA TargetsTyped ==
    ASSUME IInv, CleanInv, NEW b \in Blocks
    PROVE  Targets(code[b]) \subseteq Blocks
<1>1. CASE Clean(b)
    BY <1>1, NoTargets DEF Clean
<1>2. CASE ~Clean(b)
    <2>1. PICK k \in DOMAIN code[b] : Cut(b, k)
        BY <1>2 DEF CleanInv, Tidy
    <2>2. /\ code[b] \in Seq(ReadyInstructions(Blocks))
          /\ code[b][k] \in ReadyInstructions(Blocks)
        BY BlockIsSeq DEF IInv
    <2>3. Targets(code[b]) \subseteq Elements(code[b][k].blks)
        <3>1. Targets(code[b]) = IF code[b][k].op = "RETURN" THEN {}
                                 ELSE Elements(code[b][k].blks)
            BY <2>1, <2>2, TargetsAt DEF Cut
        <3>. QED
            BY <3>1
    <2>4. code[b][k].blks \in Seq(Blocks)
        BY <2>2 DEF ReadyInstructions, Instruction
    <2>5. \A i \in DOMAIN code[b][k].blks : code[b][k].blks[i] \in Blocks
        BY <2>4, ElementOfSeq
    <2>. QED
        BY <2>3, <2>5 DEF Elements
<1>. QED
    BY <1>1, <1>2

\* The successors are blocks.
LEMMA SuccTyped ==
    ASSUME IInv, NEW b \in Blocks
    PROVE  Elements(succ[b]) \subseteq Blocks /\ (succ[b] = <<>> => Elements(succ[b]) = {})
<1>1. succ[b] \in Seq(Blocks)
    BY FlowParts
<1>. QED
    BY <1>1, ElementOfSeq DEF Elements

\* What leaves a block stays.
LEMMA FirmCode ==
    ASSUME IInv, IInv', CleanInv, Stays, OpsKept,
           \A b \in Blocks : Elements(succ[b]) \subseteq Elements(succ'[b])
    PROVE  Firm
<1>. SUFFICES ASSUME NEW b \in Blocks
              PROVE  /\ Targets(code[b]) \subseteq Targets(code'[b])
                     /\ Clean(b)' => Clean(b)
                     /\ ~Clean(b) => Targets(code'[b]) = Targets(code[b])
    BY TargetsTyped, SuccTyped DEF Firm, Stays
<1>1. Clean(b)' => Clean(b)
    BY DEF Clean, Leaves, OpsKept
<1>2. Clean(b) => Targets(code[b]) = {}
    BY NoTargets DEF Clean
<1>3. ASSUME ~Clean(b)
      PROVE  Targets(code'[b]) = Targets(code[b])
    <2>1. PICK k \in DOMAIN code[b] : Cut(b, k)
        BY <1>3 DEF CleanInv, Tidy
    <2>2. /\ code[b] \in Seq(ReadyInstructions(Blocks))
          /\ DOMAIN code[b] = 1..Len(code[b])
        BY BlockIsSeq DEF IInv
    <2>3. /\ code'[b] \in Seq(ReadyInstructions(Blocks'))
          /\ DOMAIN code'[b] = 1..Len(code'[b]) /\ Len(code'[b]) \in Nat
        <3>1. b \in Blocks' /\ code' \in [Blocks' -> Seq(ReadyInstructions(Blocks'))]
            BY DEF Stays, IInv, CodeInv, ReadyInstructions
        <3>2. code'[b] \in Seq(ReadyInstructions(Blocks'))
            BY <3>1
        <3>. QED
            BY <3>2, LenProperties
    <2>4. Targets(code[b]) = IF code[b][k].op = "RETURN" THEN {}
                             ELSE Elements(code[b][k].blks)
        BY <2>1, <2>2, TargetsAt DEF Cut
    <2>5. k \in DOMAIN code'[b] /\ code'[b][k] = code[b][k] /\ code'[b][k].op \in Leaving
        BY <2>1 DEF Cut, Stays, Leaving
    <2>6. ASSUME NEW j \in DOMAIN code'[b], j < k
          PROVE  code'[b][j].op \notin Leaving
        <3>1. j \in DOMAIN code[b]
            <4>1. \A l, m \in Nat : \A x \in 1..l, y \in 1..m : y < x => y \in 1..l
                OBVIOUS
            <4>2. Len(code[b]) \in Nat
                BY <2>2, LenProperties
            <4>. QED
                BY <2>2, <2>3, <2>6, <4>1, <4>2
        <3>. QED
            BY <2>1, <2>6, <3>1 DEF Cut, OpsKept
    <2>7. Targets(code'[b]) = IF code'[b][k].op = "RETURN" THEN {}
                              ELSE Elements(code'[b][k].blks)
        BY <2>3, <2>5, <2>6, TargetsAt
    <2>. QED
        BY <2>4, <2>5, <2>7
<1>. QED
    BY <1>1, <1>2, <1>3

\* What one block was given keeps the operations.
LEMMA WroteFirm ==
    ASSUME IInv, IInv', CleanInv, NEW e, NEW s, Wrote(e, s),
           \A b \in Blocks : Elements(succ[b]) \subseteq Elements(succ'[b])
    PROVE  Firm
<1>1. OpsKept
    <2>. SUFFICES ASSUME NEW b \in Blocks, NEW x \in DOMAIN code[b]
                  PROVE  code'[b][x].op = code[b][x].op
        BY DEF OpsKept, Wrote, Stays
    <2>1. CASE b = e
        <3>1. OldLen(e) = Len(code[e]) /\ DOMAIN code[e] = 1..Len(code[e])
            BY <2>1, BlockIsSeq DEF OldLen, IInv
        <3>. QED
            BY <2>1, <3>1 DEF Wrote
    <2>2. CASE b # e
        BY <2>2 DEF Wrote
    <2>. QED
        BY <2>1, <2>2
<1>. QED
    BY <1>1, FirmCode DEF Wrote

\* So do the steps of a walk.
LEMMA WalkFirm ==
    ASSUME IInv, IInv', CleanInv, WalkStep
    PROVE  Firm
    BY FirmCode DEF WalkStep, Walked, Behind, Follows, OpsKept

\* And those that write nothing.
LEMMA SameFirm ==
    ASSUME IInv, CleanInv, code' = code, succ' = succ
    PROVE  Firm
<1>1. Blocks' = Blocks /\ \A b \in Blocks : Clean(b)' => Clean(b)
    <2>1. Blocks' = Blocks
        BY NothingWritten
    <2>2. ASSUME NEW b \in Blocks, Clean(b)'
          PROVE  Clean(b)
        BY <2>2 DEF Clean, Leaves
    <2>. QED
        BY <2>1, <2>2
<1>2. \A b \in Blocks : Elements(succ[b]) \subseteq Elements(succ'[b])
    OBVIOUS
<1>3. \A b \in Blocks : Elements(succ[b]) \subseteq Blocks
    BY SuccTyped
<1>4. \A b \in Blocks : Targets(code[b]) \subseteq Blocks
    BY TargetsTyped
<1>. QED
    BY <1>1, <1>2, <1>3, <1>4 DEF Firm

\* Each turn does.
LEMMA PlainFirm ==
    ASSUME IInv, IInv', CleanInv, NEW d, NEW is, Quiet(d, is)
    PROVE  Firm
    BY WroteFirm DEF Quiet

\* ... that open blocks.
LEMMA OpenFirm ==
    ASSUME IInv, IInv', CleanInv, NEW d, NEW m, NEW e, NEW s, NEW is,
           Opened(d, m, e, s), Leading(d, e, is), Guides(d, e, is)
    PROVE  Firm
<1>1. \A b \in Blocks : Elements(succ[b]) \subseteq Elements(succ'[b])
    BY DEF Opened, Guides
<1>. QED
    BY <1>1, WroteFirm DEF Leading

\* ... that leave a region.
LEMMA LeaveFirm ==
    ASSUME IInv, IInv', CleanInv, NEW d, NEW m, NEW is, Closing(d, m), Meets(d, m, is)
    PROVE  Firm
    BY WroteFirm DEF Closing, Meets

\* What leads somewhere still does.
LEMMA ControlsKept ==
    ASSUME Firm, NEW a \in Blocks, NEW d, Controls(a, d)
    PROVE  Controls(a, d)'
<1>. SUFFICES ASSUME NEW T \in SUBSET Blocks', a \in T, Goes(T)'
              PROVE  d \in T
    BY DEF Controls
<1>1. Goes(T \cap Blocks)
    BY DEF Goes, Firm
<1>. QED
    BY <1>1 DEF Controls

\* Links are added or wait.
LinksKept ==
    \A w \in DOMAIN walk : walk[w].do = "link" /\ walk[w].block \in Blocks =>
        \/ walk[w].jump \in Elements(succ'[walk[w].block])
        \/ \E v \in DOMAIN walk' : walk'[v] = walk[w]

\* What leads on along successors goes on to.
LEMMA ComesKept ==
    ASSUME IInv, Firm, LinksKept, NEW a \in Blocks, NEW d, Comes(a, d)
    PROVE  Comes(a, d)'
<1>. SUFFICES ASSUME NEW T \in SUBSET Blocks', a \in T, Joined(T)'
              PROVE  d \in T
    BY DEF Comes
<1>1. Enclosed(T \cap Blocks)
    BY DEF Joined, Enclosed, Firm
<1>2. ASSUME NEW w \in DOMAIN walk, walk[w].do = "link", walk[w].block \in T \cap Blocks
      PROVE  walk[w].jump \in T \cap Blocks
    <2>1. walk[w].jump \in Blocks
        <3>1. walk[w] \in ReadyFrames
            BY ElementOfSeq DEF IInv
        <3>. QED
            BY <1>2, <3>1 DEF ReadyFrames, FrameReady
    <2>2. walk[w].jump \in T
        BY <1>2 DEF LinksKept, Joined, Enclosed
    <2>. QED
        BY <2>1, <2>2
<1>3. Joined(T \cap Blocks)
    BY <1>1, <1>2 DEF Joined
<1>. QED
    BY <1>3 DEF Comes

\* A walk that is left as it was still comes where it came.
LEMMA CoversKept ==
    ASSUME Firm, NEW a \in Blocks, NEW j, NEW d, Covers(a, j, d)
    PROVE  Covers(a, j, d)'
<1>. SUFFICES ASSUME NEW T \in SUBSET Blocks', a \in T,
                     \A b \in T : b # j => Elements(succ'[b]) \subseteq T
              PROVE  d \in T
    BY DEF Covers
<1>1. \A b \in T \cap Blocks : b # j => Elements(succ[b]) \subseteq T \cap Blocks
    BY DEF Firm
<1>. QED
    BY <1>1 DEF Covers

\* One more step.
LEMMA ControlsOn ==
    ASSUME NEW a, NEW b, NEW d, Controls(a, b), Controls(b, d)
    PROVE  Controls(a, d)
    BY DEF Controls

\* Control goes on to where an instruction leads.
LEMMA ControlsNext ==
    ASSUME NEW b, NEW d \in Targets(code[b])
    PROVE  Controls(b, d)
    BY DEF Controls, Goes

\* It starts where it is.
LEMMA ControlsSelf ==
    ASSUME NEW a
    PROVE  Controls(a, a)
    BY DEF Controls

\* A path along successors goes on to the next of them.
LEMMA ComesOn ==
    ASSUME NEW a, NEW b, NEW d \in Elements(succ[b]), Comes(a, b)
    PROVE  Comes(a, d)
    BY DEF Comes, Joined, Enclosed

\* It starts where it is.
LEMMA ComesSelf ==
    ASSUME NEW a
    PROVE  Comes(a, a)
    BY DEF Comes

\* A walk that jumps does not return.
LEMMA JumpWalks ==
    ASSUME WalkJump
    PROVE  walk # <<>> /\ Call.do \in Walks /\ Call.do # "return"
<1>1. walk # <<>> /\ Call.do \in {"phi", "jump"}
    BY DEF WalkJump, Walking
<1>. QED
    BY <1>1 DEF Walks

-----------------------------------------------------------------------------
(* The items, before and after a step. *)

\* The items below the one that has the turn, and the others.
LEMMA NextPositions ==
    ASSUME IInv, IInv', worklist # <<>>
    PROVE  /\ Depth \in Nat
           /\ \A j \in DOMAIN worklist' : j \in 1..(Depth - 1) \/ j >= Depth
           /\ \A j \in DOMAIN worklist : j \in 1..(Depth - 1) \/ j = Depth
           /\ \A j \in DOMAIN worklist' : j \in Nat /\ j >= 1
<1>1. Depth \in Nat /\ Depth >= 1 /\ DOMAIN worklist = 1..Depth
    BY Positions
<1>2. Len(worklist') \in Nat /\ DOMAIN worklist' = 1..Len(worklist')
    BY PositionsNext
<1>3. \A m, l \in Nat : \A j \in 1..l : j \in 1..(m - 1) \/ j >= m
    OBVIOUS
<1>4. \A m \in Nat : \A j \in 1..m : j \in 1..(m - 1) \/ j = m
    OBVIOUS
<1>. QED
    BY <1>1, <1>2, <1>3, <1>4

\* What lies below keeps where it is to be entered.
LEMMA BelowEntries ==
    ASSUME IInv, IInv', RegionInv, Turned, NEW i \in 1..(Depth - 1)
    PROVE  /\ Holding(i) => HeldBlocks(i)' = HeldBlocks(i)
           /\ Opens(i) => Entries(i)' = Entries(i)
<1>1. /\ i \in DOMAIN worklist /\ worklist'[i] = worklist[i]
      /\ Opens(i) => held'[Node(i)] = held[Node(i)] /\ top'[Node(i)] = top[Node(i)]
    BY TurnViews
<1>2. Stays /\ ast' = ast
    BY DEF Turned
<1>3. /\ Node(i)' = Node(i)
      /\ Testing(i)' <=> Testing(i)
      /\ Holding(i) => HeldBlocks(i)' = HeldBlocks(i)
      /\ Opens(i) => Spare(i)' = Spare(i)
    BY <1>1, <1>2, ViewKept
<1>. QED
    BY <1>1, <1>3 DEF Entries, Elements, Opens

\* And a walk leaves every item as it is.
LEMMA WalkedItems ==
    ASSUME IInv, Walked, NEW i \in DOMAIN worklist
    PROVE  /\ i \in DOMAIN worklist' /\ worklist'[i] = worklist[i]
           /\ Node(i)' = Node(i) /\ State(i)' = State(i) /\ Kind(i)' = Kind(i)
           /\ (Testing(i)' <=> Testing(i)) /\ (Opens(i)' <=> Opens(i))
           /\ Holding(i) => HeldBlocks(i)' = HeldBlocks(i)
           /\ Opens(i) => /\ Entries(i)' = Entries(i) /\ Floor(i)' = Floor(i)
                          /\ Spare(i)' = Spare(i) /\ Inside(i)' = Inside(i)
           /\ top'[Node(i)] = top[Node(i)] /\ nodeBlock'[Node(i)] = nodeBlock[Node(i)]
           /\ Uses(i)' = Uses(i)
<1>1. /\ Stays /\ ast' = ast /\ worklist' = worklist /\ held' = held
      /\ top' = top /\ nodeBlock' = nodeBlock
    BY DEF Walked
<1>2. /\ Node(i)' = Node(i) /\ State(i)' = State(i) /\ Kind(i)' = Kind(i)
      /\ Testing(i)' <=> Testing(i)
      /\ Opens(i)' <=> Opens(i)
      /\ Holding(i) => HeldBlocks(i)' = HeldBlocks(i)
      /\ Opens(i) => Floor(i)' = Floor(i) /\ Spare(i)' = Spare(i)
    BY <1>1, ViewKept
<1>3. Opens(i) => Entries(i)' = Entries(i)
    BY <1>1, <1>2 DEF Entries, Elements, Opens
<1>. QED
    BY <1>1, <1>2, <1>3, WalkedViews

\* And so does a rewrite, but for the block.
LEMMA RewrittenItems ==
    ASSUME IInv, RegionInv, WalkRewrite, NEW i \in DOMAIN worklist
    PROVE  /\ i \in DOMAIN worklist'
           /\ Node(i)' = Node(i) /\ State(i)' = State(i) /\ Kind(i)' = Kind(i)
           /\ (Testing(i)' <=> Testing(i)) /\ (Opens(i)' <=> Opens(i))
           /\ Holding(i) => HeldBlocks(i)' = HeldBlocks(i)
           /\ Opens(i) => /\ Entries(i)' = Entries(i) /\ Floor(i)' = Floor(i)
                          /\ Spare(i)' = Spare(i) /\ Inside(i)' = Inside(i)
           /\ top'[Node(i)] = top[Node(i)]
           /\ worklist'[i].block = IF worklist[i].block = Call.block THEN Call.jump
                                   ELSE worklist[i].block
<1>1. /\ UNCHANGED <<ast, code, held, top>>
      /\ DOMAIN worklist' = DOMAIN worklist
      /\ worklist'[i] = IF worklist[i].block = Call.block
                        THEN [worklist[i] EXCEPT !.block = Call.jump]
                        ELSE worklist[i]
    BY DEF WalkRewrite, Walking
<1>2. Stays /\ Blocks' = Blocks
    BY <1>1, NothingWritten
<1>3. /\ worklist'[i].node = worklist[i].node
      /\ worklist'[i].state = worklist[i].state
      /\ worklist'[i].block = IF worklist[i].block = Call.block THEN Call.jump
                              ELSE worklist[i].block
    <2>1. worklist[i] \in ReadyItems
        BY ElementOfSeq, LenProperties DEF IInv
    <2>2. worklist[i] \in [node : Nodes, block : Blocks, state : 0..2]
        BY <2>1 DEF ReadyItems
    <2>. QED
        BY <1>1, <2>2
<1>4. /\ Node(i)' = Node(i) /\ State(i)' = State(i) /\ Kind(i)' = Kind(i)
      /\ Testing(i)' <=> Testing(i)
      /\ Holding(i)' <=> Holding(i)
      /\ Opens(i)' <=> Opens(i)
      /\ Holding(i) => HeldBlocks(i)' = HeldBlocks(i)
      /\ Opens(i) => Floor(i)' = Floor(i) /\ Spare(i)' = Spare(i)
    BY <1>1, <1>2, <1>3, ViewKept
<1>5. Opens(i) => Inside(i)' = Inside(i)
    BY <1>2, <1>4 DEF Inside
<1>6. Opens(i) => Entries(i)' = Entries(i)
    BY <1>1, <1>4 DEF Entries, Elements, Opens
<1>7. top'[Node(i)] = top[Node(i)]
    BY <1>1
<1>. QED
    BY <1>1, <1>3, <1>4, <1>5, <1>6, <1>7

\* What the walk is in does not move.
LEMMA OpenStaysPut ==
    ASSUME IInv, RegionInv, walk # <<>>, NEW i \in DOMAIN worklist, Opens(i)
    PROVE  /\ worklist[i].block # Call.block
           /\ Call.block \in Inside(i) /\ (Call.do # "return" => Call.jump \in Inside(i))
           /\ \A k \in DOMAIN worklist : k < i => Call.block \notin Uses(k)
<1>1. Call = walk[1] /\ 1 \in DOMAIN walk
    BY Frames
<1>2. Nested(i)
    BY DEF RegionInv, Regions
<1>3. Call.block \in Inside(i) /\ (Call.do # "return" => Call.jump \in Inside(i))
    BY <1>1, <1>2 DEF Nested
<1>4. worklist[i].block \in Outer(i)
    BY DEF Outer
<1>. QED
    BY <1>3, <1>4, BelowIsOutside

-----------------------------------------------------------------------------
(* What nothing leaves leads nowhere yet. *)

NeatInv ==
    /\ \A b \in Blocks : Clean(b) => succ[b] = <<>> /\ b \notin closed
    /\ \A j \in DOMAIN worklist :
          Testing(j) \/ State(j) = 2 => ~Clean(worklist[j].block)
    /\ \A w \in DOMAIN walk : walk[w].do = "rewrite" =>
          w = Len(walk) /\ ~Clean(walk[w].block)
    /\ \A w \in DOMAIN walk : walk[w].do = "link" =>
          ~Clean(walk[w].block) \/ Awaited(walk[w].block)

\* The block that an item writes when it makes others is left for them.
LEMMA OpenLeaves ==
    ASSUME IInv, IInv', RegionInv, CleanInv, NeatInv,
           NEW d, NEW m, NEW e, NEW s, NEW is,
           Opened(d, m, e, s), Leading(d, e, is), Guides(d, e, is),
           NEW t, t = Top.block
    PROVE  /\ e \in Blocks /\ t \in Blocks /\ Clean(e)
           /\ Testing(d)' \/ State(d)' = 2 =>
                 /\ Targets(code'[e]) = New /\ Elements(is[Len(is)].blks) = New
                 /\ ~Clean(e)' /\ ~Clean(t)'
<1>1. /\ d = Depth /\ worklist # <<>> /\ walk = <<>> /\ e \in Uses(Depth)
    BY DEF Opened
<1>2. /\ Top.block \in Blocks /\ Uses(Depth) \subseteq Blocks
    BY <1>1, TopUses
<1>3. /\ d \in DOMAIN worklist /\ Node(d) = Top.node /\ worklist[d].block = Top.block
    BY <1>1, Positions
<1>4. Clean(e)
    BY <1>1, <1>3, TopClean DEF Leading
<1>5. Firm
    BY OpenFirm
<1>6. e \in Blocks
    BY <1>1, <1>2
<1>7. ASSUME Testing(d)' \/ State(d)' = 2
      PROVE  Targets(code'[e]) = New /\ ~Clean(e)'
    <2>1. /\ is[Len(is)].op \in {"BRANCH", "JUMP"}
          /\ Elements(is[Len(is)].blks) = New /\ Len(is) >= 1 /\ Len(is) \in Nat
        BY <1>7 DEF Guides, Leading
    <2>2. /\ code'[e] \in Seq(ReadyInstructions(Blocks'))
        <3>1. e \in Blocks' /\ code' \in [Blocks' -> Seq(ReadyInstructions(Blocks'))]
            BY <1>5, <1>6 DEF Firm, IInv, CodeInv, ReadyInstructions
        <3>. QED
            BY <3>1
    <2>3. PICK l : l = Len(code[e])
        OBVIOUS
    <2>4. PICK n : n = Len(is)
        OBVIOUS
    <2>5. /\ l \in Nat /\ n \in Nat /\ n >= 1 /\ DOMAIN code[e] = 1..l
          /\ DOMAIN code'[e] = 1..(l + n)
          /\ \A x \in 1..l : code'[e][x] = code[e][x]
          /\ \A x \in 1..n : code'[e][l + x] = is[x]
        <3>1. OldLen(e) = l /\ l \in Nat /\ DOMAIN code[e] = 1..l
            BY <1>6, <2>3, BlockIsSeq DEF OldLen, IInv
        <3>2. Wrote(e, is)
            BY DEF Leading
        <3>. QED
            BY <2>1, <2>4, <3>1, <3>2 DEF Wrote
    <2>6. l + n \in DOMAIN code'[e] /\ code'[e][l + n] = is[n]
        BY <2>5
    <2>7. ASSUME NEW j \in DOMAIN code'[e], j < l + n
          PROVE  code'[e][j].op \notin Leaving
        <3>1. CASE j <= l
            BY <1>4, <2>5, <3>1 DEF Clean, Leaves
        <3>2. CASE ~(j <= l)
            <4>1. PICK x : x = j - l
                OBVIOUS
            <4>2. x \in 1..n /\ x # n /\ j = l + x
                BY <2>5, <2>7, <3>2, <4>1
            <4>. QED
                BY <2>4, <2>5, <4>2 DEF Leading
        <3>. QED
            BY <3>1, <3>2
    <2>8. /\ Leaves(code'[e])
          /\ Targets(code'[e]) = IF is[n].op = "RETURN" THEN {} ELSE Elements(is[n].blks)
        BY <2>1, <2>2, <2>4, <2>6, <2>7, TargetsAt DEF Leaving
    <2>. QED
        BY <2>1, <2>4, <2>8 DEF Clean
<1>8. ASSUME Testing(d)' \/ State(d)' = 2
      PROVE  ~Clean(t)'
    <2>1. CASE Testing(d)
        <3>1. ~Clean(t)
            BY <1>3, <2>1 DEF NeatInv
        <3>. QED
            BY <1>2, <1>5, <3>1 DEF Firm
    <2>2. CASE ~Testing(d)
        BY <1>7, <1>8, <2>2 DEF Leading
    <2>. QED
        BY <2>1, <2>2
<1>. QED
    BY <1>2, <1>4, <1>6, <1>7, <1>8 DEF Guides

\* Turns that make no blocks.
LEMMA QuietNeat ==
    ASSUME IInv, IInv', RegionInv, CleanInv, NeatInv, TurnStep, NEW d, NEW is, Quiet(d, is)
    PROVE  NeatInv'
<1>1. /\ d = Depth /\ walk' = <<>> /\ succ' = succ /\ Blocks' = Blocks
    BY DEF Quiet
<1>2. Turned /\ worklist # <<>> /\ closed' = closed
    BY DEF TurnStep, Turned
<1>3. Firm
    BY PlainFirm
<1>4. \A b \in Blocks' : Clean(b)' => succ'[b] = <<>> /\ b \notin closed'
    BY <1>1, <1>2, <1>3 DEF Firm, NeatInv
<1>5. ASSUME NEW j \in DOMAIN worklist', Testing(j)' \/ State(j)' = 2
      PROVE  ~Clean(worklist[j].block)'
    <2>1. CASE j \in 1..(Depth - 1)
        <3>1. /\ j \in DOMAIN worklist /\ worklist'[j] = worklist[j]
              /\ State(j)' = State(j) /\ (Testing(j)' <=> Testing(j))
            BY <1>2, <2>1, TurnViews
        <3>2. PICK b : b = worklist[j].block
            OBVIOUS
        <3>3. ~Clean(b) /\ b \in Blocks
            BY <1>5, <3>1, <3>2, ItemTyped DEF NeatInv
        <3>4. ~Clean(b)'
            BY <1>3, <3>3 DEF Firm
        <3>. QED
            BY <3>1, <3>2, <3>4
    <2>2. CASE j >= Depth
        <3>1. ~Opens(j)'
            BY <1>1, <2>2 DEF Quiet
        <3>. QED
            BY <1>5, <3>1 DEF Opens, Holding
    <2>. QED
        BY <1>2, <2>1, <2>2, NextPositions
<1>6. DOMAIN walk' = {}
    BY <1>1
<1>. QED
    BY <1>4, <1>5, <1>6 DEF NeatInv

\* Turns that make blocks and wait for them.
LEMMA OpenNeat ==
    ASSUME IInv, IInv', RegionInv, CleanInv, NeatInv, TurnStep,
           NEW d, NEW m, NEW e, NEW s, NEW is,
           Opened(d, m, e, s), Leading(d, e, is), Guides(d, e, is), Pushes(d)
    PROVE  NeatInv'
<1>1. /\ d = Depth /\ walk' = walk /\ walk = <<>> /\ closed' = closed /\ Turned
      /\ worklist # <<>>
    BY DEF TurnStep, Turned, Opened
<1>2. Firm
    BY OpenFirm
<1>3. PICK t : t = Top.block
    OBVIOUS
<1>31. /\ e \in Blocks /\ t \in Blocks
       /\ Testing(d)' \/ State(d)' = 2 => ~Clean(e)' /\ ~Clean(t)'
    BY <1>3, OpenLeaves
<1>4. ASSUME NEW b \in Blocks', Clean(b)'
      PROVE  succ'[b] = <<>> /\ b \notin closed'
    <2>1. CASE b \notin Blocks
        <3>1. b \in New /\ closed \subseteq Blocks
            BY <2>1 DEF New, IInv, FlowOK
        <3>. QED
            BY <1>1, <2>1, <3>1 DEF Opened
    <2>2. CASE b \in Blocks
        <3>1. succ[b] = <<>> /\ b \notin closed
            BY <1>2, <1>4, <2>2 DEF Firm, NeatInv
        <3>2. succ'[b] = succ[b]
            <4>1. CASE b # Top.block
                BY <2>2, <4>1 DEF Opened
            <4>2. CASE b = Top.block
                <5>1. b = t
                    BY <1>3, <4>2
                <5>2. Clean(t)'
                    BY <1>4, <5>1
                <5>3. ~(Testing(d)' \/ State(d)' = 2)
                    BY <1>31, <5>2
                <5>. QED
                    BY <4>2, <5>3 DEF Guides
            <4>. QED
                BY <4>1, <4>2
        <3>. QED
            BY <1>1, <3>1, <3>2
    <2>. QED
        BY <2>1, <2>2
<1>5. ASSUME NEW j \in DOMAIN worklist', Testing(j)' \/ State(j)' = 2
      PROVE  ~Clean(worklist[j].block)'
    <2>1. CASE j \in 1..(Depth - 1)
        <3>1. /\ j \in DOMAIN worklist /\ worklist'[j] = worklist[j]
              /\ State(j)' = State(j) /\ (Testing(j)' <=> Testing(j))
            BY <1>1, <2>1, TurnViews
        <3>2. PICK b : b = worklist[j].block
            OBVIOUS
        <3>3. ~Clean(b) /\ b \in Blocks
            BY <1>5, <3>1, <3>2, ItemTyped DEF NeatInv
        <3>4. ~Clean(b)'
            BY <1>2, <3>3 DEF Firm
        <3>. QED
            BY <3>1, <3>2, <3>4
    <2>2. CASE j = Depth
        <3>1. worklist'[j].block = t
            BY <1>1, <1>3, <2>2 DEF Leading
        <3>. QED
            <4>1. Testing(d)' \/ State(d)' = 2
                BY <1>1, <1>5, <2>2
            <4>2. ~Clean(t)'
                BY <1>31, <4>1
            <4>. QED
                BY <3>1, <4>2
    <2>3. CASE j > Depth
        <3>1. State(j)' = 0
            BY <1>1, <2>3 DEF Pushes
        <3>. QED
            BY <1>5, <3>1 DEF Testing
    <2>4. j \in 1..(Depth - 1) \/ j = Depth \/ j > Depth
        <3>1. Depth \in Nat /\ j \in Nat /\ (j \in 1..(Depth - 1) \/ j >= Depth)
            BY <1>1, NextPositions
        <3>. QED
            BY <3>1
    <2>. QED
        BY <2>1, <2>2, <2>3, <2>4
<1>6. DOMAIN walk' = {}
    BY <1>1
<1>. QED
    BY <1>4, <1>5, <1>6 DEF NeatInv

\* One instruction that leaves the block comes behind the others.
LEMMA EndsWith ==
    ASSUME IInv, IInv', Stays, OpsKept, NEW b \in Blocks, NEW ins, ins.op \in Leaving,
           DOMAIN code'[b] = 1..(Len(code[b]) + 1),
           code'[b][Len(code[b]) + 1] = ins
    PROVE  /\ ~Clean(b)'
           /\ Clean(b) => Targets(code'[b]) = IF ins.op = "RETURN" THEN {}
                                              ELSE Elements(ins.blks)
<1>1. code'[b] \in Seq(ReadyInstructions(Blocks'))
    <2>1. b \in Blocks' /\ code' \in [Blocks' -> Seq(ReadyInstructions(Blocks'))]
        BY DEF Stays, IInv, CodeInv, ReadyInstructions
    <2>. QED
        BY <2>1
<1>2. PICK l : l = Len(code[b])
    OBVIOUS
<1>3. l \in Nat /\ DOMAIN code[b] = 1..l
    BY <1>2, BlockIsSeq DEF IInv
<1>4. l + 1 \in DOMAIN code'[b] /\ code'[b][l + 1] = ins
    BY <1>2, <1>3
<1>5. ~Clean(b)'
    BY <1>4 DEF Clean, Leaves
<1>6. ASSUME Clean(b)
      PROVE  Targets(code'[b]) = IF ins.op = "RETURN" THEN {} ELSE Elements(ins.blks)
    <2>1. \A j \in DOMAIN code'[b] : j < l + 1 => j \in DOMAIN code[b]
        BY <1>2, <1>3
    <2>2. \A j \in DOMAIN code'[b] : j < l + 1 => code'[b][j].op \notin Leaving
        BY <1>6, <2>1 DEF Clean, Leaves, OpsKept
    <2>. QED
        BY <1>1, <1>4, <2>2, TargetsAt
<1>. QED
    BY <1>5, <1>6

\* A walk that comes to a leaf leaves it.
LEMMA JumpLeaves ==
    ASSUME IInv, IInv', RegionInv, WalkJump, NEW a, a = Call.block
    PROVE  /\ ~Clean(a)' /\ (Clean(a) => Targets(code'[a]) = {Call.jump})
           /\ \A b \in Blocks : b # a => \A i \in DOMAIN code'[b] :
                 i \in DOMAIN code[b] /\ code'[b][i].op = code[b][i].op
<1>1. /\ Alike(Filled) /\ Call.block \in Blocks /\ Call.jump \in Blocks
      /\ \A x \in Blocks : \A i \in DOMAIN code[x] :
            code[x][i].op # "PHI" => Filled[x][i] = code[x][i]
      /\ JumpBack \in ReadyInstructions(Blocks)
      /\ Emit(Filled, Call.block, JumpBack)
    BY JumpWrites
<1>2. /\ Blocks' = Blocks /\ Stays
      /\ \A x \in Blocks : x # a => code'[x] = Filled[x]
      /\ DOMAIN code'[a] = 1..(Len(code[a]) + 1)
      /\ code'[a][Len(code[a]) + 1] = JumpBack
      /\ \A i \in DOMAIN code[a] : code'[a][i] = Filled[a][i]
    BY <1>1, EmitOver DEF IInv
<1>3. \A x \in Blocks : /\ DOMAIN Filled[x] = DOMAIN code[x]
                        /\ \A i \in DOMAIN code[x] : Filled[x][i].op = code[x][i].op
    BY <1>1 DEF Alike
<1>4. OpsKept
    <2>. SUFFICES ASSUME NEW b \in Blocks, NEW x \in DOMAIN code[b]
                  PROVE  code'[b][x].op = code[b][x].op
        BY <1>2 DEF OpsKept, Stays
    <2>. QED
        BY <1>2, <1>3
<1>5. JumpBack.op = "JUMP" /\ JumpBack.op \in Leaving /\ JumpBack.blks = <<Call.jump>>
    BY DEF JumpBack, Instr, Leaving
<1>6. Elements(<<Call.jump>>) = {Call.jump}
    BY DEF Elements
<1>7. /\ ~Clean(a)'
      /\ Clean(a) => Targets(code'[a]) = IF JumpBack.op = "RETURN" THEN {}
                                         ELSE Elements(JumpBack.blks)
    BY <1>1, <1>2, <1>4, <1>5, EndsWith
<1>. QED
    BY <1>2, <1>3, <1>5, <1>6, <1>7

\* The return that a walk emits leaves its block, and leads nowhere.
LEMMA ReturnLeaves ==
    ASSUME IInv, IInv', RegionInv, CleanInv, WalkReturn, WalkStep, NEW a, a = Call.block
    PROVE  ~Clean(a)' /\ (Clean(a) => Targets(code'[a]) = {})
<1>. DEFINE ins == Instr("RETURN", nextValue, <<Call.value>>, <<>>)
<1>1. ins.op = "RETURN"
    BY DEF Instr
<1>. HIDE DEF ins
<1>2. a \in Blocks /\ Wrote(a, <<ins>>)
    BY ReturnWrites DEF ins
<1>3. /\ Len(<<ins>>) = 1 /\ <<ins>>[1] = ins /\ 1 \in 1..1
      /\ OldLen(a) = Len(code[a])
    BY <1>2 DEF OldLen
<1>4. /\ DOMAIN code'[a] = 1..(Len(code[a]) + Len(<<ins>>))
      /\ code'[a][Len(code[a]) + 1] = ins
    BY <1>2, <1>3 DEF Wrote
<1>5. Stays /\ OpsKept
    BY <1>2 DEF WalkStep, Behind, OpsKept, Wrote
<1>. QED
    BY <1>1, <1>2, <1>3, <1>4, <1>5, EndsWith DEF Leaving

\* What the walk covers it covers through a successor.
LEMMA CoversFirst ==
    ASSUME IInv, NEW a \in Blocks, NEW j, a # j, NEW d, d # a, Covers(a, j, d)
    PROVE  \E i \in DOMAIN succ[a] : Covers(succ[a][i], j, d)
<1>. SUFFICES ASSUME \A i \in DOMAIN succ[a] : ~Covers(succ[a][i], j, d)
              PROVE  FALSE
    OBVIOUS
<1>. DEFINE U == {b \in Blocks : ~Covers(b, j, d)}
<1>1. \A x \in Elements(succ[a]) : x \in U
    BY SuccTyped DEF Elements
<1>2. ASSUME NEW b \in U, b # j
      PROVE  Elements(succ[b]) \subseteq U
    <2>1. ASSUME NEW x \in Elements(succ[b]), Covers(x, j, d)
          PROVE  Covers(b, j, d)
        BY <1>2, <2>1 DEF Covers
    <2>2. Elements(succ[b]) \subseteq Blocks
        BY SuccTyped
    <2>. QED
        BY <2>1, <2>2
<1>3. \A b \in U \cup {a} : b # j => Elements(succ[b]) \subseteq U \cup {a}
    BY <1>1, <1>2
<1>4. d \in U \cup {a}
    <2>1. U \cup {a} \in SUBSET Blocks /\ a \in U \cup {a}
        OBVIOUS
    <2>. HIDE DEF U
    <2>. QED
        BY <1>3, <2>1 DEF Covers
<1>5. Covers(d, j, d)
    BY DEF Covers
<1>. QED
    BY <1>4, <1>5

\* As long as nothing leaves a block the walk that was to come to it still is.
LEMMA AwaitedKept ==
    ASSUME IInv, IInv', RegionInv, CleanInv, NeatInv, WalkStep,
           WalkJump \/ WalkReturn \/ WalkDescend \/ WalkSkip \/ WalkLink,
           NEW d \in Blocks, Awaited(d), Clean(d)'
    PROVE  Awaited(d)'
<1>1. Firm
    BY WalkFirm
<1>2. /\ walk # <<>> /\ 1 \in DOMAIN walk /\ Call = walk[1] /\ Call.block \in Blocks
      /\ \A w \in DOMAIN walk : walk[w].block \in Blocks
    BY Frames DEF WalkStep, Walked
<1>3. PICK w \in DOMAIN walk : /\ Walker(w) /\ d # walk[w].jump
                               /\ Covers(walk[w].block, walk[w].jump, d)
    BY DEF Awaited
<1>4. PICK a, j, do : a = walk[w].block /\ j = walk[w].jump /\ do = walk[w].do
    OBVIOUS
<1>5. a \in Blocks /\ do \in Walks /\ d # j /\ Covers(a, j, d)
    BY <1>2, <1>3, <1>4 DEF Walker
<1>6. CASE w # 1
    <2>1. PICK v \in DOMAIN walk' : walk'[v] = walk[w]
        BY <1>6 DEF WalkStep, Follows
    <2>2. Covers(a, j, d)'
        BY <1>1, <1>5, CoversKept
    <2>3. walk'[v].block = a /\ walk'[v].jump = j /\ walk'[v].do = do
        BY <1>4, <2>1
    <2>. QED
        BY <1>5, <2>2, <2>3 DEF Awaited, Walker
<1>7. CASE w = 1
    <2>1. a = Call.block /\ j = Call.jump /\ do = Call.do
        BY <1>2, <1>4, <1>7
    <2>2. CASE a = j
        <3>1. d \in {a}
            BY <1>5, <2>2 DEF Covers
        <3>. QED
            BY <1>5, <2>2, <3>1
    <2>3. CASE Open(a) /\ a # j
        <3>1. Elements(succ[a]) = {}
            BY <1>5, <2>3, SuccTyped DEF Open
        <3>2. d \in {a}
            BY <1>5, <3>1 DEF Covers
        <3>3. WalkJump \/ WalkReturn
            BY <1>5, <2>1, <2>3 DEF WalkDescend, WalkSkip, WalkLink, Walking, Walks
        <3>4. ~Clean(a)'
            BY <2>1, <3>3, JumpLeaves, ReturnLeaves
        <3>. QED
            BY <3>2, <3>4
    <2>4. CASE ~Open(a) /\ a # j
        <3>1. WalkDescend
            BY <1>5, <2>1, <2>4 DEF WalkJump, WalkReturn, WalkSkip, WalkLink, Walking, Walks
        <3>2. Clean(d)
            BY <1>1 DEF Firm
        <3>3. d # a
            BY <2>4, <3>2 DEF NeatInv, Open
        <3>4. PICK i \in DOMAIN succ[a] : Covers(succ[a][i], j, d)
            BY <1>5, <2>4, <3>3, CoversFirst
        <3>5. PICK x : x = succ[a][i]
            OBVIOUS
        <3>6. PICK v \in DOMAIN walk' : /\ walk'[v].do = do /\ walk'[v].jump = j
                                        /\ walk'[v].block = x
            BY <2>1, <3>1, <3>5, WalkDescendKeeps DEF Descends
        <3>7. x \in Blocks
            BY <1>5, <3>5, SuccTyped DEF Elements
        <3>8. Covers(x, j, d)'
            BY <1>1, <3>4, <3>5, <3>7, CoversKept
        <3>. QED
            BY <1>5, <3>6, <3>8 DEF Awaited, Walker
    <2>. QED
        BY <2>2, <2>3, <2>4
<1>. QED
    BY <1>6, <1>7

\* A frame that comes first and links or moves has no walks behind it.
LEMMA NoWalkers ==
    ASSUME IInv, RegionInv, walk # <<>>, Call.do \notin Walks
    PROVE  \A w \in DOMAIN walk : ~Walker(w)
<1>1. /\ 1 \in DOMAIN walk /\ Call = walk[1] /\ DOMAIN walk = 1..Len(walk)
      /\ Len(walk) \in Nat
    BY Frames
<1>2. \A w \in DOMAIN walk : w = 1 \/ 1 < w
    BY <1>1
<1>. QED
    BY <1>1, <1>2 DEF RegionInv, OneCall, Walker

\* The steps of a walk.
LEMMA WalkNeat ==
    ASSUME IInv, IInv', RegionInv, CleanInv, NeatInv, WalkStep,
           WalkJump \/ WalkReturn \/ WalkDescend \/ WalkSkip \/ WalkLink
    PROVE  NeatInv'
<1>1. Firm
    BY WalkFirm
<1>2. /\ walk # <<>> /\ 1 \in DOMAIN walk /\ Call = walk[1] /\ Call.block \in Blocks
      /\ Blocks' = Blocks /\ worklist' = worklist /\ Walked
      /\ \A w \in DOMAIN walk : walk[w].block \in Blocks
    BY Frames DEF WalkStep, Walked
<1>3. ASSUME NEW b \in Blocks, Clean(b)'
      PROVE  succ'[b] = <<>> /\ b \notin closed'
    <2>1. succ[b] = <<>> /\ b \notin closed /\ Clean(b)
        BY <1>1, <1>3 DEF Firm, NeatInv
    <2>2. CASE b # Call.block
        <3>1. succ'[b] = succ[b] /\ b \notin closed'
            BY <1>2, <2>1, <2>2 DEF Walked
        <3>. QED
            BY <2>1, <3>1
    <2>3. CASE b = Call.block
        <3>1. ~WalkJump /\ ~WalkReturn
            BY <1>3, <2>3, JumpLeaves, ReturnLeaves
        <3>2. ~WalkLink
            <4>1. ASSUME WalkLink
                  PROVE  FALSE
                <5>1. Call.do = "link" /\ Call.do \notin Walks
                    BY <4>1 DEF WalkLink, Walking, Walks
                <5>2. Awaited(b)
                    <6>1. ~Clean(walk[1].block) \/ Awaited(walk[1].block)
                        BY <1>2, <5>1 DEF NeatInv
                    <6>. QED
                        BY <1>2, <2>1, <2>3, <6>1
                <5>. QED
                    BY <1>2, <5>1, <5>2, NoWalkers DEF Awaited
            <4>. QED
                BY <4>1
        <3>3. succ' = succ /\ closed' = closed
            BY <3>1, <3>2 DEF WalkDescend, WalkSkip
        <3>. QED
            BY <2>1, <3>3
    <2>. QED
        BY <2>2, <2>3
<1>4. ASSUME NEW j \in DOMAIN worklist, Testing(j)' \/ State(j)' = 2
      PROVE  ~Clean(worklist[j].block)'
    <2>1. (Testing(j)' <=> Testing(j)) /\ State(j)' = State(j)
        BY <1>2, WalkedItems
    <2>2. PICK b : b = worklist[j].block
        OBVIOUS
    <2>3. ~Clean(b) /\ b \in Blocks
        BY <1>4, <2>1, <2>2, ItemTyped DEF NeatInv
    <2>4. ~Clean(b)'
        BY <1>1, <2>3 DEF Firm
    <2>. QED
        BY <1>2, <2>2, <2>4
<1>5. ASSUME NEW v \in DOMAIN walk', walk'[v].do \notin Walks
      PROVE  \E w \in DOMAIN walk :
                w # 1 /\ walk'[v] = walk[w] /\ (w = Len(walk) => v = Len(walk'))
    BY <1>5 DEF WalkStep, Follows
<1>6. ASSUME NEW v \in DOMAIN walk', walk'[v].do = "rewrite"
      PROVE  v = Len(walk') /\ ~Clean(walk[v].block)'
    <2>1. PICK w \in DOMAIN walk :
             w # 1 /\ walk'[v] = walk[w] /\ (w = Len(walk) => v = Len(walk'))
        BY <1>5, <1>6 DEF Walks
    <2>2. PICK b : b = walk[w].block
        OBVIOUS
    <2>3. w = Len(walk) /\ ~Clean(b) /\ b \in Blocks
        BY <1>2, <1>6, <2>1, <2>2 DEF NeatInv
    <2>4. ~Clean(b)'
        BY <1>1, <2>3 DEF Firm
    <2>. QED
        BY <2>1, <2>2, <2>3, <2>4
<1>7. ASSUME NEW v \in DOMAIN walk', walk'[v].do = "link"
      PROVE  ~Clean(walk[v].block)' \/ Awaited(walk[v].block)'
    <2>1. PICK w \in DOMAIN walk : walk'[v] = walk[w]
        BY <1>5, <1>7 DEF Walks
    <2>2. PICK b : b = walk[w].block
        OBVIOUS
    <2>3. (~Clean(b) \/ Awaited(b)) /\ b \in Blocks
        BY <1>2, <1>7, <2>1, <2>2 DEF NeatInv
    <2>4. ~Clean(b)' \/ Awaited(b)'
        BY <1>1, <2>3, AwaitedKept DEF Firm
    <2>. QED
        BY <2>1, <2>2, <2>4
<1>. QED
    BY <1>2, <1>3, <1>4, <1>6, <1>7 DEF NeatInv

\* Turns that leave a region.
LEMMA LeaveNeat ==
    ASSUME IInv, IInv', RegionInv, CleanInv, NeatInv, TurnStep,
           NEW d, NEW m, NEW is, NEW S,
           Closing(d, m), Meets(d, m, is), Calls(d, is), S = Inside(d), Apart(S)'
    PROVE  NeatInv'
<1>1. /\ d = Depth /\ closed' = closed /\ Turned /\ worklist # <<>> /\ Opens(d)
      /\ worklist' = Rest
    BY DEF TurnStep, Turned, Closing
<1>2. Firm
    BY LeaveFirm
<1>3. /\ d \in DOMAIN worklist /\ Node(d) = Top.node /\ worklist[d].block = Top.block
      /\ State(d) = Top.state
    BY <1>1, Positions
<1>4. ASSUME NEW b \in Blocks', Clean(b)'
      PROVE  succ'[b] = <<>> /\ b \notin closed'
    <2>1. CASE b \notin Blocks
        <3>1. b \in New /\ closed \subseteq Blocks
            BY <2>1 DEF New, IInv, FlowOK
        <3>. QED
            BY <1>1, <2>1, <3>1 DEF Closing
    <2>2. CASE b \in Blocks
        <3>1. succ[b] = <<>> /\ b \notin closed
            BY <1>2, <1>4, <2>2 DEF Firm, NeatInv
        <3>. QED
            BY <1>1, <2>2, <3>1 DEF Closing
    <2>. QED
        BY <2>1, <2>2
<1>5. ASSUME NEW j \in DOMAIN worklist', Testing(j)' \/ State(j)' = 2
      PROVE  ~Clean(worklist[j].block)'
    <2>1. DOMAIN worklist' = 1..(Depth - 1)
        BY <1>1, Popped
    <2>2. /\ j \in DOMAIN worklist /\ worklist'[j] = worklist[j]
          /\ State(j)' = State(j) /\ (Testing(j)' <=> Testing(j))
        BY <1>1, <2>1, TurnViews
    <2>3. PICK b : b = worklist[j].block
        OBVIOUS
    <2>4. ~Clean(b) /\ b \in Blocks
        BY <1>5, <2>2, <2>3, ItemTyped DEF NeatInv
    <2>5. ~Clean(b)'
        BY <1>2, <2>4 DEF Firm
    <2>. QED
        BY <2>2, <2>3, <2>5
<1>6. ASSUME NEW w \in DOMAIN walk', walk'[w].do = "rewrite"
      PROVE  w = Len(walk') /\ ~Clean(walk[w].block)'
    <2>1. State(d) = 2
        BY <1>6 DEF Calls
    <2>2. PICK t : t = Top.block
        OBVIOUS
    <2>3. ~Clean(t) /\ t \in Blocks
        BY <1>3, <2>1, <2>2, ItemTyped DEF NeatInv
    <2>4. ~Clean(t)'
        BY <1>2, <2>3 DEF Firm
    <2>5. walk'[w].block = t
        BY <1>6, <2>2 DEF Closing
    <2>6. ~Clean(walk[w].block)'
        BY <2>4, <2>5
    <2>. QED
        BY <1>6, <2>6 DEF Calls
<1>7. ASSUME NEW w \in DOMAIN walk', walk'[w].do = "link"
      PROVE  Awaited(walk[w].block)'
    <2>1. PICK a : a = walk'[w].block
        OBVIOUS
    <2>2. a \in Entries(d)
        BY <1>7, <2>1 DEF Calls
    <2>3. PICK v \in DOMAIN walk' : walk'[v].do \in Walks /\ walk'[v].block = a
        BY <2>2 DEF Calls
    <2>4. walk'[v].block \in Inside(d) /\ walk'[v].jump \notin Inside(d)
        BY <2>3 DEF Closing
    <2>5. Covers(a, walk[v].jump, a)'
        BY DEF Covers
    <2>6. Awaited(a)'
        BY <2>3, <2>4, <2>5 DEF Awaited, Walker
    <2>. QED
        BY <2>1, <2>6
<1>. QED
    BY <1>4, <1>5, <1>6, <1>7 DEF NeatInv

\* And the one that goes on elsewhere.
LEMMA RewriteNeat ==
    ASSUME IInv, IInv', RegionInv, CleanInv, NeatInv, WalkRewrite
    PROVE  NeatInv' /\ walk' = <<>> /\ Len(walk) = 1
<1>1. /\ walk # <<>> /\ Call.do = "rewrite" /\ walk' = Tail(walk)
      /\ UNCHANGED <<ast, code, succ, closed, held, top>>
      /\ DOMAIN worklist' = DOMAIN worklist
    BY DEF WalkRewrite, Walking
<1>2. /\ 1 \in DOMAIN walk /\ Call = walk[1]
      /\ DOMAIN walk' = 1..(Len(walk) - 1)
    BY <1>1, Frames
<1>3. Len(walk) = 1
    BY <1>1, <1>2 DEF NeatInv
<1>4. walk' = <<>> /\ DOMAIN walk' = {}
    <2>1. DOMAIN walk' = {}
        BY <1>2, <1>3
    <2>2. walk' \in Seq(ReadyFrames')
        BY DEF IInv
    <2>3. 1..Len(walk') = {} /\ Len(walk') \in Nat
        BY <2>1, <2>2, LenProperties
    <2>4. Len(walk') = 0
        <3>1. \A l \in Nat : l # 0 => 1 \in 1..l
            OBVIOUS
        <3>. QED
            BY <2>3, <3>1
    <2>. QED
        BY <2>1, <2>2, <2>4, EmptySeq
<1>5. Firm
    BY <1>1, SameFirm
<1>6. Blocks' = Blocks
    BY <1>1, NothingWritten
<1>7. \A b \in Blocks' : Clean(b)' => succ'[b] = <<>> /\ b \notin closed'
    BY <1>1, <1>5, <1>6 DEF Firm, NeatInv
<1>8. ASSUME NEW j \in DOMAIN worklist', Testing(j)' \/ State(j)' = 2
      PROVE  ~Clean(worklist[j].block)'
    <2>1. /\ j \in DOMAIN worklist /\ State(j)' = State(j) /\ (Testing(j)' <=> Testing(j))
          /\ worklist'[j].block = IF worklist[j].block = Call.block THEN Call.jump
                                  ELSE worklist[j].block
        BY <1>1, RewrittenItems
    <2>2. Opens(j)
        BY <1>8, <2>1 DEF Opens, Holding
    <2>3. worklist'[j].block = worklist[j].block
        BY <1>1, <2>1, <2>2, OpenStaysPut
    <2>4. PICK b : b = worklist[j].block
        OBVIOUS
    <2>5. ~Clean(b) /\ b \in Blocks
        BY <1>8, <2>1, <2>4, ItemTyped DEF NeatInv
    <2>6. ~Clean(b)'
        BY <1>5, <2>5 DEF Firm
    <2>. QED
        BY <2>3, <2>4, <2>6
<1>. QED
    BY <1>3, <1>4, <1>7, <1>8 DEF NeatInv

\* The initial state.
LEMMA InitNeat == Init => NeatInv
<1>. SUFFICES ASSUME Init PROVE NeatInv
    OBVIOUS
<1>1. /\ walk = <<>> /\ worklist = <<Item(1, 0, 0)>> /\ closed = {}
      /\ succ = [b \in 0..0 |-> <<>>]
      /\ code = [b \in 0..0 |-> <<Const("CONST_ARRAY", 0, Args), Store(1, 1, 0)>>]
    BY DEF Init
<1>2. \A b \in Blocks : succ[b] = <<>>
    BY <1>1
<1>3. \A j \in DOMAIN worklist : State(j) = 0
    BY <1>1 DEF Item
<1>4. DOMAIN walk = {}
    BY <1>1
<1>. QED
    BY <1>1, <1>2, <1>3, <1>4 DEF NeatInv, Testing

-----------------------------------------------------------------------------
(* Every block of a region is entered from where the region is. *)

\* The block is reached from an entry of the region, or belongs to a body.
FedFrom(k, d) ==
    \/ \E a \in Entries(k) : Comes(a, d)
    \/ \E j \in DOMAIN worklist :
          j > k /\ Kind(j) = "BLOCK" /\ State(j) = 1 /\ d \in Inside(j)
FillAt(k, d) ==
    /\ Clean(d) => Awaited(d) \/ FedFrom(k, d)
    /\ Left(d) => FedFrom(k, d)
    /\ \A j \in DOMAIN worklist :
          j > k /\ State(j) = 2 /\ d \in Elements(HeldBlocks(j)) => FedFrom(k, d)
FillInv == \A k \in DOMAIN worklist : Opens(k) => \A d \in Inside(k) : FillAt(k, d)

\* The entries are blocks of the region.
LEMMA EntriesTyped ==
    ASSUME IInv, RegionInv, NEW i \in DOMAIN worklist, Opens(i)
    PROVE  /\ Entries(i) \subseteq Inside(i) /\ Entries(i) \subseteq Blocks
           /\ Holding(i) => Elements(HeldBlocks(i)) \subseteq Uses(i)
<1>1. Nested(i)
    BY DEF RegionInv, Regions
<1>2. Uses(i) \subseteq Blocks
    BY UsesTyped
<1>3. CASE Testing(i)
    <2>1. ~Holding(i)
        BY <1>3 DEF Testing, Holding
    <2>2. Entries(i) = {Floor(i)}
        BY <1>3 DEF Entries, Floor
    <2>. QED
        BY <1>1, <2>1, <2>2 DEF Nested, Inside
<1>4. CASE ~Testing(i)
    <2>1. Inner(i) = Elements(HeldBlocks(i))
        BY <1>4 DEF Inner, Opens
    <2>2. Elements(HeldBlocks(i)) \subseteq {b \in Blocks : b >= Floor(i)}
        BY <1>1, <1>2, <2>1 DEF Nested, Uses
    <2>. QED
        BY <1>4, <2>1, <2>2 DEF Entries, Inside, Uses
<1>. QED
    BY <1>3, <1>4

\* What was fed by an item below still is.
LEMMA TurnFed ==
    ASSUME IInv, IInv', RegionInv, Turned, Firm, NEW k \in 1..(Depth - 1), Opens(k),
           NEW d, FedFrom(k, d),
           \A j : j = Depth /\ Kind(j) = "BLOCK" /\ State(j) = 1 => d \notin Inside(j)
    PROVE  FedFrom(k, d)'
<1>1. walk = <<>> /\ worklist # <<>>
    BY DEF Turned
<1>2. k \in DOMAIN worklist /\ Entries(k)' = Entries(k)
    BY TurnViews, BelowEntries
<1>3. CASE \E a \in Entries(k) : Comes(a, d)
    <2>1. PICK a \in Entries(k) : Comes(a, d)
        BY <1>3
    <2>2. LinksKept
        BY <1>1 DEF LinksKept
    <2>3. a \in Blocks
        BY <1>2, EntriesTyped
    <2>4. Comes(a, d)'
        BY <2>1, <2>2, <2>3, ComesKept
    <2>. QED
        BY <1>2, <2>4 DEF FedFrom
<1>4. CASE \E j \in DOMAIN worklist :
              j > k /\ Kind(j) = "BLOCK" /\ State(j) = 1 /\ d \in Inside(j)
    <2>1. PICK j \in DOMAIN worklist :
              j > k /\ Kind(j) = "BLOCK" /\ State(j) = 1 /\ d \in Inside(j)
        BY <1>4
    <2>2. j \in 1..(Depth - 1)
        BY <1>1, <2>1, NextPositions
    <2>3. Opens(j)
        BY <2>1 DEF Opens, Holding
    <2>4. j \in DOMAIN worklist' /\ Kind(j)' = Kind(j) /\ State(j)' = State(j)
        BY <2>2, TurnViews
    <2>5. Inside(j) \subseteq Inside(j)'
        BY <2>2, <2>3, TurnInside
    <2>. QED
        BY <2>1, <2>4, <2>5 DEF FedFrom
<1>. QED
    BY <1>3, <1>4 DEF FedFrom

\* Blocks that were left before the turn, and those of its own.
LEMMA LeftBefore ==
    ASSUME IInv, IInv', RegionInv, Turned, NEW d, d = Depth, NEW b, Left(b)'
    PROVE  \/ \E i \in 1..(Depth - 1) : /\ (Testing(i) \/ State(i) = 2)
                                        /\ worklist[i].block = b /\ Left(b)
           \/ \E i \in DOMAIN worklist' : /\ i >= d /\ (Testing(i)' \/ State(i)' = 2)
                                          /\ worklist'[i].block = b
           \/ \E w \in DOMAIN walk' : walk'[w].do = "rewrite" /\ walk'[w].block = b
<1>1. CASE \E i \in DOMAIN worklist' :
              (Testing(i)' \/ State(i)' = 2) /\ worklist'[i].block = b
    <2>1. PICK i \in DOMAIN worklist' :
              (Testing(i)' \/ State(i)' = 2) /\ worklist'[i].block = b
        BY <1>1
    <2>2. CASE i \in 1..(Depth - 1)
        <3>1. /\ i \in DOMAIN worklist /\ worklist'[i] = worklist[i]
              /\ State(i)' = State(i) /\ (Testing(i)' <=> Testing(i))
            BY <2>2, TurnViews
        <3>. QED
            BY <2>1, <2>2, <3>1 DEF Left
    <2>3. CASE i >= Depth
        BY <2>1, <2>3
    <2>. QED
        BY <2>2, <2>3, NextPositions DEF Turned
<1>2. CASE \E w \in DOMAIN walk' : walk'[w].do = "rewrite" /\ walk'[w].block = b
    BY <1>2
<1>. QED
    BY <1>1, <1>2 DEF Left

\* Before a turn nothing is awaited.
LEMMA FedBefore ==
    ASSUME RegionInv, FillInv, walk = <<>>, NEW k \in DOMAIN worklist, Opens(k),
           NEW d \in Inside(k)
    PROVE  /\ Clean(d) => FedFrom(k, d)
           /\ Left(d) => FedFrom(k, d)
           /\ \A j \in DOMAIN worklist :
                 j > k /\ State(j) = 2 /\ d \in Elements(HeldBlocks(j)) => FedFrom(k, d)
<1>1. ~Awaited(d)
    BY DEF Awaited
<1>. QED
    BY <1>1 DEF FillInv, FillAt

\* What is held by an item below.
LEMMA HeldBelow ==
    ASSUME IInv, IInv', RegionInv, Turned, NEW j \in 1..(Depth - 1), State(j)' = 2
    PROVE  /\ j \in DOMAIN worklist /\ State(j) = 2 /\ Holding(j) /\ Opens(j)
           /\ HeldBlocks(j)' = HeldBlocks(j)
<1>1. j \in DOMAIN worklist /\ State(j) = 2
    BY TurnViews
<1>2. Holding(j) /\ Opens(j)
    BY <1>1 DEF Holding, Opens
<1>. QED
    BY <1>1, <1>2, BelowEntries

\* Turns that make no blocks.
LEMMA QuietFill ==
    ASSUME IInv, IInv', RegionInv, CleanInv, FillInv, TurnStep, NEW p, NEW is, Quiet(p, is)
    PROVE  FillInv'
<1>1. /\ p = Depth /\ walk' = <<>> /\ Blocks' = Blocks /\ Turned /\ worklist # <<>>
      /\ walk = <<>> /\ ~Opens(p)
    BY DEF Quiet, TurnStep, Turned
<1>2. Firm
    BY PlainFirm
<1>3. \A j \in DOMAIN worklist' : Opens(j)' => j \in 1..(Depth - 1)
    BY <1>1, NextPositions DEF Quiet
<1>4. \A j \in DOMAIN worklist' : Testing(j)' \/ State(j)' = 2 => Opens(j)'
    BY DEF Opens, Holding
<1>. SUFFICES ASSUME NEW k \in DOMAIN worklist', Opens(k)', NEW d \in Inside(k)'
              PROVE  FillAt(k, d)'
    BY DEF FillInv
<1>5. /\ k \in 1..(Depth - 1) /\ k \in DOMAIN worklist /\ Opens(k)
    BY <1>1, <1>3, TurnViews
<1>6. d \in Blocks /\ d \in Inside(k)
    <2>1. Inside(k)' \subseteq Blocks'
        BY DEF Inside
    <2>2. Inside(k)' \cap Blocks \subseteq Inside(k)
        BY <1>1, <1>5, TurnInside
    <2>. QED
        BY <1>1, <2>1, <2>2
<1>7. FedFrom(k, d) => FedFrom(k, d)'
    <2>1. \A j : j = Depth /\ Kind(j) = "BLOCK" /\ State(j) = 1 => d \notin Inside(j)
        BY <1>1 DEF Opens, Holding
    <2>. QED
        BY <1>1, <1>2, <1>5, <2>1, TurnFed
<1>8. Clean(d)' => FedFrom(k, d)'
    BY <1>1, <1>2, <1>5, <1>6, <1>7, FedBefore DEF Firm
<1>9. Left(d)' => FedFrom(k, d)'
    <2>1. ASSUME Left(d)'
          PROVE  Left(d)
        <3>1. DOMAIN walk' = {}
            BY <1>1
        <3>2. \A i \in DOMAIN worklist' : i >= p => ~(Testing(i)' \/ State(i)' = 2)
            BY <1>4 DEF Quiet
        <3>. QED
            BY <1>1, <2>1, <3>1, <3>2, LeftBefore
    <2>. QED
        BY <1>1, <1>5, <1>6, <1>7, <2>1, FedBefore
<1>10. ASSUME NEW j \in DOMAIN worklist', j > k, State(j)' = 2,
              d \in Elements(HeldBlocks(j))'
       PROVE  FedFrom(k, d)'
    <2>1. j \in 1..(Depth - 1)
        BY <1>3, <1>4, <1>10
    <2>2. j \in DOMAIN worklist /\ State(j) = 2 /\ HeldBlocks(j)' = HeldBlocks(j)
        BY <1>1, <1>10, <2>1, HeldBelow
    <2>3. d \in Elements(HeldBlocks(j))
        BY <1>10, <2>2 DEF Elements
    <2>. QED
        BY <1>1, <1>5, <1>6, <1>7, <1>10, <2>2, <2>3, FedBefore
<1>. QED
    BY <1>8, <1>9, <1>10 DEF FillAt

\* The block of the item that opens was fed.
LEMMA TopFed ==
    ASSUME IInv, IInv', RegionInv, CleanInv, FillInv, Turned,
           NEW k \in 1..(Depth - 1), Opens(k), NEW t, t = Top.block
    PROVE  k \in DOMAIN worklist /\ t \in Inside(k) /\ FedFrom(k, t)
<1>1. worklist # <<>> /\ walk = <<>>
    BY DEF Turned
<1>2. k \in DOMAIN worklist
    BY TurnViews
<1>3. t \in Inside(k)
    BY <1>1, TurnInside, TopUses
<1>4. Depth \in DOMAIN worklist /\ t = worklist[Depth].block
    BY <1>1, Positions
<1>5. Clean(t) \/ Left(t)
    <2>1. CleanItem(Depth)
        BY <1>4 DEF CleanInv
    <2>. QED
        BY <1>4, <2>1 DEF CleanItem
<1>. QED
    BY <1>1, <1>2, <1>3, <1>5, FedBefore

\* What an item opens it enters.
LEMMA OpenEntries ==
    ASSUME IInv, IInv', NEW d, NEW m, NEW e, NEW s, NEW is,
           Opened(d, m, e, s), Leading(d, e, is), Guides(d, e, is)
    PROVE  /\ Inside(d)' = New \ Spare(d)' /\ Entries(d)' = New \ Spare(d)'
           /\ NextBlock \in Inside(d)' /\ Floor(d)' = NextBlock
           /\ State(d)' = 2 => Elements(HeldBlocks(d))' = New
           /\ Testing(d)' => New = {NextBlock} /\ State(d)' # 2
<1>1. /\ Floor(d)' = NextBlock /\ NextBlock \notin Spare(d)' /\ Inner(d)' = New
      /\ Blocks' = 0..(NextBlock + m - 1) /\ New = NextBlock..(NextBlock + m - 1)
      /\ m \in 1..2 /\ Opens(d)'
    BY DEF Opened
<1>2. NextBlock \in Nat
    BY DEF IInv, CodeInv
<1>3. {b \in Blocks' : b >= NextBlock} = New /\ NextBlock \in New
    BY <1>1, <1>2
<1>4. Inside(d)' = New \ Spare(d)' /\ NextBlock \in Inside(d)'
    BY <1>1, <1>3 DEF Inside
<1>5. CASE Testing(d)'
    <2>1. State(d)' # 2 /\ State(d)' = 1 /\ Kind(d)' = "WHILE"
        BY <1>5 DEF Testing
    <2>2. New = {NextBlock}
        BY <2>1 DEF Guides
    <2>3. Entries(d)' = {NextBlock}
        BY <1>1, <1>5 DEF Entries, Floor
    <2>. QED
        BY <1>1, <1>4, <2>1, <2>2, <2>3
<1>6. CASE ~Testing(d)'
    <2>1. Inner(d)' = Elements(HeldBlocks(d))'
        BY <1>1, <1>6 DEF Inner, Opens
    <2>2. Entries(d)' = Elements(HeldBlocks(d))' \ Spare(d)'
        BY <1>6 DEF Entries
    <2>. QED
        BY <1>1, <1>4, <1>6, <2>1, <2>2
<1>. QED
    BY <1>5, <1>6

\* Turns that make blocks and wait for them.
LEMMA OpenFill ==
    ASSUME IInv, IInv', RegionInv, CleanInv, FillInv, TurnStep,
           NEW p, NEW m, NEW e, NEW s, NEW is,
           Opened(p, m, e, s), Leading(p, e, is), Guides(p, e, is), Pushes(p)
    PROVE  FillInv'
<1>1. /\ p = Depth /\ walk' = walk /\ walk = <<>> /\ Turned /\ worklist # <<>>
      /\ (Opens(p) => Testing(p))
    BY DEF TurnStep, Turned, Opened, Guides
<1>2. Firm
    BY OpenFirm
<1>3. /\ Inside(p)' = New \ Spare(p)' /\ Entries(p)' = New \ Spare(p)'
      /\ NextBlock \in Inside(p)'
      /\ State(p)' = 2 => Elements(HeldBlocks(p))' = New
      /\ Testing(p)' => State(p)' # 2
    BY OpenEntries
<1>4. \A j \in DOMAIN worklist' : /\ j \in 1..(Depth - 1) \/ j = Depth \/ j > Depth
                                  /\ j \in Nat /\ Depth \in Nat
                                  /\ j > Depth => State(j)' = 0
    <2>1. \A j \in DOMAIN worklist' : /\ j \in 1..(Depth - 1) \/ j >= Depth
                                      /\ j \in Nat /\ Depth \in Nat
        BY <1>1, NextPositions
    <2>2. \A x, y \in Nat : x >= y => x = y \/ x > y
        OBVIOUS
    <2>. QED
        BY <1>1, <2>1, <2>2 DEF Pushes
<1>5. \A j \in DOMAIN worklist' : State(j)' = 0 => ~Opens(j)' /\ ~Testing(j)'
    BY DEF Opens, Testing, Holding
<1>6. DOMAIN walk' = {}
    BY <1>1
<1>. SUFFICES ASSUME NEW k \in DOMAIN worklist', Opens(k)', NEW d \in Inside(k)'
              PROVE  FillAt(k, d)'
    BY DEF FillInv
<1>7. CASE k = Depth
    <2>1. d \in Entries(k)'
        BY <1>1, <1>3, <1>7
    <2>2. Comes(d, d)'
        BY DEF Comes
    <2>. QED
        BY <2>1, <2>2 DEF FillAt, FedFrom
<1>8. CASE k \in 1..(Depth - 1)
    <2>1. k \in DOMAIN worklist /\ Opens(k)
        BY <1>1, <1>8, TurnViews
    <2>2. \A c : FedFrom(k, c) => FedFrom(k, c)'
        <3>1. \A c : \A j : j = Depth /\ Kind(j) = "BLOCK" /\ State(j) = 1 => c \notin Inside(j)
            BY <1>1 DEF Opens, Holding, Testing
        <3>. QED
            BY <1>1, <1>2, <1>8, <2>1, <3>1, TurnFed
    <2>3. PICK t : t = Top.block
        OBVIOUS
    <2>4. FedFrom(k, t)'
        BY <1>1, <1>8, <2>1, <2>2, <2>3, TopFed
    <2>5. CASE d \in Blocks
        <3>1. d \in Inside(k)
            BY <1>1, <1>8, <2>1, <2>5, TurnInside
        <3>2. Clean(d)' => FedFrom(k, d)'
            BY <1>1, <1>2, <2>1, <2>2, <2>5, <3>1, FedBefore DEF Firm
        <3>3. ASSUME Left(d)'
              PROVE  FedFrom(k, d)'
            <4>1. CASE Left(d)
                BY <1>1, <2>1, <2>2, <3>1, <4>1, FedBefore
            <4>2. CASE \E i \in DOMAIN worklist' : /\ i >= p /\ (Testing(i)' \/ State(i)' = 2)
                                                   /\ worklist'[i].block = d
                <5>1. PICK i \in DOMAIN worklist' : /\ i >= p /\ (Testing(i)' \/ State(i)' = 2)
                                                    /\ worklist'[i].block = d
                    BY <4>2
                <5>2. i = Depth
                    BY <1>1, <1>4, <1>5, <5>1
                <5>3. d = t
                    BY <1>1, <2>3, <5>1, <5>2 DEF Leading
                <5>. QED
                    BY <2>4, <5>3
            <4>. QED
                BY <1>1, <1>6, <3>3, <4>1, <4>2, LeftBefore
        <3>4. ASSUME NEW j \in DOMAIN worklist', j > k, State(j)' = 2,
                     d \in Elements(HeldBlocks(j))'
              PROVE  FedFrom(k, d)'
            <4>1. j # Depth
                BY <1>1, <1>3, <2>5, <3>4 DEF New
            <4>2. j \in 1..(Depth - 1)
                BY <1>4, <3>4, <4>1
            <4>3. j \in DOMAIN worklist /\ State(j) = 2 /\ HeldBlocks(j)' = HeldBlocks(j)
                BY <1>1, <3>4, <4>2, HeldBelow
            <4>4. d \in Elements(HeldBlocks(j))
                BY <3>4, <4>3 DEF Elements
            <4>. QED
                BY <1>1, <2>1, <2>2, <3>1, <3>4, <4>3, <4>4, FedBefore
        <3>. QED
            BY <3>2, <3>3, <3>4 DEF FillAt
    <2>6. CASE d \notin Blocks
        <3>1. d \in New
            BY <2>6 DEF New, Inside
        <3>2. k < Depth /\ Depth > k
            BY <1>1, <1>4, <1>8
        <3>3. CASE ~(Testing(p)' \/ State(p)' = 2)
            <4>1. /\ Kind(p)' = "BLOCK" /\ State(p)' = 1 /\ New = {NextBlock}
                  /\ p \in DOMAIN worklist'
                BY <3>3 DEF Guides, Pushes
            <4>2. d \in Inside(p)'
                BY <1>3, <3>1, <4>1
            <4>3. FedFrom(k, d)'
                BY <1>1, <3>2, <4>1, <4>2 DEF FedFrom
            <4>. QED
                BY <4>3 DEF FillAt
        <3>4. CASE Testing(p)' \/ State(p)' = 2
            <4>1. d \in Elements(succ'[t])
                BY <2>3, <3>1, <3>4 DEF Guides
            <4>2. CASE \E a \in Entries(k)' : Comes(a, t)'
                <5>1. PICK a \in Entries(k)' : Comes(a, t)'
                    BY <4>2
                <5>2. Comes(a, d)'
                    BY <4>1, <5>1 DEF Comes, Joined, Enclosed
                <5>. QED
                    BY <5>1, <5>2 DEF FillAt, FedFrom
            <4>3. CASE \E j \in DOMAIN worklist' :
                          j > k /\ Kind(j)' = "BLOCK" /\ State(j)' = 1 /\ t \in Inside(j)'
                <5>1. PICK j \in DOMAIN worklist' :
                          j > k /\ Kind(j)' = "BLOCK" /\ State(j)' = 1 /\ t \in Inside(j)'
                    BY <4>3
                <5>2. j # Depth
                    BY <1>1, <3>4, <5>1 DEF Testing
                <5>3. j \in 1..(Depth - 1)
                    BY <1>4, <5>1, <5>2
                <5>4. Opens(j)
                    <6>1. Kind(j) = "BLOCK" /\ State(j) = 1
                        BY <1>1, <5>1, <5>3, TurnViews
                    <6>. QED
                        BY <6>1 DEF Opens, Holding
                <5>5. d \in Inside(j)'
                    BY <1>1, <3>1, <5>3, <5>4, TurnInside
                <5>. QED
                    BY <5>1, <5>5 DEF FillAt, FedFrom
            <4>. QED
                BY <2>4, <4>2, <4>3 DEF FedFrom
        <3>. QED
            BY <3>3, <3>4
    <2>. QED
        BY <2>5, <2>6
<1>. QED
    BY <1>4, <1>5, <1>7, <1>8

\* The walk that leaves a region comes to all of it.
LEMMA LeaveAwaited ==
    ASSUME IInv, IInv', RegionInv, CleanInv, FillInv, TurnStep,
           NEW p, NEW m, NEW is, NEW S,
           Closing(p, m), Meets(p, m, is), Calls(p, is), S = Inside(p),
           NEW d \in S, Clean(d)'
    PROVE  Awaited(d)'
<1>1. /\ p = Depth /\ walk = <<>> /\ Turned /\ worklist # <<>> /\ Opens(p)
      /\ DOMAIN walk = {} /\ d \in Blocks
    BY DEF TurnStep, Turned, Closing, Inside
<1>2. Firm
    BY LeaveFirm
<1>3. p \in DOMAIN worklist
    BY <1>1, Positions
<1>4. Nested(p)
    BY <1>1, <1>3 DEF RegionInv, Regions
<1>5. FedFrom(p, d)
    <2>1. Clean(d)
        BY <1>1, <1>2 DEF Firm
    <2>. QED
        BY <1>1, <1>3, <2>1, FedBefore
<1>6. \A j \in DOMAIN worklist : ~(j > p)
    <2>1. \A n \in Nat : \A x \in 1..(n - 1) : ~(x > n)
        OBVIOUS
    <2>2. Depth \in Nat /\ \A j \in DOMAIN worklist : j \in 1..(Depth - 1) \/ j = Depth
        BY <1>1, NextPositions
    <2>. QED
        BY <1>1, <2>1, <2>2
<1>7. PICK a \in Entries(p) : Comes(a, d)
    BY <1>5, <1>6 DEF FedFrom
<1>8. PICK w \in DOMAIN walk' : walk'[w].do \in Walks /\ walk'[w].block = a
    BY DEF Calls
<1>9. PICK j : j = walk'[w].jump
    OBVIOUS
<1>10. j \notin S /\ a \in S
    BY <1>1, <1>3, <1>9, EntriesTyped DEF Closing
<1>11. Covers(a, j, d)'
    <2>. SUFFICES ASSUME NEW T \in SUBSET Blocks', a \in T,
                         \A b \in T : b # j => Elements(succ'[b]) \subseteq T
                  PROVE  d \in T
        BY DEF Covers
    <2>1. T \cap S \in SUBSET Blocks /\ a \in T \cap S
        BY <1>10 DEF Inside
    <2>2. \A b \in T \cap S : Elements(succ[b]) \subseteq T \cap S
        <3>1. \A b \in T \cap S : b \in Blocks /\ b # j
            BY <1>10, <2>1
        <3>2. \A b \in T \cap S : Elements(succ[b]) \subseteq T
            BY <1>2, <3>1 DEF Firm
        <3>3. \A b \in T \cap S : Elements(succ[b]) \subseteq S
            BY <1>4 DEF Nested
        <3>. QED
            BY <3>2, <3>3
    <2>3. Joined(T \cap S)
        BY <1>1, <2>2 DEF Joined, Enclosed
    <2>4. d \in T \cap S
        BY <1>7, <2>1, <2>3 DEF Comes
    <2>. QED
        BY <2>4
<1>12. walk'[w].jump = j /\ d # j
    BY <1>9, <1>10
<1>. QED
    BY <1>8, <1>11, <1>12 DEF Awaited, Walker

\* Turns that leave a region: its blocks are awaited.
LEMMA LeaveFill ==
    ASSUME IInv, IInv', RegionInv, CleanInv, FillInv, TurnStep,
           NEW p, NEW m, NEW is, NEW S,
           Closing(p, m), Meets(p, m, is), Calls(p, is), S = Inside(p), Apart(S)'
    PROVE  FillInv'
<1>1. /\ p = Depth /\ walk = <<>> /\ Turned /\ worklist # <<>> /\ Opens(p)
      /\ worklist' = Rest
    BY DEF TurnStep, Turned, Closing
<1>2. Firm
    BY LeaveFirm
<1>3. p \in DOMAIN worklist /\ worklist[p].block = Top.block
    BY <1>1, Positions
<1>4. DOMAIN worklist' = 1..(Depth - 1)
    BY <1>1, Popped
<1>5. Nested(p)
    BY <1>1, <1>3 DEF RegionInv, Regions
<1>6. \A j \in 1..(Depth - 1) : j < Depth /\ Depth > j
    <2>1. Depth \in Nat
        BY <1>1, NextPositions
    <2>. QED
        BY <2>1
<1>. SUFFICES ASSUME NEW k \in DOMAIN worklist', Opens(k)', NEW d \in Inside(k)'
              PROVE  FillAt(k, d)'
    BY DEF FillInv
<1>7. k \in 1..(Depth - 1) /\ k \in DOMAIN worklist /\ Opens(k)
    BY <1>1, <1>4, TurnViews
<1>8. CASE d \in Blocks /\ d \in S
    <2>1. d \in Inside(p) /\ Clean(d) => FedFrom(p, d)
        BY <1>1, <1>3, <1>8, FedBefore
    <2>2. Clean(d)' => Awaited(d)'
        BY <1>8, LeaveAwaited
    <2>3. \A j \in 1..(Depth - 1) : j \in DOMAIN worklist /\ Uses(j) \cap Inside(p) = {}
        <3>1. \A j \in 1..(Depth - 1) : j \in DOMAIN worklist
            BY <1>1, TurnViews
        <3>. QED
            BY <1>1, <1>3, <1>6, <3>1, BelowIsOutside
    <2>4. ~Left(d)'
        <3>1. ~\E i \in 1..(Depth - 1) : worklist[i].block = d
            BY <1>8, <2>3, UsesTyped
        <3>2. ~\E i \in DOMAIN worklist' : i >= p
            <4>1. Depth \in Nat
                BY <1>1, NextPositions
            <4>. QED
                BY <1>1, <1>4, <4>1
        <3>3. ~\E w \in DOMAIN walk' : walk'[w].do = "rewrite" /\ walk'[w].block = d
            <4>1. Top.block \in Outer(p) /\ Top.block \notin Inside(p)
                BY <1>1, <1>3, BelowIsOutside DEF Outer
            <4>. QED
                BY <1>8, <4>1 DEF Closing
        <3>. QED
            BY <1>1, <3>1, <3>2, <3>3, LeftBefore
    <2>5. ASSUME NEW j \in DOMAIN worklist', State(j)' = 2, d \in Elements(HeldBlocks(j))'
          PROVE  FALSE
        <3>1. /\ j \in DOMAIN worklist /\ Holding(j) /\ Opens(j)
              /\ HeldBlocks(j)' = HeldBlocks(j)
            BY <1>1, <1>4, <2>5, HeldBelow
        <3>2. d \in Elements(HeldBlocks(j))
            BY <2>5, <3>1 DEF Elements
        <3>3. d \in Uses(j)
            BY <3>1, <3>2, EntriesTyped
        <3>. QED
            BY <1>4, <1>8, <2>3, <3>3
    <2>. QED
        BY <2>2, <2>4, <2>5 DEF FillAt
<1>9. CASE d \in Blocks /\ d \notin S
    <2>1. FedFrom(k, d) => FedFrom(k, d)'
        BY <1>1, <1>2, <1>7, <1>9, TurnFed
    <2>2. d \in Inside(k)
        BY <1>1, <1>7, <1>9, TurnInside
    <2>3. Clean(d)' => FedFrom(k, d)'
        BY <1>1, <1>2, <1>7, <1>9, <2>1, <2>2, FedBefore DEF Firm
    <2>4. ASSUME Left(d)'
          PROVE  Left(d)
        <3>1. ~\E i \in DOMAIN worklist' : i >= p
            <4>1. Depth \in Nat
                BY <1>1, NextPositions
            <4>. QED
                BY <1>1, <1>4, <4>1
        <3>2. CASE \E w \in DOMAIN walk' : walk'[w].do = "rewrite" /\ walk'[w].block = d
            <4>1. State(p) = 2 /\ worklist[p].block = d
                BY <1>3, <3>2 DEF Calls, Closing
            <4>. QED
                BY <1>3, <4>1 DEF Left
        <3>. QED
            BY <1>1, <2>4, <3>1, <3>2, LeftBefore
    <2>5. ASSUME NEW j \in DOMAIN worklist', j > k, State(j)' = 2,
                 d \in Elements(HeldBlocks(j))'
          PROVE  FedFrom(k, d)'
        <3>1. j \in DOMAIN worklist /\ State(j) = 2 /\ HeldBlocks(j)' = HeldBlocks(j)
            BY <1>1, <1>4, <2>5, HeldBelow
        <3>2. d \in Elements(HeldBlocks(j))
            BY <2>5, <3>1 DEF Elements
        <3>. QED
            BY <1>1, <1>7, <2>1, <2>2, <2>5, <3>1, <3>2, FedBefore
    <2>6. Left(d)' => FedFrom(k, d)'
        BY <1>1, <1>7, <2>1, <2>2, <2>4, FedBefore
    <2>. QED
        BY <2>3, <2>5, <2>6 DEF FillAt
<1>10. CASE d \notin Blocks
    <2>1. d \in New
        BY <1>10 DEF New, Inside
    <2>2. PICK w \in DOMAIN walk' : walk'[w].do = "link" /\ walk'[w].jump = d
        BY <2>1 DEF Calls
    <2>3. PICK x : x = walk'[w].block
        OBVIOUS
    <2>4. State(p) = 2 /\ x \in Entries(p)
        BY <2>2, <2>3 DEF Calls
    <2>5. Holding(p) /\ ~Testing(p)
        BY <2>4 DEF Holding, Testing
    <2>6. x \in Elements(HeldBlocks(p)) /\ x \in Uses(p)
        BY <1>1, <1>3, <2>4, <2>5, EntriesTyped DEF Entries
    <2>7. x \in Inside(k)
        BY <1>1, <1>7, <2>6, TurnInside
    <2>8. FedFrom(k, x)
        BY <1>1, <1>3, <1>6, <1>7, <2>4, <2>6, <2>7, FedBefore
    <2>9. FedFrom(k, x)'
        BY <1>1, <1>2, <1>7, <2>4, <2>8, TurnFed
    <2>10. CASE \E a \in Entries(k)' : Comes(a, x)'
        <3>1. PICK a \in Entries(k)' : Comes(a, x)'
            BY <2>10
        <3>2. \A T : Joined(T)' /\ x \in T => d \in T
            BY <2>2, <2>3 DEF Joined
        <3>3. Comes(a, d)'
            BY <3>1, <3>2 DEF Comes
        <3>. QED
            BY <3>1, <3>3 DEF FillAt, FedFrom
    <2>11. CASE \E j \in DOMAIN worklist' :
                   j > k /\ Kind(j)' = "BLOCK" /\ State(j)' = 1 /\ x \in Inside(j)'
        <3>1. PICK j \in DOMAIN worklist' :
                   j > k /\ Kind(j)' = "BLOCK" /\ State(j)' = 1 /\ x \in Inside(j)'
            BY <2>11
        <3>2. Opens(j)
            <4>1. Kind(j) = "BLOCK" /\ State(j) = 1
                BY <1>1, <1>4, <3>1, TurnViews
            <4>. QED
                BY <4>1 DEF Opens, Holding
        <3>3. d \in Inside(j)'
            BY <1>1, <1>4, <2>1, <3>1, <3>2, TurnInside
        <3>. QED
            BY <3>1, <3>3 DEF FillAt, FedFrom
    <2>. QED
        BY <2>9, <2>10, <2>11 DEF FedFrom
<1>. QED
    BY <1>8, <1>9, <1>10

\* The steps of a walk leave what is to be added.
LEMMA WalkLinks ==
    ASSUME IInv, RegionInv, WalkStep,
           WalkJump \/ WalkReturn \/ WalkDescend \/ WalkSkip \/ WalkLink
    PROVE  LinksKept
<1>1. walk # <<>> /\ 1 \in DOMAIN walk /\ Call = walk[1]
    BY Frames DEF WalkStep, Walked
<1>. SUFFICES ASSUME NEW w \in DOMAIN walk, walk[w].do = "link", walk[w].block \in Blocks
              PROVE  \/ walk[w].jump \in Elements(succ'[walk[w].block])
                     \/ \E v \in DOMAIN walk' : walk'[v] = walk[w]
    BY DEF LinksKept
<1>2. CASE w # 1
    BY <1>2 DEF WalkStep, Follows
<1>3. CASE w = 1
    <2>1. WalkLink
        BY <1>1, <1>3 DEF WalkJump, WalkReturn, WalkDescend, WalkSkip, Walking, Walks
    <2>2. Call.block \in Blocks /\ Call.jump \in Blocks
        BY <1>1, <1>3, CallReady DEF FrameReady
    <2>3. succ' = [succ EXCEPT ![Call.block] = Append(@, Call.jump)]
        BY <2>1 DEF WalkLink
    <2>4. Call.jump \in Elements(succ'[Call.block])
        BY <2>2, <2>3, SuccAdded
    <2>. QED
        BY <1>1, <1>3, <2>4
<1>. QED
    BY <1>2, <1>3

\* What is fed stays so.
LEMMA WalkFed ==
    ASSUME IInv, RegionInv, Firm, LinksKept, NEW k \in DOMAIN worklist, Opens(k),
           NEW d, FedFrom(k, d), Entries(k)' = Entries(k),
           \A j \in DOMAIN worklist :
              /\ j \in DOMAIN worklist' /\ Kind(j)' = Kind(j) /\ State(j)' = State(j)
              /\ Opens(j) => Inside(j)' = Inside(j)
    PROVE  FedFrom(k, d)'
<1>1. CASE \E a \in Entries(k) : Comes(a, d)
    <2>1. PICK a \in Entries(k) : Comes(a, d)
        BY <1>1
    <2>2. a \in Blocks
        BY EntriesTyped
    <2>3. Comes(a, d)'
        BY <2>1, <2>2, ComesKept
    <2>. QED
        BY <2>1, <2>3 DEF FedFrom
<1>2. CASE \E j \in DOMAIN worklist :
              j > k /\ Kind(j) = "BLOCK" /\ State(j) = 1 /\ d \in Inside(j)
    <2>1. PICK j \in DOMAIN worklist :
              j > k /\ Kind(j) = "BLOCK" /\ State(j) = 1 /\ d \in Inside(j)
        BY <1>2
    <2>2. Opens(j)
        BY <2>1 DEF Opens, Holding
    <2>3. d \in Inside(j)'
        BY <2>1, <2>2
    <2>. QED
        BY <2>1, <2>3 DEF FedFrom
<1>. QED
    BY <1>1, <1>2 DEF FedFrom

\* The steps of a walk.
LEMMA WalkFill ==
    ASSUME IInv, IInv', RegionInv, CleanInv, NeatInv, FillInv, WalkStep,
           WalkJump \/ WalkReturn \/ WalkDescend \/ WalkSkip \/ WalkLink
    PROVE  FillInv'
<1>1. Firm /\ LinksKept /\ Walked /\ Blocks' = Blocks /\ worklist' = worklist
    BY WalkFirm, WalkLinks DEF WalkStep, Walked
<1>. SUFFICES ASSUME NEW k \in DOMAIN worklist', Opens(k)', NEW d \in Inside(k)'
              PROVE  FillAt(k, d)'
    BY DEF FillInv
<1>2. \A j \in DOMAIN worklist :
         /\ j \in DOMAIN worklist' /\ worklist'[j] = worklist[j]
         /\ Kind(j)' = Kind(j) /\ State(j)' = State(j) /\ (Testing(j)' <=> Testing(j))
         /\ (Opens(j)' <=> Opens(j))
         /\ Opens(j) => Inside(j)' = Inside(j) /\ Entries(j)' = Entries(j)
         /\ Holding(j) => HeldBlocks(j)' = HeldBlocks(j)
    BY <1>1, WalkedItems
<1>3. k \in DOMAIN worklist /\ Opens(k) /\ d \in Inside(k) /\ d \in Blocks
    BY <1>1, <1>2 DEF Inside
<1>4. FedFrom(k, d) => FedFrom(k, d)'
    BY <1>1, <1>2, <1>3, WalkFed
<1>5. FillAt(k, d)
    BY <1>3 DEF FillInv
<1>6. Clean(d)' => Awaited(d)' \/ FedFrom(k, d)'
    BY <1>1, <1>3, <1>4, <1>5, AwaitedKept DEF FillAt, Firm
<1>7. Left(d)' => Left(d)
    <2>1. ASSUME NEW v \in DOMAIN walk', walk'[v].do = "rewrite", walk'[v].block = d
          PROVE  Left(d)
        <3>1. PICK w \in DOMAIN walk : walk'[v] = walk[w]
            BY <2>1 DEF WalkStep, Follows, Walks
        <3>. QED
            BY <2>1, <3>1 DEF Left
    <2>2. ASSUME NEW i \in DOMAIN worklist', Testing(i)' \/ State(i)' = 2,
                 worklist'[i].block = d
          PROVE  Left(d)
        <3>1. i \in DOMAIN worklist /\ worklist[i].block = d /\ (Testing(i) \/ State(i) = 2)
            BY <1>1, <1>2, <2>2
        <3>. QED
            BY <3>1 DEF Left
    <2>. QED
        BY <2>1, <2>2 DEF Left
<1>8. ASSUME NEW j \in DOMAIN worklist', j > k, State(j)' = 2, d \in Elements(HeldBlocks(j))'
      PROVE  FedFrom(k, d)'
    <2>1. j \in DOMAIN worklist /\ State(j) = 2
        BY <1>1, <1>2, <1>8
    <2>2. Holding(j)
        BY <2>1 DEF Holding
    <2>3. HeldBlocks(j)' = HeldBlocks(j)
        BY <1>2, <2>1, <2>2
    <2>4. d \in Elements(HeldBlocks(j))
        BY <1>8, <2>3 DEF Elements
    <2>. QED
        BY <1>4, <1>5, <1>8, <2>1, <2>4 DEF FillAt
<1>. QED
    BY <1>4, <1>5, <1>6, <1>7, <1>8 DEF FillAt

\* And the one that goes on elsewhere.
LEMMA RewriteFill ==
    ASSUME IInv, IInv', RegionInv, CleanInv, NeatInv, FillInv, WalkRewrite
    PROVE  FillInv'
<1>1. /\ walk # <<>> /\ Call.do = "rewrite" /\ code' = code /\ succ' = succ
      /\ DOMAIN worklist' = DOMAIN worklist
    BY DEF WalkRewrite, Walking
<1>2. walk' = <<>> /\ Len(walk) = 1 /\ Firm /\ Blocks' = Blocks
    BY <1>1, RewriteNeat, SameFirm, NothingWritten
<1>3. /\ DOMAIN walk = 1..Len(walk) /\ Call = walk[1]
    BY <1>1, Frames
<1>4. \A w \in DOMAIN walk : w = 1
    BY <1>2, <1>3
<1>5. LinksKept
    BY <1>1, <1>3, <1>4 DEF LinksKept
<1>. SUFFICES ASSUME NEW k \in DOMAIN worklist', Opens(k)', NEW d \in Inside(k)'
              PROVE  FillAt(k, d)'
    BY DEF FillInv
<1>6. \A j \in DOMAIN worklist :
         /\ j \in DOMAIN worklist'
         /\ Kind(j)' = Kind(j) /\ State(j)' = State(j) /\ (Testing(j)' <=> Testing(j))
         /\ (Opens(j)' <=> Opens(j))
         /\ Opens(j) => Inside(j)' = Inside(j) /\ Entries(j)' = Entries(j)
         /\ Holding(j) => HeldBlocks(j)' = HeldBlocks(j)
         /\ worklist'[j].block = IF worklist[j].block = Call.block THEN Call.jump
                                 ELSE worklist[j].block
    BY RewrittenItems
<1>7. k \in DOMAIN worklist /\ Opens(k) /\ d \in Inside(k) /\ d \in Blocks
    BY <1>1, <1>6 DEF Inside
<1>8. FedFrom(k, d) => FedFrom(k, d)'
    BY <1>2, <1>5, <1>6, <1>7, WalkFed
<1>9. FillAt(k, d)
    BY <1>7 DEF FillInv
<1>10. ~Awaited(d)
    <2>1. Call.do \notin Walks
        BY <1>1 DEF Walks
    <2>. QED
        BY <1>1, <2>1, NoWalkers DEF Awaited
<1>11. Clean(d)' => FedFrom(k, d)'
    BY <1>2, <1>7, <1>8, <1>9, <1>10 DEF FillAt, Firm
<1>12. Left(d)' => Left(d)
    <2>1. DOMAIN walk' = {}
        BY <1>2
    <2>2. ASSUME NEW i \in DOMAIN worklist', Testing(i)' \/ State(i)' = 2,
                 worklist'[i].block = d
          PROVE  Left(d)
        <3>1. i \in DOMAIN worklist /\ (Testing(i) \/ State(i) = 2)
            BY <1>1, <1>6, <2>2
        <3>2. Opens(i)
            BY <3>1 DEF Opens, Holding
        <3>3. worklist[i].block = d
            BY <1>1, <1>6, <2>2, <3>1, <3>2, OpenStaysPut
        <3>. QED
            BY <3>1, <3>3 DEF Left
    <2>. QED
        BY <2>1, <2>2 DEF Left
<1>13. ASSUME NEW j \in DOMAIN worklist', j > k, State(j)' = 2, d \in Elements(HeldBlocks(j))'
       PROVE  FedFrom(k, d)'
    <2>1. j \in DOMAIN worklist /\ State(j) = 2
        BY <1>1, <1>6, <1>13
    <2>2. Holding(j)
        BY <2>1 DEF Holding
    <2>3. HeldBlocks(j)' = HeldBlocks(j)
        BY <1>6, <2>1, <2>2
    <2>4. d \in Elements(HeldBlocks(j))
        BY <1>13, <2>3 DEF Elements
    <2>. QED
        BY <1>8, <1>9, <1>13, <2>1, <2>4 DEF FillAt
<1>. QED
    BY <1>8, <1>9, <1>11, <1>12, <1>13 DEF FillAt

\* The first item opens nothing.
LEMMA InitOpens ==
    ASSUME Init
    PROVE  /\ walk = <<>> /\ DOMAIN walk = {} /\ worklist = <<Item(1, 0, 0)>>
           /\ \A j \in DOMAIN worklist : j = 1 /\ ~Opens(j) /\ State(j) = 0 /\ worklist[j].block = 0
           /\ succ = [b \in 0..0 |-> <<>>] /\ Blocks = {0}
           /\ code = [b \in 0..0 |-> <<Const("CONST_ARRAY", 0, Args), Store(1, 1, 0)>>]
<1>1. /\ walk = <<>> /\ worklist = <<Item(1, 0, 0)>>
      /\ succ = [b \in 0..0 |-> <<>>]
      /\ code = [b \in 0..0 |-> <<Const("CONST_ARRAY", 0, Args), Store(1, 1, 0)>>]
    BY DEF Init
<1>2. \A j \in DOMAIN worklist : j = 1 /\ State(j) = 0 /\ worklist[j].block = 0
    BY <1>1 DEF Item
<1>3. Blocks = {0}
    <2>1. 0..0 = {0}
        OBVIOUS
    <2>. QED
        BY <1>1, <2>1
<1>4. DOMAIN walk = {}
    BY <1>1
<1>. QED
    BY <1>1, <1>2, <1>3, <1>4 DEF Opens, Testing, Holding

\* The initial state.
LEMMA InitFill == Init => FillInv
    BY InitOpens DEF FillInv

-----------------------------------------------------------------------------
(* One block at a time is left to go on in. *)

\* Of the blocks in R, what lies above item k, but not in a region that is
\* open above it, is generated into e; every other block that nothing has left
\* is still to be left: a walk comes to it, it belongs to such a region, or it
\* is where a rewrite moves what follows.
Sole(k, R, e) ==
    /\ \A i \in DOMAIN worklist : i > k =>
          \/ worklist[i].block = e
          \/ \E j \in DOMAIN worklist : k < j /\ j < i /\ Opens(j)
    /\ \A w \in DOMAIN walk : walk[w].do = "rewrite" =>
          walk[w].block = e \/ \E j \in DOMAIN worklist : k < j /\ Opens(j)
    /\ \A d \in R : Clean(d) =>
          \/ d = e \/ Awaited(d)
          \/ \E j \in DOMAIN worklist : k < j /\ Opens(j) /\ d \in Inside(j) \cup Spare(j)
          \/ \E w \in DOMAIN walk : walk[w].do = "rewrite" /\ d = walk[w].jump
SoleInv ==
    /\ \E e \in Blocks : Sole(0, Blocks, e)
    /\ \A k \in DOMAIN worklist :
          Testing(k) => Sole(k, Inside(k), nodeBlock[Node(k)])

\* What writes no instruction that leaves a block leaves none.
LEMMA StaysClean ==
    ASSUME IInv, NEW e, NEW is, Wrote(e, is), Len(is) \in Nat,
           \A x \in 1..Len(is) : is[x].op \notin Leaving,
           NEW b \in Blocks, Clean(b)
    PROVE  Clean(b)'
<1>1. CASE b # e
    <2>1. code'[b] = code[b]
        BY <1>1 DEF Wrote
    <2>. QED
        BY <2>1 DEF Clean, Leaves
<1>2. CASE b = e
    <2>1. PICK l : l = OldLen(e)
        OBVIOUS
    <2>2. l \in Nat /\ DOMAIN code[b] = 1..l
        BY <1>2, <2>1, BlockIsSeq DEF OldLen, IInv
    <2>3. PICK n : n = Len(is)
        OBVIOUS
    <2>4. /\ DOMAIN code'[b] = 1..(l + n) /\ n \in Nat
          /\ \A x \in 1..l : code'[b][x] = code[b][x]
          /\ \A x \in 1..n : code'[b][l + x] = is[x]
        BY <1>2, <2>1, <2>3 DEF Wrote
    <2>5. ASSUME NEW j \in DOMAIN code'[b]
          PROVE  code'[b][j].op \notin Leaving
        <3>1. CASE j <= l
            BY <2>2, <2>4, <3>1 DEF Clean, Leaves
        <3>2. CASE ~(j <= l)
            <4>1. PICK x : x = j - l
                OBVIOUS
            <4>2. x \in 1..n /\ j = l + x
                BY <2>2, <2>4, <3>2, <4>1
            <4>. QED
                BY <2>3, <2>4, <4>2
        <3>. QED
            BY <3>1, <3>2
    <2>. QED
        BY <2>5 DEF Clean, Leaves
<1>. QED
    BY <1>1, <1>2

\* What an open item below the one that has the turn keeps.
LEMMA BelowOpens ==
    ASSUME IInv, IInv', RegionInv, Turned, NEW j \in DOMAIN worklist, Opens(j), j # Depth
    PROVE  /\ j \in DOMAIN worklist' /\ Opens(j)' /\ j < Depth
           /\ Inside(j) \cup Spare(j) \subseteq (Inside(j) \cup Spare(j))'
<1>1. j \in 1..(Depth - 1)
    BY NextPositions DEF Turned
<1>2. /\ j \in DOMAIN worklist' /\ Opens(j)' /\ j < Depth
      /\ Spare(j)' = Spare(j)
    BY <1>1, TurnViews
<1>3. Inside(j) \subseteq Inside(j)'
    BY <1>1, TurnInside
<1>. QED
    BY <1>2, <1>3

\* A turn, as a region below the item that has it sees it: what comes in its
\* place goes on in the same block, or in its region.
LEMMA TurnSole ==
    ASSUME IInv, IInv', RegionInv, Turned, Firm,
           NEW p, p = Depth, NEW k \in Nat, k < p, NEW R, NEW e, Sole(k, R, e),
           NEW T, T \cap Blocks \subseteq R, T \subseteq Blocks',
           \A i \in DOMAIN worklist' : i >= p =>
              worklist'[i].block = Top.block \/ (p < i /\ p \in DOMAIN worklist' /\ Opens(p)'),
           \A w \in DOMAIN walk' :
              walk'[w].do = "rewrite" => walk'[w].block = Top.block,
           \A d \in T : Clean(d)' /\ (d \in Blocks => Opens(p) /\ d \in Inside(p) \cup Spare(p)) =>
              \/ d = e \/ Awaited(d)'
              \/ p \in DOMAIN worklist' /\ Opens(p)' /\ d \in (Inside(p) \cup Spare(p))'
              \/ \E w \in DOMAIN walk' : walk'[w].do = "rewrite" /\ d = walk'[w].jump
    PROVE  Sole(k, T, e)'
<1>1. /\ worklist # <<>> /\ walk = <<>>
      /\ p \in DOMAIN worklist /\ worklist[p].block = Top.block
    BY Positions DEF Turned
<1>2. \A j \in DOMAIN worklist : Opens(j) /\ j # p =>
         /\ j \in DOMAIN worklist' /\ Opens(j)' /\ j < p
         /\ Inside(j) \cup Spare(j) \subseteq (Inside(j) \cup Spare(j))'
    BY BelowOpens
<1>3. \/ Top.block = e
      \/ \E j \in DOMAIN worklist' : k < j /\ j < p /\ Opens(j)'
    <2>1. CASE Top.block = e
        BY <2>1
    <2>2. CASE Top.block # e
        <3>1. p > k
            BY <1>1, NextPositions
        <3>2. PICK j \in DOMAIN worklist : k < j /\ j < p /\ Opens(j)
            BY <1>1, <2>2, <3>1 DEF Sole
        <3>3. j # p
            BY <1>1, <3>2, NextPositions
        <3>. QED
            BY <1>2, <3>2, <3>3
    <2>. QED
        BY <2>1, <2>2
<1>4. ASSUME NEW i \in DOMAIN worklist', i > k
      PROVE  \/ worklist'[i].block = e
             \/ \E j \in DOMAIN worklist' : k < j /\ j < i /\ Opens(j)'
    <2>1. CASE i \in 1..(Depth - 1)
        <3>1. i \in DOMAIN worklist /\ worklist'[i] = worklist[i] /\ i < p
            BY <2>1, TurnViews
        <3>2. CASE worklist[i].block = e
            BY <3>1, <3>2
        <3>3. CASE \E j \in DOMAIN worklist : k < j /\ j < i /\ Opens(j)
            <4>1. PICK j \in DOMAIN worklist : k < j /\ j < i /\ Opens(j)
                BY <3>3
            <4>2. j # p
                <5>1. j \in Nat /\ i \in Nat /\ p \in Nat
                    BY <1>1, <3>1, <4>1, NextPositions, Positions
                <5>. QED
                    BY <3>1, <4>1, <5>1
            <4>. QED
                BY <1>2, <4>1, <4>2
        <3>. QED
            BY <1>4, <3>1, <3>2, <3>3 DEF Sole
    <2>2. CASE i >= p
        <3>1. CASE worklist'[i].block = Top.block
            <4>1. CASE Top.block = e
                BY <3>1, <4>1
            <4>2. CASE Top.block # e
                <5>1. PICK j \in DOMAIN worklist' : k < j /\ j < p /\ Opens(j)'
                    BY <1>3, <4>2
                <5>2. i \in Nat /\ p \in Nat /\ j \in Nat
                    BY <1>1, <5>1, NextPositions
                <5>3. j < i
                    BY <2>2, <5>1, <5>2
                <5>. QED
                    BY <5>1, <5>3
            <4>. QED
                BY <4>1, <4>2
        <3>2. CASE p < i /\ p \in DOMAIN worklist' /\ Opens(p)'
            BY <3>2
        <3>. QED
            BY <2>2, <3>1, <3>2
    <2>. QED
        BY <1>1, <2>1, <2>2, NextPositions
<1>5. ASSUME NEW w \in DOMAIN walk', walk'[w].do = "rewrite"
      PROVE  walk'[w].block = e \/ \E j \in DOMAIN worklist' : k < j /\ Opens(j)'
    BY <1>3, <1>5
<1>6. ASSUME NEW d \in T, Clean(d)'
      PROVE  \/ d = e \/ Awaited(d)'
             \/ \E j \in DOMAIN worklist' : /\ k < j /\ Opens(j)'
                                            /\ d \in (Inside(j) \cup Spare(j))'
             \/ \E w \in DOMAIN walk' : walk'[w].do = "rewrite" /\ d = walk'[w].jump
    <2>1. CASE d \notin Blocks
        BY <1>6, <2>1
    <2>2. CASE d \in Blocks
        <3>1. Clean(d) /\ d \in R /\ ~Awaited(d) /\ DOMAIN walk = {}
            BY <1>1, <1>6, <2>2 DEF Firm, Awaited
        <3>2. \/ d = e
              \/ \E j \in DOMAIN worklist : k < j /\ Opens(j) /\ d \in Inside(j) \cup Spare(j)
            BY <3>1 DEF Sole
        <3>3. CASE d # e
            <4>1. PICK j \in DOMAIN worklist :
                     k < j /\ Opens(j) /\ d \in Inside(j) \cup Spare(j)
                BY <3>2, <3>3
            <4>2. CASE j = p
                BY <1>6, <4>1, <4>2
            <4>3. CASE j # p
                BY <1>2, <4>1, <4>3
            <4>. QED
                BY <4>2, <4>3
        <3>. QED
            BY <3>3
    <2>. QED
        BY <2>1, <2>2
<1>. QED
    BY <1>4, <1>5, <1>6 DEF Sole

\* What a turn keeps for every region below the item that has it.
LEMMA SoleBelow ==
    ASSUME IInv, IInv', RegionInv, SoleInv, Turned, NEW p, p = Depth, Blocks \subseteq Blocks',
           \A k \in Nat : k < p => \A R, e, T :
              Sole(k, R, e) /\ T \cap Blocks \subseteq R /\ T \subseteq Blocks' => Sole(k, T, e)',
           \A i \in DOMAIN worklist' : i >= p /\ Testing(i)' =>
              Sole(i, Inside(i), nodeBlock[Node(i)])'
    PROVE  SoleInv'
<1>1. worklist # <<>>
    BY DEF Turned
<1>2. \E e \in Blocks' : Sole(0, Blocks, e)'
    <2>1. PICK e \in Blocks : Sole(0, Blocks, e)
        BY DEF SoleInv
    <2>2. PICK B : B = Blocks
        OBVIOUS
    <2>3. 0 < p /\ 0 \in Nat
        BY <1>1, Positions
    <2>4. Sole(0, B, e)
        BY <2>1, <2>2
    <2>5. PICK T : T = Blocks'
        OBVIOUS
    <2>6. Sole(0, T, e)'
        BY <2>2, <2>3, <2>4, <2>5
    <2>7. Sole(0, Blocks, e)'
        BY <2>5, <2>6 DEF Sole
    <2>. QED
        BY <2>1, <2>7
<1>3. ASSUME NEW k \in DOMAIN worklist', Testing(k)'
      PROVE  Sole(k, Inside(k), nodeBlock[Node(k)])'
    <2>1. CASE k \in 1..(Depth - 1)
        <3>1. /\ k \in DOMAIN worklist /\ k < Depth /\ Testing(k) /\ Node(k)' = Node(k)
              /\ nodeBlock'[Node(k)] = nodeBlock[Node(k)]
            BY <1>3, <2>1, TurnViews DEF Opens
        <3>2. Opens(k)
            BY <3>1 DEF Opens
        <3>3. PICK e : e = nodeBlock[Node(k)]
            OBVIOUS
        <3>4. PICK R : R = Inside(k)
            OBVIOUS
        <3>5. PICK T : T = Inside(k)'
            OBVIOUS
        <3>6. Sole(k, R, e)
            BY <3>1, <3>3, <3>4 DEF SoleInv
        <3>7. T \cap Blocks \subseteq R /\ T \subseteq Blocks'
            <4>1. Inside(k)' \cap Blocks \subseteq Inside(k)
                BY <2>1, <3>2, TurnInside
            <4>2. Inside(k)' \subseteq Blocks'
                BY DEF Inside
            <4>. QED
                BY <3>4, <3>5, <4>1, <4>2
        <3>8. k \in Nat
            BY <2>1
        <3>9. Sole(k, T, e)'
            BY <3>1, <3>6, <3>7, <3>8
        <3>10. T = Inside(k)' /\ e = nodeBlock[Node(k)]'
            BY <3>1, <3>3, <3>5
        <3>. QED
            BY <3>9, <3>10 DEF Sole
    <2>2. CASE k >= p
        BY <1>3, <2>2
    <2>. QED
        BY <1>1, <2>1, <2>2, NextPositions
<1>. QED
    BY <1>2, <1>3 DEF SoleInv

\* Turns that make no blocks.
LEMMA QuietSole ==
    ASSUME IInv, IInv', RegionInv, CleanInv, SoleInv, TurnStep, NEW p, NEW is, Quiet(p, is)
    PROVE  SoleInv'
<1>1. /\ p = Depth /\ walk' = <<>> /\ Blocks' = Blocks /\ Turned /\ worklist # <<>>
      /\ ~Opens(p) /\ DOMAIN walk' = {}
    BY DEF Quiet, TurnStep, Turned
<1>2. Firm
    BY PlainFirm
<1>3. \A i \in DOMAIN worklist' : i >= p => worklist'[i].block = Top.block
    BY DEF Quiet
<1>4. ASSUME NEW k \in Nat, k < p, NEW R, NEW e, Sole(k, R, e),
             NEW T, T \cap Blocks \subseteq R, T \subseteq Blocks'
      PROVE  Sole(k, T, e)'
    <2>1. \A d \in T : d \in Blocks
        BY <1>1, <1>4
    <2>. QED
        BY <1>1, <1>2, <1>3, <1>4, <2>1, TurnSole
<1>5. \A i \in DOMAIN worklist' : i >= p => ~Testing(i)'
    BY DEF Quiet, Opens
<1>. QED
    BY <1>1, <1>4, <1>5, SoleBelow

\* Turns that make blocks and wait for them: the one left for them is left.
LEMMA OpenSole ==
    ASSUME IInv, IInv', RegionInv, CleanInv, NeatInv, SoleInv, TurnStep,
           NEW p, NEW m, NEW e, NEW s, NEW is,
           Opened(p, m, e, s), Leading(p, e, is), Guides(p, e, is), Pushes(p)
    PROVE  SoleInv'
<1>1. /\ p = Depth /\ walk' = walk /\ walk = <<>> /\ Turned /\ worklist # <<>>
      /\ DOMAIN walk = {} /\ DOMAIN walk' = {}
      /\ Opens(p) => Testing(p)
      /\ p \in DOMAIN worklist' /\ Opens(p)'
      /\ p \in DOMAIN worklist
    BY Positions DEF TurnStep, Turned, Opened, Guides, Pushes
<1>2. Firm
    BY OpenFirm
<1>3. /\ Inside(p)' = New \ Spare(p)' /\ NextBlock \in Inside(p)'
      /\ Testing(p)' => New = {NextBlock} /\ State(p)' # 2
    BY OpenEntries
<1>4. \A i \in DOMAIN worklist' : i >= p => i = p \/ p < i
    <2>1. \A x, y \in Nat : x >= y => x = y \/ y < x
        OBVIOUS
    <2>. QED
        BY <1>1, <2>1, NextPositions
<1>5. worklist'[p].block = Top.block
    BY DEF Leading
<1>6. ASSUME NEW d \in Blocks, Clean(d)', Opens(p), d \in Inside(p) \cup Spare(p)
      PROVE  FALSE
    <2>1. Testing(p) /\ Spare(p) = {}
        BY <1>1, <1>6 DEF Testing, Spare
    <2>2. PICK c : c = nodeBlock[Node(p)]
        OBVIOUS
    <2>3. PICK R : R = Inside(p)
        OBVIOUS
    <2>4. Sole(p, R, c)
        BY <1>1, <2>1, <2>2, <2>3 DEF SoleInv
    <2>5. ~\E j \in DOMAIN worklist : p < j
        <3>1. \A x \in Nat : \A y \in 1..(x - 1) : ~(x < y)
            OBVIOUS
        <3>2. \A x \in Nat : ~(x < x)
            OBVIOUS
        <3>. QED
            BY <1>1, <3>1, <3>2, NextPositions
    <2>6. ~Awaited(d) /\ Clean(d) /\ d \in R
        BY <1>1, <1>2, <1>6, <2>1, <2>3 DEF Awaited, Firm
    <2>7. d = c
        BY <1>1, <2>4, <2>5, <2>6 DEF Sole
    <2>8. e = c
        <3>1. Node(p) = Top.node
            BY <1>1, Positions
        <3>. QED
            BY <2>1, <2>2, <3>1 DEF Leading
    <2>9. State(p)' = 2
        BY <2>1 DEF Leading
    <2>10. ~Clean(e)'
        <3>1. PICK t : t = Top.block
            OBVIOUS
        <3>. QED
            BY <2>9, <3>1, OpenLeaves
    <2>. QED
        BY <1>6, <2>7, <2>8, <2>10
<1>7. ASSUME NEW k \in Nat, k < p, NEW R, NEW c, Sole(k, R, c),
             NEW T, T \cap Blocks \subseteq R, T \subseteq Blocks'
      PROVE  Sole(k, T, c)'
    <2>1. \A i \in DOMAIN worklist' : i >= p =>
             worklist'[i].block = Top.block \/ (p < i /\ p \in DOMAIN worklist' /\ Opens(p)')
        BY <1>1, <1>4, <1>5
    <2>2. ASSUME NEW d \in T, Clean(d)', d \in Blocks => Opens(p) /\ d \in Inside(p) \cup Spare(p)
          PROVE  d \in (Inside(p) \cup Spare(p))'
        <3>1. d \notin Blocks
            BY <1>6, <2>2
        <3>2. d \in New
            BY <1>7, <3>1 DEF New
        <3>. QED
            BY <1>3, <3>2
    <2>. QED
        BY <1>1, <1>2, <1>7, <2>1, <2>2, TurnSole
<1>8. ASSUME Testing(p)'
      PROVE  Sole(p, Inside(p), nodeBlock[Node(p)])'
    <2>1. PICK b : b = NextBlock
        OBVIOUS
    <2>2. New = {b} /\ Inside(p)' \subseteq {b}
        BY <1>3, <1>8, <2>1
    <2>3. nodeBlock[Node(p)]' = b
        <3>1. nodeBlock'[Top.node] \in New /\ Node(p)' = Top.node
            BY <1>8 DEF Leading, Opened
        <3>. QED
            BY <2>2, <3>1
    <2>4. \A i \in DOMAIN worklist' : i > p => worklist'[i].block = b
        BY <2>2 DEF Pushes
    <2>5. \A d \in Inside(p)' : d = b
        BY <2>2
    <2>. QED
        BY <1>1, <2>3, <2>4, <2>5 DEF Sole
<1>9. \A i \in DOMAIN worklist' : i >= p /\ Testing(i)' => i = p
    <2>1. \A i \in DOMAIN worklist' : p < i => State(i)' = 0
        <3>1. \A i \in DOMAIN worklist' : p < i => i > p
            BY <1>1, NextPositions
        <3>. QED
            BY <3>1 DEF Pushes
    <2>. QED
        BY <1>4, <2>1 DEF Testing
<1>. QED
    BY <1>1, <1>2, <1>7, <1>8, <1>9, SoleBelow DEF Firm

\* Turns that leave a region: the walk is to come to it, and the rewrite moves
\* what follows to the block that was spared.
LEMMA LeaveSole ==
    ASSUME IInv, IInv', RegionInv, CleanInv, FillInv, SoleInv, TurnStep,
           NEW p, NEW m, NEW is, NEW S,
           Closing(p, m), Meets(p, m, is), Calls(p, is), S = Inside(p), Apart(S)'
    PROVE  SoleInv'
<1>1. /\ p = Depth /\ walk = <<>> /\ Turned /\ worklist # <<>> /\ Opens(p)
      /\ worklist' = Rest
    BY DEF TurnStep, Turned, Closing
<1>2. Firm
    BY LeaveFirm
<1>3. \A i \in DOMAIN worklist' : ~(i >= p)
    <2>1. DOMAIN worklist' = 1..(Depth - 1) /\ Depth \in Nat
        BY <1>1, Popped, NextPositions
    <2>2. \A n \in Nat : \A x \in 1..(n - 1) : ~(x >= n)
        OBVIOUS
    <2>. QED
        BY <1>1, <2>1, <2>2
<1>4. ASSUME NEW k \in Nat, k < p, NEW R, NEW c, Sole(k, R, c),
             NEW T, T \cap Blocks \subseteq R, T \subseteq Blocks'
      PROVE  Sole(k, T, c)'
    <2>1. \A w \in DOMAIN walk' :
             walk'[w].do = "rewrite" => walk'[w].block = Top.block
        BY DEF Closing
    <2>2. ASSUME NEW d \in T, Clean(d)', d \in Blocks => Opens(p) /\ d \in Inside(p) \cup Spare(p)
          PROVE  \/ Awaited(d)'
                 \/ \E w \in DOMAIN walk' : walk'[w].do = "rewrite" /\ d = walk'[w].jump
        <3>1. CASE d \in S
            BY <2>2, <3>1, LeaveAwaited
        <3>2. CASE d \notin S
            <4>1. d \in Spare(p) \cup New
                BY <1>4, <2>2, <3>2 DEF New
            <4>. QED
                BY <4>1 DEF Calls
        <3>. QED
            BY <3>1, <3>2
    <2>. QED
        BY <1>1, <1>2, <1>3, <1>4, <2>1, <2>2, TurnSole
<1>. QED
    BY <1>1, <1>2, <1>3, <1>4, SoleBelow DEF Firm

\* The steps of a walk.
LEMMA WalkSole ==
    ASSUME IInv, IInv', RegionInv, CleanInv, NeatInv, SoleInv, WalkStep,
           WalkJump \/ WalkReturn \/ WalkDescend \/ WalkSkip \/ WalkLink
    PROVE  SoleInv'
<1>1. Firm /\ Walked /\ Blocks' = Blocks /\ worklist' = worklist
    BY WalkFirm DEF WalkStep, Walked
<1>2. \A j \in DOMAIN worklist :
         /\ j \in DOMAIN worklist' /\ worklist'[j] = worklist[j] /\ Node(j)' = Node(j)
         /\ (Testing(j)' <=> Testing(j)) /\ (Opens(j)' <=> Opens(j))
         /\ Opens(j) => Inside(j)' = Inside(j) /\ Spare(j)' = Spare(j)
         /\ nodeBlock'[Node(j)] = nodeBlock[Node(j)]
    BY <1>1, WalkedItems
<1>3. \A v \in DOMAIN walk' : walk'[v].do = "rewrite" =>
         \E w \in DOMAIN walk : walk'[v] = walk[w]
    BY DEF WalkStep, Follows, Walks
<1>4. \A w \in DOMAIN walk : walk[w].do = "rewrite" =>
         \E v \in DOMAIN walk' : walk'[v] = walk[w]
    BY DEF WalkStep, Behind
<1>5. ASSUME NEW k, NEW R, R \subseteq Blocks, NEW e, Sole(k, R, e)
      PROVE  Sole(k, R, e)'
    <2>1. \A i \in DOMAIN worklist' : i > k =>
             \/ worklist'[i].block = e
             \/ \E j \in DOMAIN worklist' : k < j /\ j < i /\ Opens(j)'
        BY <1>1, <1>2, <1>5 DEF Sole
    <2>2. \A w \in DOMAIN walk' : walk'[w].do = "rewrite" =>
             walk'[w].block = e \/ \E j \in DOMAIN worklist' : k < j /\ Opens(j)'
        <3>1. \A w \in DOMAIN walk : walk[w].do = "rewrite" =>
                 walk[w].block = e \/ \E j \in DOMAIN worklist' : k < j /\ Opens(j)'
            BY <1>1, <1>2, <1>5 DEF Sole
        <3>. QED
            BY <1>3, <3>1
    <2>3. ASSUME NEW d \in R, Clean(d)'
          PROVE  \/ d = e \/ Awaited(d)'
                 \/ \E j \in DOMAIN worklist' : /\ k < j /\ Opens(j)'
                                                /\ d \in (Inside(j) \cup Spare(j))'
                 \/ \E w \in DOMAIN walk' : walk'[w].do = "rewrite" /\ d = walk'[w].jump
        <3>1. Clean(d) /\ d \in Blocks
            BY <1>1, <1>5, <2>3 DEF Firm
        <3>2. CASE Awaited(d)
            BY <2>3, <3>1, <3>2, AwaitedKept
        <3>3. CASE \E j \in DOMAIN worklist : /\ k < j /\ Opens(j)
                                              /\ d \in Inside(j) \cup Spare(j)
            BY <1>1, <1>2, <3>3
        <3>4. CASE \E w \in DOMAIN walk : walk[w].do = "rewrite" /\ d = walk[w].jump
            BY <1>4, <3>4
        <3>. QED
            BY <1>5, <3>1, <3>2, <3>3, <3>4 DEF Sole
    <2>. QED
        BY <2>1, <2>2, <2>3 DEF Sole
<1>6. \E e \in Blocks' : Sole(0, Blocks, e)'
    <2>1. PICK e \in Blocks : Sole(0, Blocks, e)
        BY DEF SoleInv
    <2>2. PICK B : B = Blocks
        OBVIOUS
    <2>3. Sole(0, B, e)'
        BY <1>5, <2>1, <2>2
    <2>4. Sole(0, Blocks, e)'
        BY <1>1, <2>2, <2>3 DEF Sole
    <2>. QED
        BY <1>1, <2>4
<1>7. ASSUME NEW k \in DOMAIN worklist', Testing(k)'
      PROVE  Sole(k, Inside(k), nodeBlock[Node(k)])'
    <2>1. /\ k \in DOMAIN worklist /\ Testing(k) /\ Opens(k)
          /\ Node(k)' = Node(k) /\ Inside(k)' = Inside(k)
          /\ nodeBlock'[Node(k)] = nodeBlock[Node(k)]
        BY <1>1, <1>2, <1>7 DEF Opens
    <2>2. PICK e : e = nodeBlock[Node(k)]
        OBVIOUS
    <2>3. PICK R : R = Inside(k)
        OBVIOUS
    <2>4. R \subseteq Blocks /\ Sole(k, R, e)
        BY <2>1, <2>2, <2>3 DEF SoleInv, Inside
    <2>5. Sole(k, R, e)'
        BY <1>5, <2>4
    <2>6. R = Inside(k)' /\ e = nodeBlock[Node(k)]'
        BY <2>1, <2>2, <2>3
    <2>. QED
        BY <2>5, <2>6 DEF Sole
<1>. QED
    BY <1>6, <1>7 DEF SoleInv

\* And the one that goes on elsewhere: so does what was to go on there.
LEMMA RewriteSole ==
    ASSUME IInv, IInv', RegionInv, CleanInv, NeatInv, SoleInv, WalkRewrite
    PROVE  SoleInv'
<1>1. /\ walk # <<>> /\ Call.do = "rewrite" /\ code' = code
      /\ DOMAIN worklist' = DOMAIN worklist
    BY DEF WalkRewrite, Walking
<1>2. walk' = <<>> /\ Blocks' = Blocks /\ DOMAIN walk' = {}
    BY <1>1, RewriteNeat, NothingWritten
<1>3. /\ 1 \in DOMAIN walk /\ Call = walk[1] /\ Call.block \in Blocks
    BY <1>1, Frames
<1>4. \A w \in DOMAIN walk : walk[w].do = "rewrite" => w = 1
    BY <1>1, <1>3 DEF NeatInv
<1>5. PICK b : b = Call.block
    OBVIOUS
<1>6. PICK M : M = Call.jump
    OBVIOUS
<1>7. /\ M \in Blocks /\ ~Clean(b) /\ \A d : ~Awaited(d)
    <2>1. Call.jump \in Blocks
        BY <1>1, CallReady DEF FrameReady
    <2>2. ~Clean(walk[1].block)
        BY <1>1, <1>3 DEF NeatInv
    <2>3. Call.do \notin Walks
        BY <1>1 DEF Walks
    <2>. QED
        BY <1>1, <1>3, <1>5, <1>6, <2>1, <2>2, <2>3, NoWalkers DEF Awaited
<1>8. \A j \in DOMAIN worklist :
         /\ Node(j)' = Node(j)
         /\ (Testing(j)' <=> Testing(j)) /\ (Opens(j)' <=> Opens(j))
         /\ Opens(j) => Inside(j)' = Inside(j) /\ Spare(j)' = Spare(j)
         /\ worklist'[j].block = IF worklist[j].block = b THEN M ELSE worklist[j].block
    BY <1>5, <1>6, RewrittenItems
<1>9. \A i \in DOMAIN worklist : Opens(i) =>
         /\ worklist[i].block # b /\ b \in Inside(i) /\ M \in Inside(i)
         /\ \A j \in DOMAIN worklist : j < i => b \notin Uses(j)
    BY <1>1, <1>5, <1>6, OpenStaysPut
<1>10. \A d : Clean(d)' <=> Clean(d)
    BY <1>1 DEF Clean, Leaves
<1>11. DOMAIN worklist \subseteq Nat
    <2>1. DOMAIN worklist = 1..Len(worklist)
        BY LenProperties DEF IInv
    <2>. QED
        BY <2>1
<1>12. ASSUME NEW k \in Nat, NEW R, R \subseteq Blocks, NEW e, Sole(k, R, e),
              NEW i, i \in DOMAIN worklist, k < i, Opens(i)
       PROVE  Sole(k, R, e)'
    <2>1. ASSUME NEW j \in DOMAIN worklist', j > k
          PROVE  \/ worklist'[j].block = e
                 \/ \E x \in DOMAIN worklist' : k < x /\ x < j /\ Opens(x)'
        <3>1. CASE j = i \/ j < i
            <4>1. worklist[j].block # b
                <5>1. worklist[j].block \in Uses(j)
                    BY DEF Uses, Outer
                <5>. QED
                    BY <1>1, <1>9, <1>12, <3>1, <5>1
            <4>2. worklist'[j].block = worklist[j].block
                BY <1>1, <1>8, <4>1
            <4>. QED
                BY <1>1, <1>8, <1>12, <2>1, <4>2 DEF Sole
        <3>2. CASE ~(j = i \/ j < i)
            <4>1. i < j
                BY <1>1, <1>11, <1>12, <3>2
            <4>. QED
                BY <1>1, <1>8, <1>12, <4>1
        <3>. QED
            BY <3>1, <3>2
    <2>2. ASSUME NEW d \in R, Clean(d)'
          PROVE  \/ d = e
                 \/ \E j \in DOMAIN worklist' : /\ k < j /\ Opens(j)'
                                                /\ d \in (Inside(j) \cup Spare(j))'
        <3>1. \/ d = e
              \/ \E j \in DOMAIN worklist : k < j /\ Opens(j) /\ d \in Inside(j) \cup Spare(j)
              \/ d = M
            BY <1>3, <1>4, <1>6, <1>7, <1>10, <1>12, <2>2 DEF Sole
        <3>2. d = M => d \in Inside(i)
            BY <1>9, <1>12
        <3>. QED
            BY <1>1, <1>8, <1>12, <3>1, <3>2
    <2>. QED
        BY <1>2, <2>1, <2>2 DEF Sole
<1>13. ASSUME NEW k \in Nat, NEW R, R \subseteq Blocks, NEW e, Sole(k, R, e),
              \A i \in DOMAIN worklist : ~(k < i /\ Opens(i))
       PROVE  e = b /\ Sole(k, R, M)'
    <2>1. e = b
        BY <1>1, <1>3, <1>5, <1>13 DEF Sole
    <2>2. \A j \in DOMAIN worklist' : j > k => worklist'[j].block = M
        <3>1. \A j \in DOMAIN worklist : j > k => worklist[j].block = b
            BY <1>13, <2>1 DEF Sole
        <3>. QED
            BY <1>1, <1>8, <3>1
    <2>3. \A d \in R : Clean(d)' => d = M
        BY <1>3, <1>4, <1>6, <1>7, <1>10, <1>13, <2>1 DEF Sole
    <2>. QED
        BY <1>2, <2>1, <2>2, <2>3 DEF Sole
<1>14. \E e \in Blocks' : Sole(0, Blocks, e)'
    <2>1. PICK e \in Blocks : Sole(0, Blocks, e)
        BY DEF SoleInv
    <2>2. PICK B : B = Blocks
        OBVIOUS
    <2>3. Sole(0, B, e) /\ B \subseteq Blocks /\ 0 \in Nat
        BY <2>1, <2>2
    <2>4. Sole(0, B, e)' \/ Sole(0, B, M)'
        BY <1>12, <1>13, <2>3
    <2>5. Sole(0, Blocks, e)' \/ Sole(0, Blocks, M)'
        BY <1>2, <2>2, <2>4 DEF Sole
    <2>. QED
        BY <1>2, <1>7, <2>5
<1>15. ASSUME NEW k \in DOMAIN worklist', Testing(k)'
       PROVE  Sole(k, Inside(k), nodeBlock[Node(k)])'
    <2>1. k \in DOMAIN worklist /\ Testing(k) /\ Opens(k) /\ k \in Nat
        BY <1>1, <1>8, <1>11, <1>15 DEF Opens
    <2>2. PICK n : n = Node(k)
        OBVIOUS
    <2>3. PICK e : e = nodeBlock[n]
        OBVIOUS
    <2>4. PICK R : R = Inside(k)
        OBVIOUS
    <2>5. R \subseteq Blocks /\ Sole(k, R, e) /\ Inside(k)' = R /\ Node(k)' = n
        BY <1>8, <2>1, <2>2, <2>3, <2>4 DEF SoleInv, Inside
    <2>6. n \in Nodes
        BY <2>1, <2>2, ItemTyped
    <2>7. nodeBlock'[n] = IF /\ nodeBlock[n] = b
                             /\ \E i \in DOMAIN worklist :
                                   worklist[i].node = n /\ worklist[i].block # b
                          THEN M ELSE nodeBlock[n]
        BY <1>5, <1>6, <2>6 DEF WalkRewrite
    <2>8. CASE \E i \in DOMAIN worklist : k < i /\ Opens(i)
        <3>1. PICK i \in DOMAIN worklist : k < i /\ Opens(i)
            BY <2>8
        <3>2. Sole(k, R, e)'
            BY <1>12, <2>1, <2>5, <3>1
        <3>3. nodeBlock'[n] = e
            <4>1. nodeBlock[n] \in Uses(k)
                BY <2>1, <2>2 DEF Uses, Inner
            <4>2. nodeBlock[n] # b
                BY <1>9, <2>1, <3>1, <4>1
            <4>. QED
                BY <2>3, <2>7, <4>2
        <3>. QED
            BY <2>5, <3>2, <3>3 DEF Sole
    <2>9. CASE ~\E i \in DOMAIN worklist : k < i /\ Opens(i)
        <3>1. e = b /\ Sole(k, R, M)'
            BY <1>13, <2>1, <2>5, <2>9
        <3>2. worklist[k].node = n /\ worklist[k].block # b
            BY <1>9, <2>1, <2>2 DEF Node
        <3>3. nodeBlock'[n] = M
            BY <2>1, <2>3, <2>7, <3>1, <3>2
        <3>. QED
            BY <2>5, <3>1, <3>3 DEF Sole
    <2>. QED
        BY <2>8, <2>9
<1>. QED
    BY <1>14, <1>15 DEF SoleInv

\* At first there is one block.
LEMMA InitSole == Init => SoleInv
<1>. SUFFICES ASSUME Init PROVE SoleInv
    OBVIOUS
<1>1. /\ DOMAIN walk = {} /\ Blocks = {0}
      /\ \A j \in DOMAIN worklist : ~Opens(j) /\ worklist[j].block = 0
    BY InitOpens
<1>2. Sole(0, Blocks, 0) /\ 0 \in Blocks
    BY <1>1 DEF Sole
<1>. QED
    BY <1>1, <1>2 DEF SoleInv, Opens

-----------------------------------------------------------------------------
(* Control comes to where the generator is. *)

\* A block of R, but none that the walk is to come to (S) and none of a region
\* that is open above item k, goes on: nothing has left it, or what has says
\* where.  Control leads there from one of A.
Runs(k, R, A, S) ==
    \E e \in R \ S :
        /\ Clean(e) \/ Left(e)
        /\ \A j \in DOMAIN worklist : k < j /\ Opens(j) => e \notin Inside(j)
        /\ \E a \in A : Controls(a, e)

\* One does in the program, and in every region that is open.
CurrentInv ==
    \E S \in SUBSET Blocks :
        /\ Apart(S)
        /\ Runs(0, Blocks, {0}, S)
        /\ \A k \in DOMAIN worklist : Opens(k) => Runs(k, Inside(k), Entries(k), S)

\* From a block that was left control goes on where what left it says: in the
\* blocks it holds, or, once they were left themselves, where the walks jump.
RouteInv ==
    /\ \A j \in DOMAIN worklist :
          Testing(j) => Controls(worklist[j].block, top[Node(j)])
    /\ \A j \in DOMAIN worklist : State(j) = 2 =>
          \A x \in Elements(HeldBlocks(j)) : Controls(worklist[j].block, x)
    /\ \A w \in DOMAIN walk : walk[w].do = "rewrite" =>
          \/ Controls(walk[w].block, walk[w].jump)
          \/ \E c \in Blocks : /\ Clean(c) /\ Awaited(c) /\ Controls(walk[w].block, c)
                               /\ \A v \in DOMAIN walk :
                                     Walker(v) => walk[v].jump = walk[w].jump

\* A region that control is in, below the item that has the turn, keeps it.
LEMMA TurnRuns ==
    ASSUME IInv, IInv', RegionInv, Turned, Firm,
           NEW p, p = Depth, NEW k \in Nat, k < p,
           NEW R, R \subseteq Blocks, NEW A, A \subseteq Blocks, NEW S, Runs(k, R, A, S),
           NEW T, R \subseteq T, NEW U,
           \A e \in R : Opens(p) /\ e \in U => e \in Inside(p), ~Opens(p) => U = {},
           \A e \in R : Clean(e) /\ (Opens(p) => e \notin Inside(p)) => Clean(e)' \/ Left(e)',
           \A e \in R : (Testing(p) \/ State(p) = 2) /\ e = Top.block => Left(e)',
           \A j \in DOMAIN worklist' : j >= p /\ Opens(j)' => Inside(j)' \subseteq New
    PROVE  Runs(k, T, A, U)'
<1>1. /\ worklist # <<>> /\ walk = <<>> /\ p \in DOMAIN worklist
      /\ worklist[p].block = Top.block /\ DOMAIN walk = {}
    BY Positions DEF Turned
<1>2. PICK e \in R \ S :
         /\ Clean(e) \/ Left(e)
         /\ \A j \in DOMAIN worklist : k < j /\ Opens(j) => e \notin Inside(j)
         /\ \E a \in A : Controls(a, e)
    BY DEF Runs
<1>3. e \in T \ U
    BY <1>1, <1>2
<1>4. Clean(e)' \/ Left(e)'
    <2>1. CASE Clean(e)
        BY <1>1, <1>2, <2>1
    <2>2. CASE Left(e)
        <3>1. PICK i \in DOMAIN worklist :
                 (Testing(i) \/ State(i) = 2) /\ worklist[i].block = e
            BY <1>1, <2>2 DEF Left
        <3>2. CASE i = p
            BY <1>1, <1>2, <3>1, <3>2
        <3>3. CASE i # p
            <4>1. i \in 1..(Depth - 1)
                BY <1>1, <3>3, NextPositions
            <4>2. /\ i \in DOMAIN worklist' /\ worklist'[i] = worklist[i]
                  /\ State(i)' = State(i) /\ (Testing(i)' <=> Testing(i))
                BY <4>1, TurnViews
            <4>. QED
                BY <3>1, <4>2 DEF Left
        <3>. QED
            BY <3>2, <3>3
    <2>. QED
        BY <1>2, <2>1, <2>2
<1>5. ASSUME NEW j \in DOMAIN worklist', k < j, Opens(j)'
      PROVE  e \notin Inside(j)'
    <2>1. CASE j \in 1..(Depth - 1)
        <3>1. j \in DOMAIN worklist /\ Opens(j)
            BY <1>5, <2>1, TurnViews
        <3>2. Inside(j)' \cap Blocks \subseteq Inside(j)
            BY <2>1, <3>1, TurnInside
        <3>. QED
            BY <1>2, <1>5, <3>1, <3>2
    <2>2. CASE j >= p
        <3>1. Inside(j)' \subseteq New
            BY <1>5, <2>2
        <3>. QED
            BY <3>1 DEF New
    <2>. QED
        BY <1>1, <2>1, <2>2, NextPositions
<1>6. \E a \in A : Controls(a, e)'
    <2>1. PICK a \in A : Controls(a, e)
        BY <1>2
    <2>2. Controls(a, e)'
        BY <2>1, ControlsKept
    <2>. QED
        BY <2>2
<1>. QED
    BY <1>3, <1>4, <1>5, <1>6 DEF Runs

\* So do all of them, and the program.
LEMMA CurrentBelow ==
    ASSUME IInv, IInv', RegionInv, CurrentInv, Turned, NEW p, p = Depth, Blocks \subseteq Blocks',
           NEW U, U \subseteq Blocks, Apart(U)',
           \A k \in Nat : k < p => \A R, A, S, T :
              /\ R \subseteq Blocks /\ A \subseteq Blocks /\ Runs(k, R, A, S) /\ R \subseteq T
              => Runs(k, T, A, U)',
           \A i \in DOMAIN worklist' : i >= p /\ Opens(i)' =>
              Runs(i, Inside(i), Entries(i), U)'
    PROVE  CurrentInv'
<1>1. worklist # <<>> /\ 0 \in Blocks /\ 0 \in Nat /\ 0 < p
    <2>1. worklist # <<>> /\ 0 < Depth
        BY Positions DEF Turned
    <2>2. Top.block \in Blocks
        BY <2>1, TopUses DEF Turned
    <2>3. Blocks = 0..(NextBlock - 1) /\ NextBlock \in Nat
        BY DEF IInv, CodeInv
    <2>4. \A n \in Nat : \A b \in 0..(n - 1) : 0 \in 0..(n - 1)
        OBVIOUS
    <2>. QED
        BY <2>1, <2>2, <2>3, <2>4
<1>2. PICK S \in SUBSET Blocks :
        /\ Apart(S)
        /\ Runs(0, Blocks, {0}, S)
        /\ \A k \in DOMAIN worklist : Opens(k) => Runs(k, Inside(k), Entries(k), S)
    BY DEF CurrentInv
<1>3. Runs(0, Blocks, {0}, U)'
    <2>1. PICK R : R = Blocks
        OBVIOUS
    <2>2. PICK T : T = Blocks'
        OBVIOUS
    <2>3. Runs(0, R, {0}, S)
        BY <1>2, <2>1
    <2>4. Runs(0, T, {0}, U)'
        BY <1>1, <2>1, <2>2, <2>3
    <2>. QED
        BY <2>2, <2>4 DEF Runs
<1>4. ASSUME NEW k \in DOMAIN worklist', Opens(k)'
      PROVE  Runs(k, Inside(k), Entries(k), U)'
    <2>1. CASE k \in 1..(Depth - 1)
        <3>1. /\ k \in DOMAIN worklist /\ k < Depth /\ Opens(k) /\ k \in Nat
            BY <1>4, <2>1, TurnViews
        <3>2. PICK A : A = Entries(k)
            OBVIOUS
        <3>3. PICK R : R = Inside(k)
            OBVIOUS
        <3>4. PICK T : T = Inside(k)'
            OBVIOUS
        <3>5. Runs(k, R, A, S)
            BY <1>2, <3>1, <3>2, <3>3
        <3>6. R \subseteq T /\ R \subseteq Blocks /\ A \subseteq Blocks
            BY <2>1, <3>1, <3>2, <3>3, <3>4, TurnInside, EntriesTyped DEF Inside
        <3>7. Runs(k, T, A, U)'
            BY <3>1, <3>5, <3>6
        <3>8. T = Inside(k)' /\ A = Entries(k)'
            BY <2>1, <3>1, <3>2, <3>4, BelowEntries
        <3>. QED
            BY <3>7, <3>8 DEF Runs
    <2>2. CASE k >= p
        BY <1>4, <2>2
    <2>. QED
        BY <1>1, <2>1, <2>2, NextPositions
<1>. QED
    BY <1>3, <1>4 DEF CurrentInv

\* Turns that make no blocks.
LEMMA QuietCurrent ==
    ASSUME IInv, IInv', RegionInv, CleanInv, CurrentInv, TurnStep, NEW p, NEW is, Quiet(p, is)
    PROVE  CurrentInv'
<1>1. /\ p = Depth /\ walk' = <<>> /\ Blocks' = Blocks /\ Turned /\ worklist # <<>>
      /\ ~Opens(p) /\ DOMAIN walk' = {} /\ p \in DOMAIN worklist
    BY Positions DEF Quiet, TurnStep, Turned
<1>2. Firm
    BY PlainFirm
<1>3. Apart({})'
    BY <1>1 DEF Apart
<1>4. \A e \in Blocks : Clean(e) => Clean(e)'
    <2>1. /\ Wrote(Top.block, is) /\ Len(is) \in Nat
          /\ \A x \in 1..Len(is) : is[x].op \notin Leaving
        BY DEF Quiet, Guiding
    <2>. QED
        BY <2>1, StaysClean
<1>5. \A j \in DOMAIN worklist' : ~(j >= p /\ Opens(j)')
    BY DEF Quiet
<1>6. ~(Testing(p) \/ State(p) = 2)
    BY <1>1 DEF Opens, Holding
<1>7. ASSUME NEW k \in Nat, k < p, NEW R, NEW A, NEW S, NEW T,
             R \subseteq Blocks, A \subseteq Blocks, Runs(k, R, A, S), R \subseteq T
      PROVE  Runs(k, T, A, {})'
    <2>1. \A e \in R : Clean(e) => Clean(e)'
        BY <1>4, <1>7
    <2>2. PICK U : U = {}
        OBVIOUS
    <2>3. /\ \A e \in R : Opens(p) /\ e \in U => e \in Inside(p)
          /\ ~Opens(p) => U = {}
        BY <2>2
    <2>4. \A e \in R : Clean(e) /\ (Opens(p) => e \notin Inside(p)) => Clean(e)' \/ Left(e)'
        BY <2>1
    <2>5. \A e \in R : (Testing(p) \/ State(p) = 2) /\ e = Top.block => Left(e)'
        BY <1>6
    <2>6. \A j \in DOMAIN worklist' : j >= p /\ Opens(j)' => Inside(j)' \subseteq New
        BY <1>5
    <2>7. Runs(k, T, A, U)'
        BY <1>1, <1>2, <1>7, <2>3, <2>4, <2>5, <2>6, TurnRuns
    <2>. QED
        BY <2>2, <2>7
<1>8. {} \subseteq Blocks
    OBVIOUS
<1>. QED
    BY <1>1, <1>3, <1>5, <1>7, <1>8, CurrentBelow

\* Turns that make blocks and wait for them.
LEMMA OpenCurrent ==
    ASSUME IInv, IInv', RegionInv, CleanInv, CurrentInv, TurnStep,
           NEW p, NEW m, NEW e, NEW s, NEW is,
           Opened(p, m, e, s), Leading(p, e, is), Guides(p, e, is), Pushes(p)
    PROVE  CurrentInv'
<1>0. /\ p = Depth /\ walk' = walk /\ walk = <<>> /\ Turned /\ worklist # <<>>
    BY DEF TurnStep, Turned, Opened
<1>1. /\ p = Depth /\ walk' = walk /\ walk = <<>> /\ Turned /\ worklist # <<>>
      /\ DOMAIN walk' = {} /\ p \in DOMAIN worklist' /\ p \in DOMAIN worklist
      /\ Opens(p) => Testing(p)
      /\ worklist'[p].block = Top.block /\ worklist[p].block = Top.block
      /\ State(p) # 2
    BY <1>0, Positions DEF Guides, Pushes, Leading
<1>2. Firm
    BY OpenFirm
<1>3. /\ Inside(p)' = New \ Spare(p)' /\ NextBlock \in Inside(p)'
      /\ Entries(p)' = Inside(p)'
    BY OpenEntries
<1>4. Apart({})'
    BY <1>1 DEF Apart
<1>5. \A j \in DOMAIN worklist' : j >= p /\ Opens(j)' => j = p
    <2>1. \A j \in DOMAIN worklist' : j >= p => j = p \/ j > p
        <3>1. \A x, y \in Nat : x >= y => x = y \/ x > y
            OBVIOUS
        <3>. QED
            BY <1>1, <3>1, NextPositions
    <2>2. \A j \in DOMAIN worklist' : j > p => ~Opens(j)'
        BY DEF Pushes, Opens, Testing, Holding
    <2>. QED
        BY <2>1, <2>2
<1>6. ASSUME NEW b \in Blocks, Clean(b), Opens(p) => b \notin Inside(p)
      PROVE  Clean(b)' \/ Left(b)'
    <2>1. CASE b # e
        <3>1. code'[b] = code[b]
            BY <2>1 DEF Opened
        <3>. QED
            BY <1>6, <3>1 DEF Clean, Leaves
    <2>2. CASE b = e /\ Testing(p)
        <3>1. e = nodeBlock[Node(p)]
            BY <1>1, <2>2, Positions DEF Leading
        <3>2. nodeBlock[Node(p)] \in Inner(p)
            BY <2>2 DEF Inner
        <3>3. Opens(p) /\ Spare(p) = {} /\ Nested(p)
            BY <1>1, <2>2 DEF Opens, Testing, Spare, RegionInv, Regions
        <3>4. e \in Inside(p)
            BY <1>6, <2>2, <3>1, <3>2, <3>3 DEF Nested, Inside
        <3>. QED
            BY <1>6, <2>2, <3>3, <3>4
    <2>3. CASE b = e /\ ~Testing(p) /\ (Testing(p)' \/ State(p)' = 2)
        <3>1. e = Top.block
            BY <2>3 DEF Leading
        <3>. QED
            BY <1>1, <2>3, <3>1 DEF Left
    <2>4. CASE b = e /\ ~(Testing(p)' \/ State(p)' = 2)
        <3>1. \A x \in 1..Len(is) : is[x].op \notin Leaving
            BY <2>4 DEF Leading
        <3>. QED
            BY <1>6, <3>1, StaysClean DEF Leading
    <2>. QED
        BY <2>1, <2>2, <2>3, <2>4
<1>7. ASSUME NEW k \in Nat, k < p, NEW R, NEW A, NEW S, NEW T,
             R \subseteq Blocks, A \subseteq Blocks, Runs(k, R, A, S), R \subseteq T
      PROVE  Runs(k, T, A, {})'
    <2>1. \A b \in R : Clean(b) /\ (Opens(p) => b \notin Inside(p)) => Clean(b)' \/ Left(b)'
        BY <1>6, <1>7
    <2>2. \A b \in R : (Testing(p) \/ State(p) = 2) /\ b = Top.block => Left(b)'
        <3>1. Testing(p) => State(p)' = 2
            BY DEF Leading
        <3>. QED
            BY <1>1, <3>1 DEF Left
    <2>3. \A j \in DOMAIN worklist' : j >= p /\ Opens(j)' => Inside(j)' \subseteq New
        BY <1>3, <1>5
    <2>4. PICK U : U = {}
        OBVIOUS
    <2>5. /\ \A b \in R : Opens(p) /\ b \in U => b \in Inside(p)
          /\ ~Opens(p) => U = {}
        BY <2>4
    <2>6. Runs(k, T, A, U)'
        BY <1>1, <1>2, <1>7, <2>1, <2>2, <2>3, <2>5, TurnRuns
    <2>. QED
        BY <2>4, <2>6
<1>8. Runs(p, Inside(p), Entries(p), {})'
    <2>1. PICK b : b = NextBlock
        OBVIOUS
    <2>2. b \in Inside(p)' /\ b \in Entries(p)' /\ b \in New
        BY <1>3, <2>1
    <2>3. Clean(b)'
        <3>1. b \notin Blocks /\ e \in Blocks
            BY <1>1, <2>2, TopUses DEF New, Opened
        <3>2. code'[b] = <<>>
            BY <2>2, <3>1 DEF Leading, Wrote
        <3>. QED
            BY <3>2 DEF Clean, Leaves
    <2>4. \A j \in DOMAIN worklist' : ~(p < j /\ Opens(j)')
        <3>1. \A x, y \in Nat : x < y => y >= x /\ x # y
            OBVIOUS
        <3>. QED
            BY <1>1, <1>5, <3>1, NextPositions
    <2>5. Controls(b, b)'
        BY DEF Controls
    <2>. QED
        BY <2>2, <2>3, <2>4, <2>5 DEF Runs
<1>9. \A i \in DOMAIN worklist' : i >= p /\ Opens(i)' => Runs(i, Inside(i), Entries(i), {})'
    BY <1>5, <1>8
<1>10. {} \subseteq Blocks
    OBVIOUS
<1>. QED
    BY <1>1, <1>2, <1>4, <1>7, <1>9, <1>10, CurrentBelow DEF Firm

\* Turns that leave a region.
LEMMA LeaveCurrent ==
    ASSUME IInv, IInv', RegionInv, CleanInv, CurrentInv, TurnStep,
           NEW p, NEW m, NEW is, NEW S,
           Closing(p, m), Meets(p, m, is), Calls(p, is), S = Inside(p), Apart(S)'
    PROVE  CurrentInv'
<1>1. /\ p = Depth /\ walk = <<>> /\ Turned /\ worklist # <<>> /\ Opens(p)
      /\ worklist' = Rest /\ ~Testing(p)
    BY DEF TurnStep, Turned, Closing, Meets
<1>2. Firm
    BY LeaveFirm
<1>3. \A i \in DOMAIN worklist' : ~(i >= p)
    <2>1. DOMAIN worklist' = 1..(Depth - 1) /\ Depth \in Nat
        BY <1>1, Popped, NextPositions
    <2>2. \A n \in Nat : \A x \in 1..(n - 1) : ~(x >= n)
        OBVIOUS
    <2>. QED
        BY <1>1, <2>1, <2>2
<1>4. \A b \in Blocks : Clean(b) => Clean(b)'
    BY StaysClean DEF Meets
<1>5. ASSUME NEW b, b = Top.block, State(p) = 2
      PROVE  Left(b)'
    BY <1>5 DEF Meets, Left
<1>6. ASSUME NEW k \in Nat, k < p, NEW R, NEW A, NEW U, NEW T,
             R \subseteq Blocks, A \subseteq Blocks, Runs(k, R, A, U), R \subseteq T
      PROVE  Runs(k, T, A, S)'
    <2>1. \A b \in R : Clean(b) /\ (Opens(p) => b \notin Inside(p)) => Clean(b)' \/ Left(b)'
        BY <1>4, <1>6
    <2>2. \A b \in R : (Testing(p) \/ State(p) = 2) /\ b = Top.block => Left(b)'
        BY <1>1, <1>5
    <2>3. \A j \in DOMAIN worklist' : j >= p /\ Opens(j)' => Inside(j)' \subseteq New
        BY <1>3
    <2>4. /\ \A b \in R : Opens(p) /\ b \in S => b \in Inside(p)
          /\ ~Opens(p) => S = {}
        BY <1>1
    <2>. QED
        BY <1>1, <1>2, <1>6, <2>1, <2>2, <2>3, <2>4, TurnRuns
<1>7. S \subseteq Blocks
    BY DEF Inside
<1>. QED
    BY <1>1, <1>2, <1>3, <1>6, <1>7, CurrentBelow DEF Firm

\* What is not on the way of a walk is left as it is.
LEMMA WalkClean ==
    ASSUME IInv, IInv', RegionInv, CleanInv, WalkStep,
           WalkJump \/ WalkReturn \/ WalkDescend \/ WalkSkip \/ WalkLink,
           NEW e \in Blocks, Clean(e),
           WalkJump \/ WalkReturn => e # Call.block
    PROVE  Clean(e)'
<1>1. CASE WalkJump \/ WalkReturn
    <2>1. \A x \in DOMAIN code'[e] : x \in DOMAIN code[e] /\ code'[e][x].op = code[e][x].op
        BY <1>1 DEF WalkStep, Behind
    <2>. QED
        BY <2>1 DEF Clean, Leaves
<1>2. CASE ~(WalkJump \/ WalkReturn)
    <2>1. code' = code
        BY <1>2 DEF WalkDescend, WalkSkip, WalkLink
    <2>. QED
        BY <2>1 DEF Clean, Leaves
<1>. QED
    BY <1>1, <1>2

\* The steps of a walk.
LEMMA WalkCurrent ==
    ASSUME IInv, IInv', RegionInv, CleanInv, NeatInv, CurrentInv, WalkStep,
           WalkJump \/ WalkReturn \/ WalkDescend \/ WalkSkip \/ WalkLink
    PROVE  CurrentInv'
<1>1. Firm /\ Walked /\ Blocks' = Blocks /\ worklist' = worklist
    BY WalkFirm DEF WalkStep, Walked
<1>2. \A j \in DOMAIN worklist :
         /\ j \in DOMAIN worklist' /\ worklist'[j] = worklist[j] /\ State(j)' = State(j)
         /\ (Testing(j)' <=> Testing(j)) /\ (Opens(j)' <=> Opens(j))
         /\ Opens(j) => Inside(j)' = Inside(j) /\ Entries(j)' = Entries(j)
    BY <1>1, WalkedItems
<1>3. PICK S \in SUBSET Blocks :
        /\ Apart(S)
        /\ Runs(0, Blocks, {0}, S)
        /\ \A k \in DOMAIN worklist : Opens(k) => Runs(k, Inside(k), Entries(k), S)
    BY DEF CurrentInv
<1>4. Apart(S)'
    BY <1>1, <1>3, ApartKept
<1>5. \A b \in Blocks : Left(b) => Left(b)'
    <2>. SUFFICES ASSUME NEW b \in Blocks, Left(b) PROVE Left(b)'
        OBVIOUS
    <2>1. CASE \E w \in DOMAIN walk : walk[w].do = "rewrite" /\ walk[w].block = b
        BY <2>1 DEF WalkStep, Behind, Left
    <2>2. CASE \E i \in DOMAIN worklist :
                  (Testing(i) \/ State(i) = 2) /\ worklist[i].block = b
        BY <1>1, <1>2, <2>2 DEF Left
    <2>. QED
        BY <2>1, <2>2 DEF Left
<1>6. WalkJump \/ WalkReturn => Call.block \in S
    <2>. SUFFICES ASSUME WalkJump \/ WalkReturn PROVE Call.block \in S
        OBVIOUS
    <2>0. walk # <<>> /\ Call.do \in Walks
        <3>1. CASE WalkJump
            BY <3>1, JumpWalks
        <3>2. CASE WalkReturn
            BY <3>2 DEF WalkReturn, Walking, Walks
        <3>. QED
            BY <3>1, <3>2
    <2>1. /\ walk # <<>> /\ Call.do \in Walks /\ Call.block \in Blocks
          /\ 1 \in DOMAIN walk /\ Call = walk[1]
        BY <2>0, Frames
    <2>2. Call.block # Call.jump
        <3>1. CASE WalkJump
            BY <3>1 DEF WalkJump
        <3>2. CASE WalkReturn
            <4>1. Call.jump = NoBlock
                BY <2>1, <3>2 DEF WalkReturn, Walking, RegionInv, OneCall
            <4>. QED
                BY <2>1, <4>1, NoBlockIsNone DEF IInv
        <3>. QED
            BY <3>1, <3>2
    <2>3. Call.block \in S \cup {Call.jump}
        BY <1>3, <2>1 DEF Apart, Walker
    <2>. QED
        BY <2>2, <2>3
<1>7. ASSUME NEW k, NEW R, R \subseteq Blocks, NEW A, A \subseteq Blocks, Runs(k, R, A, S)
      PROVE  Runs(k, R, A, S)'
    <2>1. PICK e \in R \ S :
             /\ Clean(e) \/ Left(e)
             /\ \A j \in DOMAIN worklist : k < j /\ Opens(j) => e \notin Inside(j)
             /\ \E a \in A : Controls(a, e)
        BY <1>7 DEF Runs
    <2>2. e \in Blocks /\ (WalkJump \/ WalkReturn => e # Call.block)
        BY <1>6, <1>7, <2>1
    <2>3. Clean(e)' \/ Left(e)'
        BY <1>5, <2>1, <2>2, WalkClean
    <2>4. \A j \in DOMAIN worklist' : k < j /\ Opens(j)' => e \notin Inside(j)'
        BY <1>1, <1>2, <2>1
    <2>5. \E a \in A : Controls(a, e)'
        <3>1. PICK a \in A : Controls(a, e)
            BY <2>1
        <3>2. Controls(a, e)'
            BY <1>1, <1>7, <3>1, ControlsKept
        <3>. QED
            BY <3>2
    <2>. QED
        BY <2>1, <2>3, <2>4, <2>5 DEF Runs
<1>8. Runs(0, Blocks, {0}, S)'
    <2>1. PICK R : R = Blocks
        OBVIOUS
    <2>2. Runs(0, R, {0}, S) /\ 0 \in Blocks
        <3>1. Blocks = 0..(NextBlock - 1) /\ NextBlock \in Nat
            BY DEF IInv, CodeInv
        <3>2. \A n \in Nat : \A b \in 0..(n - 1) : 0 \in 0..(n - 1)
            OBVIOUS
        <3>3. Blocks # {}
            BY <1>3 DEF Runs
        <3>. QED
            BY <1>3, <2>1, <3>1, <3>2, <3>3
    <2>3. Runs(0, R, {0}, S)'
        BY <1>7, <2>1, <2>2
    <2>. QED
        BY <1>1, <2>1, <2>3 DEF Runs
<1>9. ASSUME NEW k \in DOMAIN worklist', Opens(k)'
      PROVE  Runs(k, Inside(k), Entries(k), S)'
    <2>1. k \in DOMAIN worklist /\ Opens(k)
        BY <1>1, <1>2, <1>9
    <2>2. PICK A : A = Entries(k)
        OBVIOUS
    <2>3. PICK R : R = Inside(k)
        OBVIOUS
    <2>4. R \subseteq Blocks /\ A \subseteq Blocks /\ Runs(k, R, A, S)
        BY <1>3, <2>1, <2>2, <2>3, EntriesTyped DEF Inside
    <2>5. Runs(k, R, A, S)'
        BY <1>7, <2>4
    <2>6. R = Inside(k)' /\ A = Entries(k)'
        BY <1>2, <2>1, <2>2, <2>3
    <2>. QED
        BY <2>5, <2>6 DEF Runs
<1>. QED
    BY <1>1, <1>3, <1>4, <1>8, <1>9 DEF CurrentInv

\* The end of a region: who stood before the join now stands in it.
LEMMA RewriteCurrent ==
    ASSUME IInv, IInv', RegionInv, CleanInv, NeatInv, CurrentInv, RouteInv, WalkRewrite
    PROVE  CurrentInv'
<1>1. /\ walk # <<>> /\ Call.do = "rewrite" /\ code' = code /\ succ' = succ
      /\ DOMAIN worklist' = DOMAIN worklist
    BY DEF WalkRewrite, Walking
<1>2. walk' = <<>> /\ Len(walk) = 1 /\ Firm /\ Blocks' = Blocks
    BY <1>1, RewriteNeat, SameFirm, NothingWritten
<1>3. DOMAIN walk = 1..Len(walk) /\ Call = walk[1] /\ 1 \in DOMAIN walk /\ Call.block \in Blocks
    BY <1>1, Frames
<1>4. \A w \in DOMAIN walk : w = 1
    BY <1>2, <1>3
<1>5. \A j \in DOMAIN worklist :
         /\ j \in DOMAIN worklist'
         /\ State(j)' = State(j) /\ (Testing(j)' <=> Testing(j)) /\ (Opens(j)' <=> Opens(j))
         /\ Opens(j) => Inside(j)' = Inside(j) /\ Entries(j)' = Entries(j)
         /\ worklist'[j].block = IF worklist[j].block = Call.block THEN Call.jump
                                 ELSE worklist[j].block
    BY RewrittenItems
<1>6. PICK b, M : b = Call.block /\ M = Call.jump
    OBVIOUS
<1>7. \A j \in DOMAIN worklist : Opens(j) =>
         worklist[j].block # b /\ b \in Inside(j) /\ M \in Inside(j)
    BY <1>1, <1>6, OpenStaysPut
<1>8. Clean(M) /\ M \in Blocks
    <2>1. Call \in ReadyFrames /\ FrameReady(Call)
        BY <1>1, CallReady
    <2>2. Call.jump \in Blocks
        BY <1>1, <2>1 DEF ReadyFrames, FrameReady
    <2>. QED
        BY <1>1, <1>3, <1>6, <2>2 DEF CleanInv
<1>9. Controls(b, M)
    <2>1. Call.do \notin Walks
        BY <1>1 DEF Walks
    <2>2. \A c \in Blocks : ~Awaited(c)
        BY <1>1, <2>1, NoWalkers DEF Awaited
    <2>. QED
        BY <1>1, <1>3, <1>6, <2>2 DEF RouteInv
<1>10. PICK S \in SUBSET Blocks :
        /\ Apart(S)
        /\ Runs(0, Blocks, {0}, S)
        /\ \A k \in DOMAIN worklist : Opens(k) => Runs(k, Inside(k), Entries(k), S)
    BY DEF CurrentInv
<1>11. Apart({})' /\ DOMAIN walk' = {}
    BY <1>2 DEF Apart
<1>12. \A e \in Blocks : Clean(e) => Clean(e)'
    BY <1>1 DEF Clean, Leaves
<1>13. ASSUME NEW e \in Blocks, Left(e), e # b
       PROVE  Left(e)'
    <2>1. PICK i \in DOMAIN worklist : (Testing(i) \/ State(i) = 2) /\ worklist[i].block = e
        BY <1>3, <1>4, <1>6, <1>13 DEF Left
    <2>2. Opens(i)
        BY <2>1 DEF Opens, Holding
    <2>3. worklist'[i].block = e /\ i \in DOMAIN worklist' /\ (Testing(i)' \/ State(i)' = 2)
        BY <1>5, <1>6, <1>13, <2>1
    <2>. QED
        BY <2>3 DEF Left
<1>14. ASSUME NEW k, NEW R, R \subseteq Blocks, NEW A, A \subseteq Blocks, Runs(k, R, A, S), M \in R
       PROVE  Runs(k, R, A, {})'
    <2>1. PICK e \in R \ S :
             /\ Clean(e) \/ Left(e)
             /\ \A j \in DOMAIN worklist : k < j /\ Opens(j) => e \notin Inside(j)
             /\ \E a \in A : Controls(a, e)
        BY <1>14 DEF Runs
    <2>2. PICK a \in A : Controls(a, e)
        BY <2>1
    <2>3. CASE e # b
        <3>1. Clean(e)' \/ Left(e)'
            BY <1>12, <1>13, <1>14, <2>1, <2>3
        <3>2. Controls(a, e)'
            BY <1>2, <1>14, <2>2, ControlsKept
        <3>3. \A j \in DOMAIN worklist' : k < j /\ Opens(j)' => e \notin Inside(j)'
            BY <1>1, <1>5, <2>1
        <3>. QED
            BY <2>1, <3>1, <3>2, <3>3 DEF Runs
    <2>4. CASE e = b
        <3>1. Controls(a, M)
            BY <1>9, <2>2, <2>4, ControlsOn
        <3>2. Controls(a, M)'
            BY <1>2, <1>14, <3>1, ControlsKept
        <3>3. \A j \in DOMAIN worklist' : ~(k < j /\ Opens(j)')
            BY <1>1, <1>5, <1>7, <2>1, <2>4
        <3>4. Clean(M)'
            BY <1>8, <1>12
        <3>. QED
            BY <1>14, <3>2, <3>3, <3>4 DEF Runs
    <2>. QED
        BY <2>3, <2>4
<1>15. Runs(0, Blocks, {0}, {})'
    <2>1. PICK R : R = Blocks
        OBVIOUS
    <2>2. Runs(0, R, {0}, S) /\ 0 \in Blocks
        <3>1. Blocks = 0..(NextBlock - 1) /\ NextBlock \in Nat
            BY DEF IInv, CodeInv
        <3>2. \A n \in Nat : \A c \in 0..(n - 1) : 0 \in 0..(n - 1)
            OBVIOUS
        <3>. QED
            BY <1>8, <1>10, <2>1, <3>1, <3>2
    <2>3. Runs(0, R, {0}, {})'
        BY <1>8, <1>14, <2>1, <2>2
    <2>. QED
        BY <1>2, <2>1, <2>3 DEF Runs
<1>16. ASSUME NEW k \in DOMAIN worklist', Opens(k)'
      PROVE  Runs(k, Inside(k), Entries(k), {})'
    <2>1. k \in DOMAIN worklist /\ Opens(k)
        BY <1>1, <1>5, <1>16
    <2>2. PICK A : A = Entries(k)
        OBVIOUS
    <2>3. PICK R : R = Inside(k)
        OBVIOUS
    <2>4. R \subseteq Blocks /\ A \subseteq Blocks /\ Runs(k, R, A, S) /\ M \in R
        BY <1>7, <1>10, <2>1, <2>2, <2>3, EntriesTyped DEF Inside
    <2>5. Runs(k, R, A, {})'
        BY <1>14, <2>4
    <2>6. R = Inside(k)' /\ A = Entries(k)'
        BY <1>5, <2>1, <2>2, <2>3
    <2>. QED
        BY <2>5, <2>6 DEF Runs
<1>17. {} \in SUBSET Blocks'
    OBVIOUS
<1>. QED
    BY <1>11, <1>15, <1>16, <1>17 DEF CurrentInv

\* The initial state.
LEMMA InitCurrent == Init => CurrentInv
<1>. SUFFICES ASSUME Init PROVE CurrentInv
    OBVIOUS
<1>1. /\ walk = <<>> /\ DOMAIN walk = {} /\ Blocks = {0}
      /\ \A j \in DOMAIN worklist : ~Opens(j)
      /\ code = [b \in 0..0 |-> <<Const("CONST_ARRAY", 0, Args), Store(1, 1, 0)>>]
    BY InitOpens
<1>2. Apart({})
    BY <1>1 DEF Apart
<1>3. Clean(0)
    <2>1. code[0] = <<Const("CONST_ARRAY", 0, Args), Store(1, 1, 0)>>
        BY <1>1
    <2>2. /\ Const("CONST_ARRAY", 0, Args).op = "CONST_ARRAY" /\ Store(1, 1, 0).op = "STORE"
        BY DEF Const, Store, Instr
    <2>. QED
        BY <2>1, <2>2 DEF Clean, Leaves, Leaving
<1>4. Runs(0, Blocks, {0}, {})
    <2>1. Controls(0, 0)
        BY ControlsSelf
    <2>. QED
        BY <1>1, <1>3, <2>1 DEF Runs
<1>. QED
    BY <1>1, <1>2, <1>4 DEF CurrentInv

\* The initial state.
LEMMA InitRoute == Init => RouteInv
<1>. SUFFICES ASSUME Init PROVE RouteInv
    OBVIOUS
<1>1. DOMAIN walk = {} /\ \A j \in DOMAIN worklist : ~Opens(j)
    BY InitOpens
<1>. QED
    BY <1>1 DEF RouteInv, Opens, Holding

-----------------------------------------------------------------------------
(* What a block that was left says. *)

\* In a region that is open on top, control is in a block nothing has left.
LEMMA RunsOnTop ==
    ASSUME IInv, RegionInv, CurrentInv, worklist # <<>>, walk = <<>>,
           NEW p, p = Depth, Opens(p)
    PROVE  \E e \in Inside(p), a \in Entries(p) : Clean(e) /\ Controls(a, e)
<1>1. p \in DOMAIN worklist /\ DOMAIN walk = {}
    BY Positions
<1>2. PICK S : Runs(p, Inside(p), Entries(p), S)
    BY <1>1 DEF CurrentInv
<1>3. PICK e \in Inside(p) : (Clean(e) \/ Left(e)) /\ \E a \in Entries(p) : Controls(a, e)
    BY <1>2 DEF Runs
<1>4. ~Left(e)
    <2>. SUFFICES ASSUME NEW i \in DOMAIN worklist, worklist[i].block = e
                  PROVE  FALSE
        BY <1>1 DEF Left
    <2>1. \A n \in Nat : \A x \in 1..(n - 1) : x < n
        OBVIOUS
    <2>2. Depth \in Nat
        BY Positions
    <2>3. i < p \/ i = p
        BY <2>1, <2>2, Positions
    <2>4. e \in Outer(i) /\ e \in Uses(i)
        BY DEF Outer, Uses
    <2>. QED
        BY <1>1, <1>3, <2>3, <2>4, BelowIsOutside
<1>. QED
    BY <1>3, <1>4

\* What the items below the top say goes on to be so.
LEMMA RouteBelow ==
    ASSUME IInv, IInv', RegionInv, RouteInv, Turned, Firm, NEW j \in 1..(Depth - 1)
    PROVE  /\ Testing(j)' => Controls(worklist[j].block, top[Node(j)])'
           /\ State(j)' = 2 => \A x \in Elements(HeldBlocks(j))' : Controls(worklist[j].block, x)'
<1>1. /\ j \in DOMAIN worklist /\ worklist'[j] = worklist[j] /\ worklist[j].block \in Blocks
      /\ State(j)' = State(j) /\ (Testing(j)' <=> Testing(j)) /\ Node(j)' = Node(j)
      /\ Opens(j) => top'[Node(j)] = top[Node(j)]
    BY TurnViews, ItemTyped
<1>2. PICK b : b = worklist[j].block
    OBVIOUS
<1>3. ASSUME Testing(j)'
      PROVE  Controls(worklist[j].block, top[Node(j)])'
    <2>1. Testing(j) /\ Opens(j)
        BY <1>1, <1>3 DEF Opens
    <2>2. PICK x : x = top[Node(j)]
        OBVIOUS
    <2>3. Controls(b, x)
        BY <1>1, <1>2, <2>1, <2>2 DEF RouteInv
    <2>4. Controls(b, x)'
        BY <1>1, <1>2, <2>3, ControlsKept
    <2>5. b = worklist'[j].block /\ x = top'[Node(j)']
        BY <1>1, <1>2, <2>1, <2>2
    <2>. QED
        BY <2>4, <2>5 DEF Controls
<1>4. ASSUME State(j)' = 2, NEW x \in Elements(HeldBlocks(j))'
      PROVE  Controls(worklist[j].block, x)'
    <2>1. State(j) = 2 /\ HeldBlocks(j)' = HeldBlocks(j)
        BY <1>4, HeldBelow
    <2>2. x \in Elements(HeldBlocks(j))
        BY <1>4, <2>1 DEF Elements
    <2>3. Controls(b, x)
        BY <1>1, <1>2, <2>1, <2>2 DEF RouteInv
    <2>4. Controls(b, x)'
        BY <1>1, <1>2, <2>3, ControlsKept
    <2>5. b = worklist'[j].block
        BY <1>1, <1>2
    <2>. QED
        BY <2>4, <2>5 DEF Controls
<1>. QED
    BY <1>3, <1>4

\* Turns that make no blocks.
LEMMA QuietRoute ==
    ASSUME IInv, IInv', RegionInv, CleanInv, RouteInv, TurnStep, NEW p, NEW is, Quiet(p, is)
    PROVE  RouteInv'
<1>1. /\ p = Depth /\ walk' = <<>> /\ Turned /\ worklist # <<>> /\ DOMAIN walk' = {}
    BY DEF Quiet, TurnStep, Turned
<1>2. Firm
    BY PlainFirm
<1>3. ASSUME NEW j \in DOMAIN worklist'
      PROVE  /\ Testing(j)' => Controls(worklist[j].block, top[Node(j)])'
             /\ State(j)' = 2 => \A x \in Elements(HeldBlocks(j))' : Controls(worklist[j].block, x)'
    <2>1. CASE j \in 1..(Depth - 1)
        BY <1>1, <1>2, <2>1, RouteBelow
    <2>2. CASE j >= p
        <3>1. ~Opens(j)'
            BY <2>2 DEF Quiet
        <3>. QED
            BY <3>1 DEF Opens, Holding
    <2>. QED
        BY <1>1, <2>1, <2>2, NextPositions
<1>. QED
    BY <1>1, <1>3 DEF RouteInv

\* Turns that make blocks and wait for them.
LEMMA OpenRoute ==
    ASSUME IInv, IInv', RegionInv, CleanInv, NeatInv, SoleInv, CurrentInv, RouteInv, TurnStep,
           NEW p, NEW m, NEW e, NEW s, NEW is,
           Opened(p, m, e, s), Leading(p, e, is), Guides(p, e, is), Pushes(p)
    PROVE  RouteInv'
<1>0. /\ p = Depth /\ walk' = walk /\ walk = <<>> /\ Turned /\ worklist # <<>>
    BY DEF TurnStep, Turned, Opened
<1>1. /\ p = Depth /\ walk = <<>> /\ Turned /\ worklist # <<>>
      /\ DOMAIN walk' = {} /\ DOMAIN walk = {} /\ p \in DOMAIN worklist' /\ p \in DOMAIN worklist
      /\ worklist'[p].block = Top.block /\ worklist[p].block = Top.block
    BY <1>0, Positions DEF Guides, Pushes, Leading
<1>2. Firm
    BY OpenFirm
<1>3. PICK t : t = Top.block
    OBVIOUS
<1>4. /\ e \in Blocks /\ t \in Blocks
      /\ Testing(p)' \/ State(p)' = 2 => Targets(code'[e]) = New
    BY <1>3, OpenLeaves
<1>5. ASSUME Testing(p)' \/ State(p)' = 2
      PROVE  Controls(t, e)
    <2>1. CASE ~Testing(p)
        <3>1. t = e
            BY <1>3, <2>1 DEF Leading
        <3>. QED
            BY <3>1, ControlsSelf
    <2>2. CASE Testing(p)
        <3>1. Opens(p) /\ Entries(p) = {top[Node(p)]} /\ Top.node = Node(p)
            BY <1>1, <2>2, Positions DEF Opens, Entries
        <3>2. PICK c \in Inside(p), a \in Entries(p) : Clean(c) /\ Controls(a, c)
            BY <1>1, <3>1, RunsOnTop
        <3>3. Controls(t, a)
            BY <1>1, <1>3, <2>2, <3>1, <3>2 DEF RouteInv
        <3>4. c = nodeBlock[Node(p)]
            <4>1. Sole(p, Inside(p), nodeBlock[Node(p)])
                BY <1>1, <2>2 DEF SoleInv
            <4>2. \A j \in DOMAIN worklist : ~(p < j)
                <5>1. \A n \in Nat : \A x \in 1..(n - 1) : ~(n < x)
                    OBVIOUS
                <5>2. Depth \in Nat /\ \A j \in DOMAIN worklist : j \in 1..(Depth - 1) \/ j = Depth
                    BY <1>1, NextPositions
                <5>. QED
                    BY <1>1, <5>1, <5>2
            <4>3. ~Awaited(c)
                BY <1>1 DEF Awaited
            <4>. QED
                BY <1>1, <3>2, <4>1, <4>2, <4>3 DEF Sole
        <3>5. e = c
            BY <2>2, <3>1, <3>4 DEF Leading
        <3>. QED
            BY <3>2, <3>3, <3>5, ControlsOn
    <2>. QED
        BY <2>1, <2>2
<1>6. ASSUME Testing(p)' \/ State(p)' = 2, NEW x \in New
      PROVE  Controls(t, x)'
    <2>1. Controls(t, e)'
        BY <1>2, <1>4, <1>5, <1>6, ControlsKept
    <2>2. x \in Targets(code'[e])
        BY <1>4, <1>6
    <2>. QED
        BY <2>1, <2>2 DEF Controls, Goes
<1>7. ASSUME NEW j \in DOMAIN worklist'
      PROVE  /\ Testing(j)' => Controls(worklist[j].block, top[Node(j)])'
             /\ State(j)' = 2 => \A x \in Elements(HeldBlocks(j))' : Controls(worklist[j].block, x)'
    <2>1. CASE j \in 1..(Depth - 1)
        BY <1>1, <1>2, <2>1, RouteBelow
    <2>2. CASE j = p
        <3>1. /\ Floor(p)' = NextBlock /\ NextBlock \in New
              /\ State(p)' = 2 => Elements(HeldBlocks(p))' = New
            BY OpenEntries DEF Inside, New
        <3>2. Testing(p)' => top'[Node(p)'] \in New
            BY <3>1 DEF Floor
        <3>3. t = worklist'[p].block
            BY <1>1, <1>3
        <3>4. ASSUME Testing(p)'
              PROVE  Controls(worklist[p].block, top[Node(p)])'
            <4>1. PICK x : x = top'[Node(p)']
                OBVIOUS
            <4>2. Controls(t, x)'
                BY <1>6, <3>2, <3>4, <4>1
            <4>. QED
                BY <3>3, <4>1, <4>2 DEF Controls
        <3>5. ASSUME State(p)' = 2, NEW x \in Elements(HeldBlocks(p))'
              PROVE  Controls(worklist[p].block, x)'
            <4>1. Controls(t, x)'
                BY <1>6, <3>1, <3>5
            <4>. QED
                BY <3>3, <4>1 DEF Controls
        <3>. QED
            BY <2>2, <3>4, <3>5
    <2>3. CASE j >= p /\ j # p
        <3>1. State(j)' = 0
            <4>1. j > p
                <5>1. \A a, b \in Nat : a >= b /\ a # b => a > b
                    OBVIOUS
                <5>. QED
                    BY <1>1, <2>3, <5>1, NextPositions
            <4>. QED
                BY <4>1 DEF Pushes
        <3>. QED
            BY <3>1 DEF Testing
    <2>. QED
        BY <1>1, <2>1, <2>2, <2>3, NextPositions
<1>. QED
    BY <1>1, <1>7 DEF RouteInv

\* Turns that leave a region.
LEMMA LeaveRoute ==
    ASSUME IInv, IInv', RegionInv, CleanInv, FillInv, CurrentInv, RouteInv, TurnStep,
           NEW p, NEW m, NEW is, NEW S,
           Closing(p, m), Meets(p, m, is), Calls(p, is), S = Inside(p), Apart(S)'
    PROVE  RouteInv'
<1>1. /\ p = Depth /\ walk = <<>> /\ Turned /\ worklist # <<>> /\ Opens(p)
      /\ worklist' = Rest /\ ~Testing(p)
    BY DEF TurnStep, Turned, Closing, Meets
<1>2. Firm
    BY LeaveFirm
<1>3. DOMAIN worklist' = 1..(Depth - 1) /\ p \in DOMAIN worklist /\ worklist[p].block = Top.block
    BY <1>1, Popped, Positions
<1>4. PICK t : t = Top.block
    OBVIOUS
<1>5. t \in Blocks
    BY <1>1, <1>4, TopUses
<1>6. ASSUME NEW w \in DOMAIN walk', walk'[w].do = "rewrite"
      PROVE  \/ Controls(walk[w].block, walk[w].jump)'
             \/ (\E c \in Blocks : /\ Clean(c) /\ Awaited(c) /\ Controls(walk[w].block, c)
                                   /\ \A v \in DOMAIN walk :
                                         Walker(v) => walk[v].jump = walk[w].jump)'
    <2>1. State(p) = 2 /\ walk'[w].block = t
        BY <1>4, <1>6 DEF Calls, Closing
    <2>2. \A x \in Elements(HeldBlocks(p)) : Controls(t, x)
        BY <1>3, <1>4, <2>1 DEF RouteInv
    <2>3. PICK M : M = walk'[w].jump
        OBVIOUS
    <2>4. CASE M \in Elements(HeldBlocks(p))
        <3>1. Controls(t, M)'
            BY <1>2, <1>5, <2>2, <2>4, ControlsKept
        <3>. QED
            BY <2>1, <2>3, <3>1 DEF Controls
    <2>5. CASE \A v \in DOMAIN walk' : walk'[v].jump = M
        <3>1. PICK c \in Inside(p), a \in Entries(p) : Clean(c) /\ Controls(a, c)
            BY <1>1, RunsOnTop
        <3>2. Controls(t, a)
            BY <1>1, <2>2, <3>1 DEF Entries
        <3>3. Controls(t, c)
            BY <3>1, <3>2, ControlsOn
        <3>4. c \in Blocks /\ c \in Blocks'
            BY <1>2, <3>1 DEF Inside, Firm
        <3>5. Controls(t, c)'
            BY <1>2, <1>5, <3>3, ControlsKept
        <3>6. Clean(c)'
            <4>1. /\ Wrote(m, is) /\ Len(is) \in Nat
                  /\ \A x \in 1..Len(is) : is[x].op \notin Leaving
                BY DEF Meets
            <4>. QED
                BY <3>1, <3>4, <4>1, StaysClean
        <3>7. Awaited(c)'
            BY <3>1, <3>6, LeaveAwaited
        <3>8. Controls(walk[w].block, c)'
            BY <2>1, <3>5 DEF Controls
        <3>. QED
            BY <2>3, <2>5, <3>4, <3>6, <3>7, <3>8
    <2>. QED
        BY <1>6, <2>3, <2>4, <2>5 DEF Calls
<1>7. ASSUME NEW j \in DOMAIN worklist'
      PROVE  /\ Testing(j)' => Controls(worklist[j].block, top[Node(j)])'
             /\ State(j)' = 2 => \A x \in Elements(HeldBlocks(j))' : Controls(worklist[j].block, x)'
    BY <1>1, <1>2, <1>3, RouteBelow
<1>. QED
    BY <1>6, <1>7 DEF RouteInv

\* What the items say goes on to be so while the walks go.
LEMMA RouteKept ==
    ASSUME IInv, RegionInv, RouteInv, Firm, NEW j \in DOMAIN worklist,
           j \in DOMAIN worklist', State(j)' = State(j), Testing(j)' <=> Testing(j),
           Opens(j) => worklist'[j].block = worklist[j].block,
           top'[Node(j)'] = top[Node(j)],
           Holding(j) => HeldBlocks(j)' = HeldBlocks(j)
    PROVE  /\ Testing(j)' => Controls(worklist[j].block, top[Node(j)])'
           /\ State(j)' = 2 => \A x \in Elements(HeldBlocks(j))' : Controls(worklist[j].block, x)'
<1>1. PICK b : b = worklist[j].block
    OBVIOUS
<1>2. b \in Blocks
    BY <1>1, ItemTyped
<1>3. ASSUME Testing(j)'
      PROVE  Controls(worklist[j].block, top[Node(j)])'
    <2>1. Testing(j) /\ Opens(j)
        BY <1>3 DEF Opens
    <2>2. PICK x : x = top[Node(j)]
        OBVIOUS
    <2>3. Controls(b, x)
        BY <1>1, <2>1, <2>2 DEF RouteInv
    <2>4. Controls(b, x)'
        BY <1>2, <2>3, ControlsKept
    <2>5. b = worklist'[j].block /\ x = top'[Node(j)']
        BY <1>1, <2>1, <2>2
    <2>. QED
        BY <2>4, <2>5 DEF Controls
<1>4. ASSUME State(j)' = 2, NEW x \in Elements(HeldBlocks(j))'
      PROVE  Controls(worklist[j].block, x)'
    <2>1. State(j) = 2 /\ Opens(j) /\ Holding(j)
        BY <1>4 DEF Holding, Opens
    <2>2. HeldBlocks(j)' = HeldBlocks(j)
        BY <2>1
    <2>3. x \in Elements(HeldBlocks(j))
        BY <1>4, <2>2 DEF Elements
    <2>4. Controls(b, x)
        BY <1>1, <2>1, <2>3 DEF RouteInv
    <2>5. Controls(b, x)'
        BY <1>2, <2>4, ControlsKept
    <2>6. b = worklist'[j].block
        BY <1>1, <2>1
    <2>. QED
        BY <2>5, <2>6 DEF Controls
<1>. QED
    BY <1>3, <1>4

\* The steps of a walk.
LEMMA WalkRoute ==
    ASSUME IInv, IInv', RegionInv, CleanInv, NeatInv, RouteInv, WalkStep,
           WalkJump \/ WalkReturn \/ WalkDescend \/ WalkSkip \/ WalkLink
    PROVE  RouteInv'
<1>1. Firm /\ Walked /\ Blocks' = Blocks /\ worklist' = worklist /\ Follows
    BY WalkFirm DEF WalkStep, Walked
<1>2. \A j \in DOMAIN worklist :
         /\ j \in DOMAIN worklist' /\ worklist'[j] = worklist[j] /\ State(j)' = State(j)
         /\ (Testing(j)' <=> Testing(j)) /\ top'[Node(j)'] = top[Node(j)]
         /\ Holding(j) => HeldBlocks(j)' = HeldBlocks(j)
    BY <1>1, WalkedItems
<1>3. ASSUME NEW j \in DOMAIN worklist'
      PROVE  /\ Testing(j)' => Controls(worklist[j].block, top[Node(j)])'
             /\ State(j)' = 2 => \A x \in Elements(HeldBlocks(j))' : Controls(worklist[j].block, x)'
    BY <1>1, <1>2, RouteKept
<1>4. /\ walk # <<>> /\ 1 \in DOMAIN walk /\ Call = walk[1] /\ Call.block \in Blocks
      /\ \A w \in DOMAIN walk : walk[w].block \in Blocks
    BY <1>1, Frames DEF Walked
<1>5. WalkJump => Call.do \in Walks
    BY JumpWalks
<1>6. ASSUME NEW u \in DOMAIN walk', walk'[u].do = "rewrite"
      PROVE  \/ Controls(walk[u].block, walk[u].jump)'
             \/ (\E c \in Blocks : /\ Clean(c) /\ Awaited(c) /\ Controls(walk[u].block, c)
                                   /\ \A v \in DOMAIN walk :
                                         Walker(v) => walk[v].jump = walk[u].jump)'
    <2>1. PICK w \in DOMAIN walk : walk'[u] = walk[w]
        <3>1. "rewrite" \notin Walks
            BY DEF Walks
        <3>. QED
            BY <1>1, <1>6, <3>1 DEF Follows
    <2>2. PICK b, M : b = walk[w].block /\ M = walk[w].jump
        OBVIOUS
    <2>3. /\ b \in Blocks /\ walk'[u].block = b /\ walk'[u].jump = M /\ walk[w].do = "rewrite"
        BY <1>4, <1>6, <2>1, <2>2
    <2>4. CASE Controls(b, M)
        <3>1. Controls(b, M)'
            BY <1>1, <2>3, <2>4, ControlsKept
        <3>. QED
            BY <2>3, <3>1 DEF Controls
    <2>5. CASE ~Controls(b, M)
        <3>1. PICK c \in Blocks : /\ Clean(c) /\ Awaited(c) /\ Controls(b, c)
                                  /\ \A v \in DOMAIN walk : Walker(v) => walk[v].jump = M
            BY <2>2, <2>3, <2>5 DEF RouteInv
        <3>2. Controls(b, c)'
            BY <1>1, <2>3, <3>1, ControlsKept
        <3>3. CASE Clean(c)'
            <4>1. Awaited(c)'
                BY <3>1, <3>3, AwaitedKept
            <4>2. ASSUME NEW v \in DOMAIN walk', Walker(v)'
                  PROVE  walk'[v].jump = M
                <5>1. CASE \E x \in DOMAIN walk : walk'[v] = walk[x]
                    BY <3>1, <4>2, <5>1 DEF Walker
                <5>2. CASE Call.do \in Walks /\ walk'[v].jump = Call.jump
                    BY <1>4, <3>1, <5>2 DEF Walker
                <5>. QED
                    BY <1>1, <5>1, <5>2 DEF Follows
            <4>3. Controls(walk[u].block, c)'
                BY <2>3, <3>2 DEF Controls
            <4>. QED
                BY <1>1, <2>3, <3>1, <3>3, <4>1, <4>2, <4>3
        <3>4. CASE ~Clean(c)'
            <4>1. (WalkJump \/ WalkReturn) /\ c = Call.block
                BY <3>1, <3>4, WalkClean
            <4>2. CASE WalkJump
                <5>1. Targets(code'[c]) = {Call.jump}
                    BY <3>1, <4>1, <4>2, JumpLeaves
                <5>2. Call.do \in Walks
                    BY <1>5, <4>2
                <5>3. Call.jump = M
                    BY <1>4, <3>1, <5>2 DEF Walker
                <5>4. M \in Targets(code'[c])
                    BY <5>1, <5>3
                <5>. QED
                    BY <2>3, <3>2, <5>4 DEF Controls, Goes
            <4>3. CASE WalkReturn
                <5>1. Call.do = "return"
                    BY <4>3 DEF WalkReturn, Walking
                <5>2. walk[w].do = "return"
                    BY <1>4, <5>1 DEF RegionInv, OneCall
                <5>. QED
                    BY <2>3, <5>2
            <4>. QED
                BY <4>1, <4>2, <4>3
        <3>. QED
            BY <3>3, <3>4
    <2>. QED
        BY <2>4, <2>5
<1>. QED
    BY <1>3, <1>6 DEF RouteInv

\* The end of a region.
LEMMA RewriteRoute ==
    ASSUME IInv, IInv', RegionInv, CleanInv, NeatInv, RouteInv, WalkRewrite
    PROVE  RouteInv'
<1>1. /\ walk # <<>> /\ Call.do = "rewrite" /\ code' = code /\ succ' = succ
      /\ DOMAIN worklist' = DOMAIN worklist
    BY DEF WalkRewrite, Walking
<1>2. walk' = <<>> /\ Firm /\ DOMAIN walk' = {}
    BY <1>1, RewriteNeat, SameFirm
<1>3. ASSUME NEW j \in DOMAIN worklist
      PROVE  /\ j \in DOMAIN worklist' /\ State(j)' = State(j) /\ (Testing(j)' <=> Testing(j))
             /\ Opens(j) => worklist'[j].block = worklist[j].block
             /\ top'[Node(j)'] = top[Node(j)]
             /\ Holding(j) => HeldBlocks(j)' = HeldBlocks(j)
    <2>1. /\ j \in DOMAIN worklist' /\ State(j)' = State(j) /\ (Testing(j)' <=> Testing(j))
          /\ Node(j)' = Node(j) /\ top'[Node(j)] = top[Node(j)]
          /\ Holding(j) => HeldBlocks(j)' = HeldBlocks(j)
          /\ worklist'[j].block = IF worklist[j].block = Call.block THEN Call.jump
                                  ELSE worklist[j].block
        BY RewrittenItems
    <2>2. Opens(j) => worklist[j].block # Call.block
        BY <1>1, OpenStaysPut
    <2>. QED
        BY <2>1, <2>2
<1>4. ASSUME NEW j \in DOMAIN worklist'
      PROVE  /\ Testing(j)' => Controls(worklist[j].block, top[Node(j)])'
             /\ State(j)' = 2 => \A x \in Elements(HeldBlocks(j))' : Controls(worklist[j].block, x)'
    BY <1>1, <1>2, <1>3, RouteKept
<1>. QED
    BY <1>2, <1>4 DEF RouteInv

-----------------------------------------------------------------------------
(* The program and every body keep to themselves. *)

\* Every block belongs to the program (0) or to a body: own names its first
\* block.  Control stays with the owner; a block of the program never returns.
OwnCode(own) ==
    /\ own[0] = 0
    /\ \A b \in Blocks : \A c \in Targets(code[b]) \cup Elements(succ[b]) : own[c] = own[b]
    /\ \A b \in Blocks : ~Clean(b) /\ Targets(code[b]) = {} => own[b] # 0
    /\ \A b \in Blocks : \A x \in DOMAIN code[b] : code[b][x].op = "BLOCK" =>
          own[code[b][x].blks[1]] = code[b][x].blks[1] /\ code[b][x].blks[1] # 0

\* What an item will write or walk belongs to the block that it stands in; a
\* BLOCK that waits holds a block of a body.
OwnItem(own, i) ==
    /\ State(i) = 2 => \A x \in Elements(HeldBlocks(i)) : own[x] = own[worklist[i].block]
    /\ Kind(i) = "BLOCK" /\ State(i) = 1 => \A x \in Elements(HeldBlocks(i)) : own[x] # 0
    /\ Kind(i) = "WHILE" /\ State(i) # 0 => own[top[Node(i)]] = own[worklist[i].block]
    /\ Testing(i) => own[nodeBlock[Node(i)]] = own[worklist[i].block]

\* The walks that return are in a body; the others stay with the owner.
OwnFrame(own, w) ==
    IF walk[w].do = "return" THEN own[walk[w].block] # 0
    ELSE own[walk[w].jump] = own[walk[w].block]
Owned(own) ==
    /\ OwnCode(own)
    /\ \A i \in DOMAIN worklist : OwnItem(own, i)
    /\ \A w \in DOMAIN walk : OwnFrame(own, w)
OwnInv == \E own \in [Blocks -> Blocks] : Owned(own)

\* What is written at the end of one block.
LEMMA OwnWrote ==
    ASSUME IInv, IInv', CleanInv, Firm, NEW own, OwnCode(own), NEW new,
           0 \in Blocks, \A b \in Blocks : new[b] = own[b],
           NEW e, NEW is, Wrote(e, is), Len(is) \in Nat, e \in Blocks',
           \A x \in 1..Len(is) : is[x].op = "BLOCK" =>
              new[is[x].blks[1]] = is[x].blks[1] /\ is[x].blks[1] # 0,
           \A b \in Blocks' : \A c \in Elements(succ'[b]) : new[c] = new[b],
           \A b \in Blocks' : (b \in Blocks => Clean(b)) =>
              \/ Clean(b)'
              \/ Targets(code'[b]) # {} /\ \A c \in Targets(code'[b]) : new[c] = new[b]
    PROVE  OwnCode(new)'
<1>1. \A b \in Blocks : b \in Blocks' /\ Targets(code[b]) \subseteq Blocks
    BY DEF Firm
<1>2. new[0] = 0
    BY DEF OwnCode
<1>3. ASSUME NEW b \in Blocks'
      PROVE  /\ \A c \in Targets(code'[b]) : new[c] = new[b]
             /\ ~Clean(b)' /\ Targets(code'[b]) = {} => new[b] # 0
    <2>1. CASE b \in Blocks => Clean(b)
        <3>1. CASE Clean(b)'
            <4>1. ~Leaves(code'[b])
                BY <3>1 DEF Clean
            <4>2. Targets(code'[b]) = {}
                BY <4>1, NoTargets
            <4>. QED
                BY <3>1, <4>2
        <3>2. CASE ~Clean(b)'
            BY <1>3, <2>1, <3>2
        <3>. QED
            BY <3>1, <3>2
    <2>2. CASE b \in Blocks /\ ~Clean(b)
        <3>1. Targets(code'[b]) = Targets(code[b])
            BY <2>2 DEF Firm
        <3>. QED
            BY <1>1, <2>2, <3>1 DEF OwnCode
    <2>. QED
        BY <2>1, <2>2
<1>4. ASSUME NEW b \in Blocks', NEW x \in DOMAIN code'[b], code'[b][x].op = "BLOCK"
      PROVE  new[code'[b][x].blks[1]] = code'[b][x].blks[1] /\ code'[b][x].blks[1] # 0
    <2>1. ASSUME b \in Blocks, x \in DOMAIN code[b], code'[b][x] = code[b][x]
          PROVE  new[code'[b][x].blks[1]] = code'[b][x].blks[1] /\ code'[b][x].blks[1] # 0
        <3>1. code[b][x].blks[1] \in Blocks
            <4>1. code[b][x] \in ReadyInstructions(Blocks)
                BY <2>1, BlockIsSeq DEF IInv
            <4>. QED
                BY <1>4, <2>1, <4>1 DEF ReadyInstructions, Instruction, Shaped
        <3>. QED
            BY <1>4, <2>1, <3>1 DEF OwnCode
    <2>2. CASE b # e
        <3>1. b \in Blocks
            BY <1>4, <2>2 DEF Wrote, New
        <3>2. code'[b] = code[b]
            BY <2>2, <3>1 DEF Wrote
        <3>. QED
            BY <1>4, <2>1, <3>1, <3>2
    <2>3. CASE b = e
        <3>1. PICK l, n : l = OldLen(e) /\ n = Len(is)
            OBVIOUS
        <3>2. l \in Nat /\ n \in Nat
            BY <3>1, BlockIsSeq DEF OldLen, IInv
        <3>3. x \in 1..(l + n)
            BY <1>4, <2>3, <3>1 DEF Wrote
        <3>4. CASE x \in 1..l
            <4>1. b \in Blocks
                <5>1. l # 0
                    BY <3>4
                <5>. QED
                    BY <2>3, <3>1, <5>1 DEF OldLen
            <4>2. x \in DOMAIN code[b] /\ code'[b][x] = code[b][x]
                BY <2>3, <3>1, <3>4 DEF Wrote
            <4>. QED
                BY <2>1, <4>1, <4>2
        <3>5. CASE x \notin 1..l
            <4>1. PICK y : y = x - l
                OBVIOUS
            <4>2. y \in 1..n /\ x = l + y
                BY <3>2, <3>3, <3>5, <4>1
            <4>3. code'[b][x] = is[y]
                BY <2>3, <3>1, <4>2 DEF Wrote
            <4>. QED
                BY <1>4, <3>1, <4>2, <4>3
        <3>. QED
            BY <3>4, <3>5
    <2>. QED
        BY <2>2, <2>3
<1>. QED
    BY <1>2, <1>3, <1>4 DEF OwnCode

\* Below the item that has the turn nothing changes hands.
LEMMA OwnBelow ==
    ASSUME IInv, IInv', RegionInv, Turned, NEW own, Owned(own), NEW new,
           \A b \in Blocks : new[b] = own[b],
           NEW j \in 1..(Depth - 1)
    PROVE  OwnItem(new, j)'
<1>1. /\ j \in DOMAIN worklist /\ worklist'[j] = worklist[j]
      /\ State(j)' = State(j) /\ Kind(j)' = Kind(j) /\ (Testing(j)' <=> Testing(j))
      /\ Node(j)' = Node(j) /\ worklist[j].block \in Blocks /\ State(j) \in 0..2
      /\ Opens(j) => top'[Node(j)] = top[Node(j)] /\ nodeBlock'[Node(j)] = nodeBlock[Node(j)]
    BY TurnViews, ItemTyped
<1>2. Uses(j) \subseteq Blocks /\ OwnItem(own, j)
    BY <1>1, UsesTyped DEF Owned
<1>3. ASSUME Holding(j)
      PROVE  HeldBlocks(j)' = HeldBlocks(j) /\ Elements(HeldBlocks(j)) \subseteq Blocks
    <2>1. HeldBlocks(j)' = HeldBlocks(j)
        BY <1>3, BelowEntries
    <2>2. HeldBlocks(j) \in Seq(Blocks)
        BY <1>1, <1>3, HoldingTyped
    <2>3. \A x \in DOMAIN HeldBlocks(j) : HeldBlocks(j)[x] \in Blocks
        BY <2>2, ElementOfSeq
    <2>. QED
        BY <2>1, <2>3 DEF Elements
<1>4. ASSUME State(j)' = 2, NEW x \in Elements(HeldBlocks(j))'
      PROVE  new[x] = new[worklist'[j].block]
    <2>1. Holding(j)
        BY <1>1, <1>4 DEF Holding
    <2>2. x \in Elements(HeldBlocks(j)) /\ x \in Blocks
        BY <1>3, <1>4, <2>1 DEF Elements
    <2>. QED
        BY <1>1, <1>2, <1>4, <2>2 DEF OwnItem
<1>5. ASSUME Kind(j)' = "BLOCK", State(j)' = 1, NEW x \in Elements(HeldBlocks(j))'
      PROVE  new[x] # 0
    <2>1. Holding(j)
        BY <1>1, <1>5 DEF Holding
    <2>2. x \in Elements(HeldBlocks(j)) /\ x \in Blocks
        BY <1>3, <1>5, <2>1 DEF Elements
    <2>. QED
        BY <1>1, <1>2, <1>5, <2>2 DEF OwnItem
<1>6. ASSUME Kind(j)' = "WHILE", State(j)' # 0
      PROVE  new[top'[Node(j)']] = new[worklist'[j].block]
    <2>1. Kind(j) = "WHILE" /\ State(j) \in {1, 2}
        BY <1>1, <1>6
    <2>2. Opens(j) /\ top[Node(j)] \in Uses(j)
        <3>1. CASE State(j) = 1
            BY <2>1, <3>1 DEF Opens, Testing, Uses, Inner
        <3>2. CASE State(j) = 2
            BY <2>1, <3>2 DEF Opens, Holding, Uses, Outer
        <3>. QED
            BY <2>1, <3>1, <3>2
    <2>3. own[top[Node(j)]] = own[worklist[j].block]
        BY <1>2, <2>1 DEF OwnItem
    <2>. QED
        BY <1>1, <1>2, <2>2, <2>3
<1>7. ASSUME Testing(j)'
      PROVE  new[nodeBlock'[Node(j)']] = new[worklist'[j].block]
    <2>1. Testing(j) /\ Opens(j)
        BY <1>1, <1>7 DEF Opens
    <2>2. nodeBlock[Node(j)] \in Uses(j)
        BY <2>1 DEF Uses, Inner
    <2>3. own[nodeBlock[Node(j)]] = own[worklist[j].block]
        BY <1>2, <2>1 DEF OwnItem
    <2>. QED
        BY <1>1, <1>2, <2>1, <2>2, <2>3
<1>. QED
    BY <1>4, <1>5, <1>6, <1>7 DEF OwnItem

\* Where there is a block, there is the first.
LEMMA FirstBlock ==
    ASSUME IInv, NEW b \in Blocks
    PROVE  0 \in Blocks
<1>1. Blocks = 0..(NextBlock - 1) /\ NextBlock \in Nat
    BY DEF IInv, CodeInv
<1>2. \A n \in Nat : \A c \in 0..(n - 1) : 0 \in 0..(n - 1)
    OBVIOUS
<1>. QED
    BY <1>1, <1>2

\* Turns that make no blocks.
LEMMA QuietOwn ==
    ASSUME IInv, IInv', RegionInv, CleanInv, OwnInv, TurnStep, NEW p, NEW is, Quiet(p, is)
    PROVE  OwnInv'
<1>1. /\ p = Depth /\ walk' = <<>> /\ Blocks' = Blocks /\ Turned /\ worklist # <<>>
      /\ DOMAIN walk' = {} /\ succ' = succ /\ Firm
    BY PlainFirm DEF Quiet, TurnStep, Turned
<1>2. PICK own \in [Blocks -> Blocks] : Owned(own)
    BY DEF OwnInv
<1>3. PICK t : t = Top.block
    OBVIOUS
<1>4. t \in Blocks /\ 0 \in Blocks
    BY <1>1, <1>3, TopUses, FirstBlock
<1>5. OwnCode(own)'
    <2>1. /\ Wrote(t, is) /\ Len(is) \in Nat
          /\ \A x \in 1..Len(is) : is[x].op \notin Leaving
          /\ \A x \in 1..Len(is) : is[x].op # "BLOCK"
        BY <1>3 DEF Quiet, Guiding
    <2>2. \A b \in Blocks : Clean(b) => Clean(b)'
        BY <2>1, StaysClean
    <2>3. \A b \in Blocks' : \A c \in Elements(succ'[b]) : own[c] = own[b]
        BY <1>1, <1>2 DEF Owned, OwnCode
    <2>4. \A b \in Blocks' : (b \in Blocks => Clean(b)) => Clean(b)'
        BY <1>1, <2>2
    <2>. QED
        BY <1>1, <1>2, <1>4, <2>1, <2>3, <2>4, OwnWrote DEF Owned
<1>6. ASSUME NEW j \in DOMAIN worklist'
      PROVE  OwnItem(own, j)'
    <2>1. CASE j \in 1..(Depth - 1)
        BY <1>1, <1>2, <2>1, OwnBelow
    <2>2. CASE j >= p
        <3>1. ~Opens(j)' /\ (Kind(j)' = "WHILE" => State(j)' = 0)
            BY <2>2 DEF Quiet
        <3>2. State(j)' # 2 /\ ~(Kind(j)' = "BLOCK" /\ State(j)' = 1) /\ ~Testing(j)'
            BY <3>1 DEF Opens, Holding
        <3>. QED
            BY <3>1, <3>2 DEF OwnItem
    <2>. QED
        BY <1>1, <2>1, <2>2, NextPositions
<1>7. Owned(own)'
    BY <1>1, <1>5, <1>6 DEF Owned
<1>. QED
    BY <1>1, <1>7 DEF OwnInv

\* Turns that make blocks and wait for them: a body owns itself, every other
\* block belongs to where it is made.
LEMMA OpenOwn ==
    ASSUME IInv, IInv', RegionInv, CleanInv, NeatInv, OwnInv, TurnStep,
           NEW p, NEW m, NEW e, NEW s, NEW is,
           Opened(p, m, e, s), Leading(p, e, is), Guides(p, e, is), Pushes(p)
    PROVE  OwnInv'
<1>0. /\ p = Depth /\ walk' = walk /\ walk = <<>> /\ Turned /\ worklist # <<>>
    BY DEF TurnStep, Turned, Opened
<1>1. /\ p = Depth /\ Turned /\ worklist # <<>>
      /\ DOMAIN walk' = {} /\ p \in DOMAIN worklist' /\ p \in DOMAIN worklist
      /\ worklist'[p].block = Top.block /\ worklist[p].block = Top.block
      /\ Node(p) = Top.node /\ Node(p)' = Top.node
    BY <1>0, Positions DEF Guides, Pushes, Leading, Opened
<1>2. Firm
    BY OpenFirm
<1>3. PICK t : t = Top.block
    OBVIOUS
<1>4. /\ e \in Blocks /\ t \in Blocks /\ Clean(e) /\ 0 \in Blocks
      /\ Testing(p)' \/ State(p)' = 2 => Targets(code'[e]) = New
    BY <1>3, OpenLeaves, FirstBlock
<1>5. PICK own \in [Blocks -> Blocks] : Owned(own)
    BY DEF OwnInv
<1>6. PICK body : body = ~(Testing(p)' \/ State(p)' = 2)
    OBVIOUS
<1>7. PICK V, Old : V = Blocks' /\ Old = Blocks
    OBVIOUS
<1>8. PICK new : new = [b \in V |-> IF b \in Old THEN own[b] ELSE IF body THEN b ELSE own[t]]
    OBVIOUS
<1>9. /\ new \in [Blocks' -> Blocks'] /\ \A b \in Blocks : new[b] = own[b]
      /\ \A b \in New : new[b] = IF body THEN b ELSE new[t]
      /\ Blocks \subseteq Blocks'
    <2>1. Blocks \subseteq Blocks'
        BY <1>2 DEF Firm
    <2>. QED
        BY <1>4, <1>5, <1>7, <1>8, <2>1 DEF New
<1>10. new[e] = new[t]
    <2>1. CASE Testing(p)
        <3>1. own[nodeBlock[Node(p)]] = own[worklist[p].block]
            BY <1>1, <1>5, <2>1 DEF Owned, OwnItem
        <3>2. e = nodeBlock[Node(p)]
            BY <1>1, <2>1 DEF Leading
        <3>. QED
            BY <1>1, <1>3, <1>4, <1>9, <3>1, <3>2
    <2>2. CASE ~Testing(p)
        BY <1>3, <2>2 DEF Leading
    <2>. QED
        BY <2>1, <2>2
<1>11. OwnCode(new)'
    <2>1. Wrote(e, is) /\ Len(is) \in Nat
        BY DEF Leading
    <2>2. ASSUME NEW x \in 1..Len(is), is[x].op = "BLOCK"
          PROVE  new[is[x].blks[1]] = is[x].blks[1] /\ is[x].blks[1] # 0
        <3>1. body /\ is[x].blks = <<NextBlock>>
            BY <1>6, <2>2 DEF Guides
        <3>2. NextBlock \in New
            BY <1>1, OpenEntries DEF Inside, New
        <3>3. is[x].blks[1] = NextBlock /\ NextBlock # 0
            BY <1>4, <3>1, <3>2 DEF New
        <3>. QED
            BY <1>9, <3>1, <3>2, <3>3
    <2>3. ASSUME NEW b \in Blocks', NEW c \in Elements(succ'[b])
          PROVE  new[c] = new[b]
        <3>1. CASE b \in Blocks
            <4>1. CASE c \in Elements(succ[b])
                <5>1. own[c] = own[b]
                    BY <1>5, <3>1, <4>1 DEF Owned, OwnCode
                <5>2. c \in Blocks
                    BY <1>2, <3>1, <4>1 DEF Firm
                <5>. QED
                    BY <1>9, <3>1, <5>1, <5>2
            <4>2. CASE c \notin Elements(succ[b])
                <5>1. b = t /\ c \in New
                    <6>1. b = Top.block
                        BY <2>3, <3>1, <4>2 DEF Opened
                    <6>2. Elements(succ'[Top.block]) \subseteq Elements(succ[Top.block]) \cup New
                        BY DEF Opened
                    <6>. QED
                        BY <1>3, <2>3, <4>2, <6>1, <6>2
                <5>2. ~body
                    <6>1. succ'[b] # succ[b]
                        BY <2>3, <4>2
                    <6>. QED
                        BY <1>3, <1>6, <5>1, <6>1 DEF Guides
                <5>. QED
                    BY <1>9, <5>1, <5>2
            <4>. QED
                BY <4>1, <4>2
        <3>2. CASE b \in New
            <4>1. succ'[b] = <<>>
                BY <3>2 DEF Opened
            <4>. QED
                BY <2>3, <4>1 DEF Elements
        <3>. QED
            BY <3>1, <3>2 DEF New
    <2>4. ASSUME NEW b \in Blocks', b \in Blocks => Clean(b)
          PROVE  \/ Clean(b)'
                 \/ Targets(code'[b]) # {} /\ \A c \in Targets(code'[b]) : new[c] = new[b]
        <3>1. CASE b \in New
            <4>1. b # e
                BY <1>4, <3>1 DEF New
            <4>2. code'[b] = <<>>
                BY <2>1, <3>1, <4>1 DEF Wrote
            <4>. QED
                BY <4>2 DEF Clean, Leaves
        <3>2. CASE b \in Blocks /\ b # e
            <4>1. code'[b] = code[b]
                BY <2>1, <3>2 DEF Wrote
            <4>. QED
                BY <2>4, <3>2, <4>1 DEF Clean, Leaves
        <3>3. CASE b = e /\ body
            <4>1. \A x \in 1..Len(is) : is[x].op \notin Leaving
                BY <1>6, <3>3 DEF Leading
            <4>. QED
                BY <1>4, <2>1, <3>3, <4>1, StaysClean
        <3>4. CASE b = e /\ ~body
            <4>1. Targets(code'[b]) = New
                BY <1>4, <1>6, <3>4
            <4>2. NextBlock \in New
                BY <1>1, OpenEntries DEF Inside, New
            <4>3. \A c \in New : new[c] = new[b]
                BY <1>9, <1>10, <3>4
            <4>. QED
                BY <4>1, <4>2, <4>3
        <3>. QED
            BY <3>1, <3>2, <3>3, <3>4 DEF New
    <2>5. OwnCode(own) /\ e \in Blocks'
        BY <1>4, <1>5, <1>9 DEF Owned
    <2>. QED
        BY <1>2, <1>4, <1>9, <2>1, <2>2, <2>3, <2>4, <2>5, OwnWrote
<1>12. ASSUME NEW j \in DOMAIN worklist'
      PROVE  OwnItem(new, j)'
    <2>1. CASE j \in 1..(Depth - 1)
        BY <1>1, <1>5, <1>9, <2>1, OwnBelow
    <2>2. CASE j = p
        <3>1. /\ Floor(p)' = NextBlock /\ NextBlock \in New
              /\ State(p)' = 2 => Elements(HeldBlocks(p))' = New
            BY OpenEntries DEF Inside, New
        <3>2. worklist'[p].block = t
            BY <1>1, <1>3
        <3>3. ASSUME State(p)' = 2, NEW x \in Elements(HeldBlocks(p))'
              PROVE  new[x] = new[worklist'[p].block]
            BY <1>6, <1>9, <3>1, <3>2, <3>3
        <3>4. ASSUME Kind(p)' = "BLOCK", State(p)' = 1, NEW x \in Elements(HeldBlocks(p))'
              PROVE  new[x] # 0
            <4>1. ~Testing(p)' /\ Holding(p)'
                BY <3>4 DEF Testing, Holding
            <4>2. Elements(HeldBlocks(p))' = New
                <5>1. Inner(p)' = New
                    BY DEF Opened
                <5>. QED
                    BY <4>1, <5>1 DEF Inner
            <4>3. body
                <5>1. State(p)' # 2
                    BY <3>4
                <5>. QED
                    BY <1>6, <4>1, <5>1
            <4>4. x \in New /\ new[x] = x
                BY <1>9, <3>4, <4>2, <4>3
            <4>. QED
                BY <1>4, <4>4 DEF New
        <3>5. ASSUME Testing(p)'
              PROVE  new[top'[Node(p)']] = new[t] /\ new[nodeBlock'[Node(p)']] = new[t]
            <4>1. top'[Node(p)'] \in New
                BY <3>1, <3>5 DEF Floor
            <4>2. nodeBlock'[Node(p)'] \in New
                BY <1>1, <3>5 DEF Leading
            <4>. QED
                BY <1>6, <1>9, <3>5, <4>1, <4>2
        <3>6. ASSUME Kind(p)' = "WHILE", State(p)' = 2
              PROVE  new[top'[Node(p)']] = new[t]
            <4>1. Testing(p)
                BY <3>6 DEF Guides
            <4>2. top'[Node(p)'] = top[Node(p)]
                BY <1>1, <4>1 DEF Guides
            <4>3. own[top[Node(p)]] = own[worklist[p].block]
                BY <1>1, <1>5, <4>1 DEF Owned, OwnItem, Testing
            <4>4. top[Node(p)] \in Blocks
                <5>1. top[Node(p)] \in Uses(p)
                    BY <4>1 DEF Uses, Inner
                <5>. QED
                    BY <1>1, <5>1, UsesTyped
            <4>. QED
                BY <1>1, <1>3, <1>4, <1>9, <4>2, <4>3, <4>4
        <3>7. Kind(p)' = "WHILE" /\ State(p)' # 0 => Testing(p)' \/ State(p)' = 2
            <4>1. State(p)' \in 0..2
                <5>1. worklist' \in Seq(ReadyItems')
                    BY DEF IInv
                <5>2. worklist'[p] \in ReadyItems'
                    BY <1>1, <5>1, ElementOfSeq
                <5>. QED
                    BY <5>2 DEF ReadyItems, State
            <4>. QED
                BY <4>1 DEF Testing
        <3>. QED
            BY <2>2, <3>2, <3>3, <3>4, <3>5, <3>6, <3>7 DEF OwnItem
    <2>3. CASE j >= p /\ j # p
        <3>1. State(j)' = 0
            <4>1. j > p
                <5>1. \A a, b \in Nat : a >= b /\ a # b => a > b
                    OBVIOUS
                <5>. QED
                    BY <1>1, <2>3, <5>1, NextPositions
            <4>. QED
                BY <4>1 DEF Pushes
        <3>. QED
            BY <3>1 DEF Testing, OwnItem
    <2>. QED
        BY <1>1, <2>1, <2>2, <2>3, NextPositions
<1>13. Owned(new)'
    BY <1>1, <1>11, <1>12 DEF Owned
<1>. QED
    BY <1>9, <1>13 DEF OwnInv

\* Turns that leave a region: the join belongs to where the region is.
LEMMA LeaveOwn ==
    ASSUME IInv, IInv', RegionInv, CleanInv, OwnInv, TurnStep,
           NEW p, NEW m, NEW is, Closing(p, m), Meets(p, m, is), Calls(p, is)
    PROVE  OwnInv'
<1>1. /\ p = Depth /\ walk = <<>> /\ Turned /\ worklist # <<>> /\ Opens(p)
      /\ worklist' = Rest /\ ~Testing(p)
    BY DEF TurnStep, Turned, Closing, Meets
<1>2. Firm
    BY LeaveFirm
<1>3. DOMAIN worklist' = 1..(Depth - 1) /\ p \in DOMAIN worklist /\ worklist[p].block = Top.block
    BY <1>1, Popped, Positions
<1>4. PICK t : t = Top.block
    OBVIOUS
<1>5. t \in Blocks /\ 0 \in Blocks /\ Uses(p) \subseteq Blocks
    BY <1>1, <1>4, TopUses, FirstBlock
<1>6. PICK own \in [Blocks -> Blocks] : Owned(own)
    BY DEF OwnInv
<1>7. PICK V, Old : V = Blocks' /\ Old = Blocks
    OBVIOUS
<1>8. PICK new : new = [b \in V |-> IF b \in Old THEN own[b] ELSE own[t]]
    OBVIOUS
<1>9. /\ new \in [Blocks' -> Blocks'] /\ \A b \in Blocks : new[b] = own[b]
      /\ \A b \in New : new[b] = own[t]
      /\ Blocks \subseteq Blocks'
    <2>1. Blocks \subseteq Blocks'
        BY <1>2 DEF Firm
    <2>. QED
        BY <1>5, <1>6, <1>7, <1>8, <2>1 DEF New
<1>10. OwnItem(own, p)
    BY <1>3, <1>6 DEF Owned
<1>11. OwnCode(new)'
    <2>1. /\ Wrote(m, is) /\ Len(is) \in Nat
          /\ \A x \in 1..Len(is) : is[x].op \notin Leaving
        BY DEF Meets
    <2>2. \A x \in 1..Len(is) : is[x].op # "BLOCK"
        BY DEF Calls
    <2>3. m \in Blocks'
        <3>1. m \in Uses(Depth) \cup New
            BY DEF Closing
        <3>. QED
            BY <1>1, <1>5, <1>9, <3>1 DEF New
    <2>4. ASSUME NEW b \in Blocks', NEW c \in Elements(succ'[b])
          PROVE  new[c] = new[b]
        <3>1. CASE b \in Blocks
            <4>1. succ'[b] = succ[b]
                BY <3>1 DEF Closing
            <4>2. own[c] = own[b]
                BY <1>6, <2>4, <3>1, <4>1 DEF Owned, OwnCode
            <4>3. c \in Blocks
                BY <1>2, <2>4, <3>1, <4>1 DEF Firm
            <4>. QED
                BY <1>9, <3>1, <4>2, <4>3
        <3>2. CASE b \in New
            <4>1. succ'[b] = <<>>
                BY <3>2 DEF Closing
            <4>. QED
                BY <2>4, <4>1 DEF Elements
        <3>. QED
            BY <3>1, <3>2 DEF New
    <2>5. ASSUME NEW b \in Blocks', b \in Blocks => Clean(b)
          PROVE  Clean(b)'
        <3>1. CASE b \in Blocks
            BY <2>1, <2>5, <3>1, StaysClean
        <3>2. CASE b \in New /\ b # m
            <4>1. code'[b] = <<>>
                BY <2>1, <3>2 DEF Wrote
            <4>. QED
                BY <4>1 DEF Clean, Leaves
        <3>3. CASE b \in New /\ b = m
            <4>1. OldLen(b) = 0
                BY <3>3 DEF OldLen, New
            <4>2. DOMAIN code'[b] = 1..Len(is) /\ \A x \in 1..Len(is) : code'[b][x] = is[x]
                <5>1. /\ DOMAIN code'[b] = 1..(0 + Len(is))
                      /\ \A x \in 1..Len(is) : code'[b][0 + x] = is[x]
                    BY <2>1, <3>3, <4>1 DEF Wrote
                <5>. QED
                    BY <2>1, <5>1
            <4>. QED
                BY <2>1, <4>2 DEF Clean, Leaves
        <3>. QED
            BY <3>1, <3>2, <3>3 DEF New
    <2>. QED
        BY <1>2, <1>5, <1>6, <1>9, <2>1, <2>2, <2>3, <2>4, <2>5, OwnWrote DEF Owned
<1>12. \A j \in DOMAIN worklist' : OwnItem(new, j)'
    BY <1>1, <1>3, <1>6, <1>9, OwnBelow
<1>13. ASSUME NEW w \in DOMAIN walk'
      PROVE  OwnFrame(new, w)'
    <2>1. CASE State(p) = 2
        <3>1. \A u \in Uses(p) : own[u] = own[t]
            <4>1. \A u \in Elements(HeldBlocks(p)) : own[u] = own[t]
                BY <1>3, <1>4, <1>10, <2>1 DEF OwnItem
            <4>2. Kind(p) = "WHILE" => own[top[Node(p)]] = own[t]
                BY <1>3, <1>4, <1>10, <2>1 DEF OwnItem
            <4>3. Inner(p) = Elements(HeldBlocks(p))
                BY <1>1, <2>1 DEF Inner, Holding
            <4>. QED
                BY <1>3, <1>4, <4>1, <4>2, <4>3 DEF Uses, Outer
        <3>2. walk'[w].do # "return"
            BY <2>1 DEF Calls
        <3>3. walk'[w].block \in Uses(p) /\ walk'[w].jump \in Uses(p) \cup New
            BY <1>1, <3>2 DEF Closing
        <3>4. \A u \in Uses(p) \cup New : new[u] = own[t]
            BY <1>5, <1>9, <3>1
        <3>. QED
            BY <3>2, <3>3, <3>4 DEF OwnFrame
    <2>2. CASE State(p) # 2
        <3>1. walk'[w].do = "return" /\ walk'[w].block \in Elements(HeldBlocks(p))
            BY <2>2 DEF Calls
        <3>2. Kind(p) = "BLOCK" /\ State(p) = 1 /\ Holding(p)
            BY <1>1, <2>2 DEF Opens, Holding
        <3>3. own[walk'[w].block] # 0
            BY <1>10, <3>1, <3>2 DEF OwnItem
        <3>4. walk'[w].block \in Blocks
            BY <1>1, <1>5 DEF Closing
        <3>. QED
            BY <1>9, <3>1, <3>3, <3>4 DEF OwnFrame
    <2>. QED
        BY <2>1, <2>2
<1>14. Owned(new)'
    BY <1>11, <1>12, <1>13 DEF Owned
<1>. QED
    BY <1>9, <1>14 DEF OwnInv

\* What an item says while the walks go: where it stands may have moved, within
\* what its owner has.
LEMMA OwnItemKept ==
    ASSUME NEW own, NEW j, OwnItem(own, j), State(j)' = State(j), Kind(j)' = Kind(j),
           Testing(j)' <=> Testing(j), Node(j)' = Node(j),
           own[worklist'[j].block] = own[worklist[j].block],
           top'[Node(j)] = top[Node(j)],
           Testing(j) => own[nodeBlock'[Node(j)]] = own[nodeBlock[Node(j)]],
           Holding(j) => HeldBlocks(j)' = HeldBlocks(j)
    PROVE  OwnItem(own, j)'
<1>1. Holding(j) => Elements(HeldBlocks(j))' = Elements(HeldBlocks(j))
    BY DEF Elements
<1>2. State(j) = 2 => Holding(j)
    BY DEF Holding
<1>3. Kind(j) = "BLOCK" /\ State(j) = 1 => Holding(j)
    BY DEF Holding
<1>4. State(j)' = 2 => \A x \in Elements(HeldBlocks(j))' : own[x] = own[worklist'[j].block]
    BY <1>1, <1>2 DEF OwnItem
<1>5. Kind(j)' = "BLOCK" /\ State(j)' = 1 => \A x \in Elements(HeldBlocks(j))' : own[x] # 0
    BY <1>1, <1>3 DEF OwnItem
<1>6. Kind(j)' = "WHILE" /\ State(j)' # 0 => own[top'[Node(j)']] = own[worklist'[j].block]
    BY DEF OwnItem
<1>7. Testing(j)' => own[nodeBlock'[Node(j)']] = own[worklist'[j].block]
    BY DEF OwnItem
<1>. QED
    BY <1>4, <1>5, <1>6, <1>7 DEF OwnItem

\* The steps of a walk.
LEMMA WalkOwn ==
    ASSUME IInv, IInv', RegionInv, CleanInv, OwnInv, WalkStep,
           WalkJump \/ WalkReturn \/ WalkDescend \/ WalkSkip \/ WalkLink
    PROVE  OwnInv'
<1>1. Firm /\ Walked /\ Blocks' = Blocks /\ worklist' = worklist /\ Follows /\ Behind /\ Stays
    BY WalkFirm DEF WalkStep, Walked
<1>2. PICK own \in [Blocks -> Blocks] : Owned(own)
    BY DEF OwnInv
<1>3. PICK a, j : a = Call.block /\ j = Call.jump
    OBVIOUS
<1>4. /\ walk # <<>> /\ 1 \in DOMAIN walk /\ Call = walk[1] /\ a \in Blocks
      /\ \A w \in DOMAIN walk : walk[w].block \in Blocks
    BY <1>1, <1>3, Frames DEF Walked
<1>5. IF Call.do = "return" THEN own[a] # 0 ELSE own[j] = own[a]
    BY <1>2, <1>3, <1>4 DEF Owned, OwnFrame
<1>6. WalkJump => Call.do # "return"
    BY JumpWalks
<1>7. WalkReturn => Call.do = "return"
    BY DEF WalkReturn, Walking
<1>8. ASSUME NEW b \in Blocks
      PROVE  /\ \A c \in Targets(code'[b]) : own[c] = own[b]
             /\ ~Clean(b)' /\ Targets(code'[b]) = {} => own[b] # 0
    <2>1. CASE ~Clean(b)
        BY <1>1, <1>2, <2>1 DEF Firm, Owned, OwnCode
    <2>2. CASE Clean(b) /\ Clean(b)'
        <3>1. ~Leaves(code'[b])
            BY <2>2 DEF Clean
        <3>2. Targets(code'[b]) = {}
            BY <3>1, NoTargets
        <3>. QED
            BY <2>2, <3>2
    <2>3. CASE Clean(b) /\ ~Clean(b)'
        <3>1. (WalkJump \/ WalkReturn) /\ b = a
            BY <1>3, <2>3, WalkClean
        <3>2. CASE WalkJump
            <4>1. Targets(code'[b]) = {j}
                BY <1>3, <2>3, <3>1, <3>2, JumpLeaves
            <4>. QED
                BY <1>5, <1>6, <3>1, <3>2, <4>1
        <3>3. CASE WalkReturn
            <4>1. Targets(code'[b]) = {}
                BY <1>3, <2>3, <3>1, <3>3, ReturnLeaves
            <4>. QED
                BY <1>5, <1>7, <3>1, <3>3, <4>1
        <3>. QED
            BY <3>1, <3>2, <3>3
    <2>. QED
        BY <2>1, <2>2, <2>3
<1>9. ASSUME NEW b \in Blocks, NEW c \in Elements(succ'[b])
      PROVE  own[c] = own[b]
    <2>1. CASE c \in Elements(succ[b])
        BY <1>2, <2>1 DEF Owned, OwnCode
    <2>2. CASE c \notin Elements(succ[b])
        <3>1. b = a /\ Call.do # "return" /\ c = j
            BY <1>1, <1>3, <1>9, <2>2 DEF Walked
        <3>. QED
            BY <1>5, <3>1
    <2>. QED
        BY <2>1, <2>2
<1>10. ASSUME NEW b \in Blocks, NEW x \in DOMAIN code'[b], code'[b][x].op = "BLOCK"
       PROVE  own[code'[b][x].blks[1]] = code'[b][x].blks[1] /\ code'[b][x].blks[1] # 0
    <2>1. CASE x \in DOMAIN code[b]
        <3>1. code[b][x].op = "BLOCK"
            BY <1>1, <1>10, <2>1 DEF Behind
        <3>2. code'[b][x] = code[b][x]
            BY <1>1, <2>1, <3>1 DEF Stays
        <3>. QED
            BY <1>2, <2>1, <3>1, <3>2 DEF Owned, OwnCode
    <2>2. CASE x \notin DOMAIN code[b]
        <3>1. b = Call.block
            BY <1>1, <1>10, <2>2 DEF Behind
        <3>2. code'[b][x].op \in {"JUMP", "RETURN"}
            BY <1>1, <1>10, <2>2, <3>1 DEF Behind
        <3>. QED
            BY <1>10, <3>2
    <2>. QED
        BY <2>1, <2>2
<1>11. OwnCode(own)'
    <2>1. own[0] = 0
        BY <1>2 DEF Owned, OwnCode
    <2>. QED
        BY <1>1, <1>8, <1>9, <1>10, <2>1 DEF OwnCode
<1>12. ASSUME NEW i \in DOMAIN worklist'
       PROVE  OwnItem(own, i)'
    <2>1. /\ i \in DOMAIN worklist /\ worklist'[i] = worklist[i]
          /\ State(i)' = State(i) /\ Kind(i)' = Kind(i) /\ (Testing(i)' <=> Testing(i))
          /\ Node(i)' = Node(i) /\ top'[Node(i)] = top[Node(i)]
          /\ nodeBlock'[Node(i)] = nodeBlock[Node(i)]
          /\ Holding(i) => HeldBlocks(i)' = HeldBlocks(i)
        BY <1>1, WalkedItems
    <2>2. OwnItem(own, i)
        BY <1>2, <2>1 DEF Owned
    <2>. QED
        BY <2>1, <2>2, OwnItemKept
<1>13. ASSUME NEW u \in DOMAIN walk'
       PROVE  OwnFrame(own, u)'
    <2>1. PICK v \in DOMAIN walk :
             /\ walk'[u].do = walk[v].do /\ walk'[u].jump = walk[v].jump
             /\ \/ walk'[u].block = walk[v].block
                \/ v = 1 /\ walk'[u].block \in Elements(succ[Call.block])
        BY <1>1 DEF Walked
    <2>2. own[walk'[u].block] = own[walk[v].block]
        BY <1>2, <1>3, <1>4, <2>1 DEF Owned, OwnCode
    <2>3. OwnFrame(own, v)
        BY <1>2 DEF Owned
    <2>. QED
        BY <2>1, <2>2, <2>3 DEF OwnFrame
<1>14. Owned(own)'
    BY <1>11, <1>12, <1>13 DEF Owned
<1>. QED
    BY <1>1, <1>14 DEF OwnInv

\* The end of a region: who stood before the join now stands in it.
LEMMA RewriteOwn ==
    ASSUME IInv, IInv', RegionInv, CleanInv, NeatInv, OwnInv, WalkRewrite
    PROVE  OwnInv'
<1>1. /\ walk # <<>> /\ Call.do = "rewrite" /\ code' = code /\ succ' = succ
      /\ DOMAIN worklist' = DOMAIN worklist /\ ast' = ast
    BY DEF WalkRewrite, Walking
<1>2. walk' = <<>> /\ Blocks' = Blocks /\ DOMAIN walk' = {}
    BY <1>1, RewriteNeat, NothingWritten
<1>3. 1 \in DOMAIN walk /\ Call = walk[1]
    BY <1>1, Frames
<1>4. PICK own \in [Blocks -> Blocks] : Owned(own)
    BY DEF OwnInv
<1>5. own[Call.jump] = own[Call.block]
    BY <1>1, <1>3, <1>4 DEF Owned, OwnFrame
<1>6. OwnCode(own)'
    BY <1>1, <1>2, <1>4 DEF Owned, OwnCode, Clean
<1>7. ASSUME NEW i \in DOMAIN worklist'
      PROVE  OwnItem(own, i)'
    <2>1. /\ i \in DOMAIN worklist
          /\ State(i)' = State(i) /\ Kind(i)' = Kind(i) /\ (Testing(i)' <=> Testing(i))
          /\ Node(i)' = Node(i) /\ top'[Node(i)] = top[Node(i)]
          /\ Holding(i) => HeldBlocks(i)' = HeldBlocks(i)
          /\ worklist'[i].block = IF worklist[i].block = Call.block THEN Call.jump
                                  ELSE worklist[i].block
        BY <1>1, RewrittenItems
    <2>2. OwnItem(own, i)
        BY <1>4, <2>1 DEF Owned
    <2>3. own[worklist'[i].block] = own[worklist[i].block]
        BY <1>5, <2>1
    <2>4. own[nodeBlock'[Node(i)]] = own[nodeBlock[Node(i)]]
        <3>1. Node(i) \in Nodes
            BY <2>1, ItemTyped
        <3>2. \/ nodeBlock'[Node(i)] = nodeBlock[Node(i)]
              \/ nodeBlock[Node(i)] = Call.block /\ nodeBlock'[Node(i)] = Call.jump
            BY <3>1 DEF WalkRewrite
        <3>. QED
            BY <1>5, <3>2
    <2>. QED
        BY <2>1, <2>2, <2>3, <2>4, OwnItemKept
<1>8. Owned(own)'
    BY <1>2, <1>6, <1>7 DEF Owned
<1>. QED
    BY <1>2, <1>8 DEF OwnInv

\* At first there is the program.
LEMMA InitOwn == Init => OwnInv
<1>. SUFFICES ASSUME Init PROVE OwnInv
    OBVIOUS
<1>1. /\ DOMAIN walk = {} /\ Blocks = {0} /\ succ = [b \in 0..0 |-> <<>>]
      /\ \A j \in DOMAIN worklist : ~Opens(j) /\ State(j) = 0
      /\ code = [b \in 0..0 |-> <<Const("CONST_ARRAY", 0, Args), Store(1, 1, 0)>>]
    BY InitOpens
<1>2. PICK own : own = [b \in {0} |-> 0]
    OBVIOUS
<1>3. own \in [Blocks -> Blocks] /\ own[0] = 0
    BY <1>1, <1>2
<1>4. code[0] = <<Const("CONST_ARRAY", 0, Args), Store(1, 1, 0)>> /\ succ[0] = <<>>
    BY <1>1
<1>5. \A x \in DOMAIN code[0] : code[0][x].op \in {"CONST_ARRAY", "STORE"}
    <2>1. /\ Const("CONST_ARRAY", 0, Args).op = "CONST_ARRAY" /\ Store(1, 1, 0).op = "STORE"
        BY DEF Const, Store, Instr
    <2>. QED
        BY <1>4, <2>1
<1>6. ~Leaves(code[0])
    BY <1>5 DEF Leaves, Leaving
<1>7. Targets(code[0]) = {}
    BY <1>6, NoTargets
<1>8. Elements(succ[0]) = {}
    BY <1>4 DEF Elements
<1>9. OwnCode(own)
    BY <1>1, <1>3, <1>5, <1>6, <1>7, <1>8 DEF OwnCode, Clean
<1>10. \A j \in DOMAIN worklist : OwnItem(own, j)
    BY <1>1 DEF OwnItem, Opens
<1>. QED
    BY <1>1, <1>3, <1>9, <1>10 DEF OwnInv, Owned

-----------------------------------------------------------------------------
(* The invariant about control. *)

ControlInv ==
    /\ NeatInv
    /\ FillInv
    /\ SoleInv
    /\ CurrentInv
    /\ RouteInv
    /\ OwnInv

\* Stuttering.
LEMMA SameItems ==
    ASSUME UNCHANGED vars
    PROVE  /\ Blocks' = Blocks
           /\ \A i : /\ Node(i)' = Node(i) /\ State(i)' = State(i) /\ Kind(i)' = Kind(i)
                     /\ (Testing(i)' <=> Testing(i)) /\ (Holding(i)' <=> Holding(i))
                     /\ (Opens(i)' <=> Opens(i))
                     /\ HeldBlocks(i)' = HeldBlocks(i) /\ Inside(i)' = Inside(i)
                     /\ Spare(i)' = Spare(i) /\ Entries(i)' = Entries(i)
                     /\ Uses(i)' = Uses(i)
<1>1. UNCHANGED <<ast, worklist, walk, code, succ, closed, held, nodeBlock, top>>
    BY DEF vars
<1>2. Blocks' = Blocks
    BY <1>1, NothingWritten
<1>3. \A i : Node(i)' = Node(i) /\ State(i)' = State(i) /\ Kind(i)' = Kind(i)
    BY <1>1 DEF Node, State, Kind
<1>4. \A i : HeldBlocks(i)' = HeldBlocks(i)
    BY <1>1, <1>3 DEF HeldBlocks, HeldInstr
<1>5. \A i : (Testing(i)' <=> Testing(i)) /\ (Holding(i)' <=> Holding(i))
    BY <1>3 DEF Testing, Holding
<1>6. \A i : (Opens(i)' <=> Opens(i))
    BY <1>5 DEF Opens
<1>7. ASSUME NEW i
      PROVE  Floor(i)' = Floor(i) /\ Spare(i)' = Spare(i)
    <2>1. Floor(i)' = Floor(i)
        BY <1>1, <1>3, <1>4, <1>5 DEF Floor
    <2>2. Spare(i)' = Spare(i)
        BY <1>3, <1>4 DEF Spare
    <2>. QED
        BY <2>1, <2>2
<1>8. ASSUME NEW i
      PROVE  Inside(i)' = Inside(i) /\ Entries(i)' = Entries(i)
    <2>1. Inside(i)' = Inside(i)
        BY <1>2, <1>7 DEF Inside
    <2>2. Elements(HeldBlocks(i))' = Elements(HeldBlocks(i))
        BY <1>4 DEF Elements
    <2>3. Entries(i)' = Entries(i)
        BY <1>1, <1>3, <1>5, <1>7, <2>2 DEF Entries
    <2>. QED
        BY <2>1, <2>3
<1>9. ASSUME NEW i
      PROVE  Uses(i)' = Uses(i)
    <2>1. Elements(HeldBlocks(i))' = Elements(HeldBlocks(i))
        BY <1>4 DEF Elements
    <2>2. Outer(i)' = Outer(i)
        BY <1>1, <1>3 DEF Outer
    <2>3. Inner(i)' = Inner(i)
        BY <1>1, <1>3, <1>5, <2>1 DEF Inner
    <2>. QED
        BY <2>2, <2>3 DEF Uses
<1>. QED
    BY <1>2, <1>3, <1>4, <1>5, <1>6, <1>7, <1>8, <1>9

\* The same state: the same ways.
LEMMA SameWays ==
    ASSUME UNCHANGED vars
    PROVE  /\ \A b : (Clean(b)' <=> Clean(b)) /\ (Left(b)' <=> Left(b))
                     /\ (Awaited(b)' <=> Awaited(b))
           /\ \A a, d : (Controls(a, d)' <=> Controls(a, d)) /\ (Comes(a, d)' <=> Comes(a, d))
           /\ \A S : Apart(S) => Apart(S)'
           /\ \A k, d : FedFrom(k, d) => FedFrom(k, d)'
           /\ \A k, R, e : Sole(k, R, e) => Sole(k, R, e)'
           /\ \A k, R, A, S : Runs(k, R, A, S) => Runs(k, R, A, S)'
<1>1. UNCHANGED <<ast, worklist, walk, code, succ, closed, held, nodeBlock, top>>
    BY DEF vars
<1>2. /\ Blocks' = Blocks
      /\ \A i : /\ Node(i)' = Node(i) /\ State(i)' = State(i) /\ Kind(i)' = Kind(i)
                /\ (Testing(i)' <=> Testing(i)) /\ (Holding(i)' <=> Holding(i))
                /\ (Opens(i)' <=> Opens(i))
                /\ HeldBlocks(i)' = HeldBlocks(i) /\ Inside(i)' = Inside(i)
                /\ Spare(i)' = Spare(i) /\ Entries(i)' = Entries(i)
                /\ Uses(i)' = Uses(i)
    BY SameItems
<1>3. \A b : Clean(b)' <=> Clean(b)
    BY <1>1 DEF Clean
<1>4. \A b : Left(b)' <=> Left(b)
    BY <1>1, <1>2 DEF Left
<1>5. \A a, j, d : Covers(a, j, d)' <=> Covers(a, j, d)
    BY <1>1, <1>2 DEF Covers, Elements
<1>6. \A d : Awaited(d)' <=> Awaited(d)
    BY <1>1, <1>5 DEF Awaited, Walker
<1>7. \A a, d : Controls(a, d)' <=> Controls(a, d)
    BY <1>1, <1>2 DEF Controls, Goes
<1>8. \A a, d : Comes(a, d)' <=> Comes(a, d)
    <2>1. \A T : Joined(T)' <=> Joined(T)
        BY <1>1 DEF Joined, Enclosed, Elements
    <2>. QED
        BY <1>2, <2>1 DEF Comes
<1>9. \A S : Apart(S) => Apart(S)'
    BY <1>1, <1>2 DEF Apart, Walker, Elements
<1>10. \A k, d : FedFrom(k, d) => FedFrom(k, d)'
    BY <1>1, <1>2, <1>8 DEF FedFrom
<1>11. \A k, R, e : Sole(k, R, e) => Sole(k, R, e)'
    BY <1>1, <1>2, <1>3, <1>6 DEF Sole
<1>12. \A k, R, A, S : Runs(k, R, A, S) => Runs(k, R, A, S)'
    BY <1>1, <1>2, <1>3, <1>4, <1>7 DEF Runs
<1>. QED
    BY <1>3, <1>4, <1>6, <1>7, <1>8, <1>9, <1>10, <1>11, <1>12

\* The same state: the same invariant.
LEMMA SameControl ==
    ASSUME IInv, RegionInv, CleanInv, ControlInv, UNCHANGED vars
    PROVE  ControlInv'
<1>1. UNCHANGED <<ast, worklist, walk, code, succ, closed, held, nodeBlock, top>>
    BY DEF vars
<1>2. /\ Blocks' = Blocks
      /\ \A i : /\ Node(i)' = Node(i) /\ State(i)' = State(i) /\ Kind(i)' = Kind(i)
                /\ (Testing(i)' <=> Testing(i)) /\ (Holding(i)' <=> Holding(i))
                /\ (Opens(i)' <=> Opens(i))
                /\ HeldBlocks(i)' = HeldBlocks(i) /\ Inside(i)' = Inside(i)
                /\ Spare(i)' = Spare(i) /\ Entries(i)' = Entries(i)
                /\ Uses(i)' = Uses(i)
    BY SameItems
<1>3. /\ \A b : (Clean(b)' <=> Clean(b)) /\ (Left(b)' <=> Left(b)) /\ (Awaited(b)' <=> Awaited(b))
      /\ \A a, d : (Controls(a, d)' <=> Controls(a, d)) /\ (Comes(a, d)' <=> Comes(a, d))
      /\ \A S : Apart(S) => Apart(S)'
      /\ \A k, d : FedFrom(k, d) => FedFrom(k, d)'
      /\ \A k, R, e : Sole(k, R, e) => Sole(k, R, e)'
      /\ \A k, R, A, S : Runs(k, R, A, S) => Runs(k, R, A, S)'
    BY SameWays
<1>4. Firm
    BY <1>1, SameFirm
<1>5. NeatInv'
    <2>1. \A b \in Blocks' : Clean(b)' => succ'[b] = <<>> /\ b \notin closed'
        BY <1>1, <1>2, <1>3 DEF ControlInv, NeatInv
    <2>2. ASSUME NEW j \in DOMAIN worklist', Testing(j)' \/ State(j)' = 2
          PROVE  ~Clean(worklist[j].block)'
        <3>1. PICK b : b = worklist[j].block
            OBVIOUS
        <3>2. ~Clean(b)
            BY <1>1, <1>2, <2>2, <3>1 DEF ControlInv, NeatInv
        <3>. QED
            BY <1>1, <3>1, <3>2 DEF Clean
    <2>3. ASSUME NEW w \in DOMAIN walk', walk'[w].do = "rewrite"
          PROVE  w = Len(walk') /\ ~Clean(walk[w].block)'
        <3>1. w = Len(walk) /\ ~Clean(walk[w].block)
            BY <1>1, <2>3 DEF ControlInv, NeatInv
        <3>. QED
            BY <1>1, <3>1 DEF Clean
    <2>4. ASSUME NEW w \in DOMAIN walk', walk'[w].do = "link"
          PROVE  ~Clean(walk[w].block)' \/ Awaited(walk[w].block)'
        <3>1. PICK b : b = walk[w].block
            OBVIOUS
        <3>2. ~Clean(b) \/ Awaited(b)
            BY <1>1, <2>4, <3>1 DEF ControlInv, NeatInv
        <3>3. ~Clean(b)' \/ Awaited(b)'
            BY <1>3, <3>2
        <3>4. b = walk'[w].block
            BY <1>1, <3>1
        <3>. QED
            BY <3>3, <3>4 DEF Clean, Awaited, Covers
    <2>. QED
        BY <2>1, <2>2, <2>3, <2>4 DEF NeatInv
<1>6. FillInv'
    <2>. SUFFICES ASSUME NEW k \in DOMAIN worklist', Opens(k)', NEW d \in Inside(k)'
                  PROVE  FillAt(k, d)'
        BY DEF FillInv
    <2>1. k \in DOMAIN worklist /\ Opens(k) /\ d \in Inside(k)
        BY <1>1, <1>2
    <2>2. FillAt(k, d)
        BY <2>1 DEF ControlInv, FillInv
    <2>3. \A j : Elements(HeldBlocks(j))' = Elements(HeldBlocks(j))
        BY <1>2 DEF Elements
    <2>. QED
        BY <1>1, <1>2, <1>3, <2>2, <2>3 DEF FillAt
<1>7. SoleInv'
    <2>1. PICK R : R = Blocks
        OBVIOUS
    <2>2. PICK e \in R : Sole(0, R, e)
        BY <2>1 DEF ControlInv, SoleInv
    <2>3. Sole(0, R, e)' /\ R = Blocks'
        BY <1>2, <1>3, <2>1, <2>2
    <2>4. \E c \in Blocks' : Sole(0, Blocks, c)'
        BY <2>2, <2>3 DEF Sole
    <2>5. ASSUME NEW k \in DOMAIN worklist', Testing(k)'
          PROVE  Sole(k, Inside(k), nodeBlock[Node(k)])'
        <3>1. PICK T, c : T = Inside(k) /\ c = nodeBlock[Node(k)]
            OBVIOUS
        <3>2. Sole(k, T, c)
            BY <1>1, <1>2, <2>5, <3>1 DEF ControlInv, SoleInv
        <3>3. Sole(k, T, c)'
            BY <1>3, <3>2
        <3>4. T = Inside(k)' /\ c = nodeBlock'[Node(k)']
            BY <1>1, <1>2, <3>1
        <3>. QED
            BY <3>3, <3>4 DEF Sole
    <2>. QED
        BY <2>4, <2>5 DEF SoleInv
<1>8. CurrentInv'
    <2>1. PICK S \in SUBSET Blocks :
            /\ Apart(S)
            /\ Runs(0, Blocks, {0}, S)
            /\ \A k \in DOMAIN worklist : Opens(k) => Runs(k, Inside(k), Entries(k), S)
        BY DEF ControlInv, CurrentInv
    <2>2. Apart(S)' /\ S \in SUBSET Blocks'
        BY <1>2, <1>3, <2>1
    <2>3. Runs(0, Blocks, {0}, S)'
        <3>1. PICK R : R = Blocks
            OBVIOUS
        <3>2. Runs(0, R, {0}, S)'
            BY <1>3, <2>1, <3>1
        <3>. QED
            BY <1>2, <3>1, <3>2 DEF Runs
    <2>4. ASSUME NEW k \in DOMAIN worklist', Opens(k)'
          PROVE  Runs(k, Inside(k), Entries(k), S)'
        <3>1. PICK R, A : R = Inside(k) /\ A = Entries(k)
            OBVIOUS
        <3>2. Runs(k, R, A, S)
            BY <1>1, <1>2, <2>1, <2>4, <3>1
        <3>3. Runs(k, R, A, S)'
            BY <1>3, <3>2
        <3>4. R = Inside(k)' /\ A = Entries(k)'
            BY <1>2, <3>1
        <3>. QED
            BY <3>3, <3>4 DEF Runs
    <2>. QED
        BY <2>2, <2>3, <2>4 DEF CurrentInv
<1>9. RouteInv'
    <2>1. RouteInv
        BY DEF ControlInv
    <2>2. \A j \in DOMAIN worklist' :
             /\ Testing(j)' => Controls(worklist[j].block, top[Node(j)])'
             /\ State(j)' = 2 => \A x \in Elements(HeldBlocks(j))' : Controls(worklist[j].block, x)'
        BY <1>1, <1>2, <1>4, <2>1, RouteKept
    <2>3. ASSUME NEW w \in DOMAIN walk', walk'[w].do = "rewrite"
          PROVE  \/ Controls(walk[w].block, walk[w].jump)'
                 \/ (\E c \in Blocks : /\ Clean(c) /\ Awaited(c) /\ Controls(walk[w].block, c)
                                       /\ \A v \in DOMAIN walk :
                                             Walker(v) => walk[v].jump = walk[w].jump)'
        <3>1. PICK b, M : b = walk[w].block /\ M = walk[w].jump
            OBVIOUS
        <3>2. b = walk'[w].block /\ M = walk'[w].jump
            BY <1>1, <3>1
        <3>3. CASE Controls(b, M)
            <4>1. Controls(b, M)'
                BY <1>3, <3>3
            <4>. QED
                BY <3>2, <4>1 DEF Controls
        <3>4. CASE ~Controls(b, M)
            <4>1. PICK c \in Blocks : /\ Clean(c) /\ Awaited(c) /\ Controls(b, c)
                                      /\ \A v \in DOMAIN walk : Walker(v) => walk[v].jump = M
                BY <1>1, <2>1, <2>3, <3>1, <3>4 DEF RouteInv
            <4>2. Clean(c)' /\ Awaited(c)' /\ Controls(b, c)' /\ c \in Blocks'
                BY <1>2, <1>3, <4>1
            <4>3. Controls(walk[w].block, c)'
                BY <3>2, <4>2 DEF Controls
            <4>4. \A v \in DOMAIN walk' : Walker(v)' => walk'[v].jump = walk'[w].jump
                BY <1>1, <3>2, <4>1 DEF Walker
            <4>. QED
                BY <4>2, <4>3, <4>4
        <3>. QED
            BY <3>3, <3>4
    <2>. QED
        BY <2>2, <2>3 DEF RouteInv
<1>10. OwnInv'
    <2>1. PICK own \in [Blocks -> Blocks] : Owned(own)
        BY DEF ControlInv, OwnInv
    <2>2. OwnCode(own)'
        BY <1>1, <1>2, <2>1 DEF Owned, OwnCode, Clean, Elements
    <2>3. ASSUME NEW i \in DOMAIN worklist'
          PROVE  OwnItem(own, i)'
        <3>1. OwnItem(own, i)
            BY <1>1, <2>1, <2>3 DEF Owned
        <3>. QED
            BY <1>1, <1>2, <3>1, OwnItemKept
    <2>4. \A w \in DOMAIN walk' : OwnFrame(own, w)'
        BY <1>1, <2>1 DEF Owned, OwnFrame
    <2>. QED
        BY <1>2, <2>1, <2>2, <2>3, <2>4 DEF Owned, OwnInv
<1>. QED
    BY <1>5, <1>6, <1>7, <1>8, <1>9, <1>10 DEF ControlInv

\* A turn makes no blocks, makes some and waits for them, or leaves a region.
LEMMA TurnKinds ==
    ASSUME IInv, IInv', RegionInv,
           \/ GenLiteral \/ GenIdentifier \/ GenNullary \/ GenSchedule
           \/ GenUnary \/ GenBinary \/ GenSlice \/ GenDump \/ GenExpr \/ GenAssign
           \/ GenCall \/ GenBlockEnter \/ GenBlockLeave
           \/ GenShortCircuit \/ GenShortCircuitMerge \/ GenIfBranch \/ GenIfMerge
           \/ GenWhileEnter \/ GenWhileBranch \/ GenWhileLoop
    PROVE  PlainStep \/ OpenStep \/ LeaveStep
<1>1. CASE GenLiteral \/ GenIdentifier \/ GenNullary \/ GenUnary \/ GenBinary
           \/ GenSlice \/ GenDump \/ GenAssign
    BY <1>1, SimplePops
<1>2. CASE GenSchedule \/ GenExpr \/ GenCall
    BY <1>2, GenScheduleKeeps, GenExprKeeps, GenCallKeeps
<1>3. CASE GenBlockEnter \/ GenBlockLeave
    BY <1>3, GenBlockEnterKeeps, GenBlockLeaveKeeps
<1>4. CASE GenShortCircuit \/ GenShortCircuitMerge
    BY <1>4, GenShortCircuitKeeps, GenShortCircuitMergeKeeps
<1>5. CASE GenIfBranch \/ GenIfMerge
    BY <1>5, GenIfBranchKeeps, GenIfMergeKeeps
<1>6. CASE GenWhileEnter \/ GenWhileBranch \/ GenWhileLoop
    BY <1>6, GenWhileEnterKeeps, GenWhileBranchKeeps, GenWhileLoopKeeps
<1>. QED
    BY <1>1, <1>2, <1>3, <1>4, <1>5, <1>6

\* Every turn keeps it.
LEMMA TurnControl ==
    ASSUME IInv, IInv', RegionInv, CleanInv, ControlInv, PlainStep \/ OpenStep \/ LeaveStep
    PROVE  ControlInv'
<1>0. NeatInv /\ FillInv /\ SoleInv /\ CurrentInv /\ RouteInv /\ OwnInv
    BY DEF ControlInv
<1>1. CASE PlainStep
    <2>1. PICK p, is : TurnStep /\ Quiet(p, is)
        BY <1>1 DEF PlainStep
    <2>2. NeatInv' /\ FillInv' /\ SoleInv'
        BY <1>0, <2>1, QuietNeat, QuietFill, QuietSole
    <2>3. CurrentInv' /\ RouteInv' /\ OwnInv'
        BY <1>0, <2>1, QuietCurrent, QuietRoute, QuietOwn
    <2>. QED
        BY <2>2, <2>3 DEF ControlInv
<1>2. CASE OpenStep
    <2>1. PICK p, m, e, s, is : /\ TurnStep /\ Opened(p, m, e, s) /\ Leading(p, e, is)
                                /\ Guides(p, e, is) /\ Pushes(p)
        BY <1>2 DEF OpenStep
    <2>2. NeatInv'
        BY <1>0, <2>1, OpenNeat
    <2>3. FillInv'
        BY <1>0, <2>1, OpenFill
    <2>4. SoleInv'
        BY <1>0, <2>1, OpenSole
    <2>5. CurrentInv'
        BY <1>0, <2>1, OpenCurrent
    <2>6. RouteInv'
        BY <1>0, <2>1, OpenRoute
    <2>7. OwnInv'
        BY <1>0, <2>1, OpenOwn
    <2>. QED
        BY <2>2, <2>3, <2>4, <2>5, <2>6, <2>7 DEF ControlInv
<1>3. CASE LeaveStep
    <2>1. PICK p, m, is, S : /\ TurnStep /\ Closing(p, m) /\ Meets(p, m, is) /\ Calls(p, is)
                             /\ S = Inside(p) /\ Apart(S)'
        BY <1>3 DEF LeaveStep
    <2>2. NeatInv'
        BY <1>0, <2>1, LeaveNeat
    <2>3. FillInv'
        BY <1>0, <2>1, LeaveFill
    <2>4. SoleInv'
        BY <1>0, <2>1, LeaveSole
    <2>5. CurrentInv'
        BY <1>0, <2>1, LeaveCurrent
    <2>6. RouteInv'
        BY <1>0, <2>1, LeaveRoute
    <2>7. OwnInv'
        BY <1>0, <2>1, LeaveOwn
    <2>. QED
        BY <2>2, <2>3, <2>4, <2>5, <2>6, <2>7 DEF ControlInv
<1>. QED
    BY <1>1, <1>2, <1>3

\* Every step of a walk keeps it.
LEMMA WalkControl ==
    ASSUME IInv, IInv', RegionInv, CleanInv, ControlInv,
           WalkJump \/ WalkReturn \/ WalkDescend \/ WalkSkip \/ WalkLink
    PROVE  ControlInv'
<1>0. NeatInv /\ FillInv /\ SoleInv /\ CurrentInv /\ RouteInv /\ OwnInv
    BY DEF ControlInv
<1>1. WalkStep
    BY WalksKeep
<1>2. NeatInv' /\ FillInv' /\ SoleInv'
    BY <1>0, <1>1, WalkNeat, WalkFill, WalkSole
<1>3. CurrentInv' /\ RouteInv' /\ OwnInv'
    BY <1>0, <1>1, WalkCurrent, WalkRoute, WalkOwn
<1>. QED
    BY <1>2, <1>3 DEF ControlInv

\* Every step keeps it.
LEMMA NextControl ==
    IInv /\ IInv' /\ RegionInv /\ CleanInv /\ ControlInv /\ [Next]_vars => ControlInv'
<1>. SUFFICES ASSUME IInv, IInv', RegionInv, CleanInv, ControlInv, [Next]_vars
              PROVE  ControlInv'
    OBVIOUS
<1>1. CASE Next /\ ~UNCHANGED vars
    <2>1. Generate
        BY <1>1 DEF Next, Return
    <2>2. CASE WalkJump \/ WalkReturn \/ WalkDescend \/ WalkSkip \/ WalkLink
        BY <2>2, WalkControl
    <2>3. CASE WalkRewrite
        <3>0. NeatInv /\ FillInv /\ SoleInv /\ CurrentInv /\ RouteInv /\ OwnInv
            BY DEF ControlInv
        <3>. QED
            BY <2>3, <3>0, RewriteNeat, RewriteFill, RewriteSole, RewriteCurrent,
               RewriteRoute, RewriteOwn DEF ControlInv
    <2>4. CASE ~(WalkJump \/ WalkReturn \/ WalkDescend \/ WalkSkip \/ WalkLink
                 \/ WalkRewrite)
        BY <2>1, <2>4, TurnKinds, TurnControl DEF Generate
    <2>. QED
        BY <2>2, <2>3, <2>4
<1>2. CASE UNCHANGED vars
    BY <1>2, SameControl
<1>. QED
    BY <1>1, <1>2

\* The initial state.
LEMMA InitControl == Init => ControlInv
    BY InitNeat, InitFill, InitSole, InitCurrent, InitRoute, InitOwn DEF ControlInv

\* One block at a time is left to go on in, control comes to it, and it stays
\* with its owner, in every state of the generator: where the code that is not
\* there yet will go.
THEOREM ControlAlways == Spec => []ControlInv
    BY NextControl, InitControl, InitIInv, Invariance, RegionsAlways, CleanAlways, PTL DEF Spec

-----------------------------------------------------------------------------
(* What control reaches. *)

\* r is the function that Reach defines.
IsSpread(r, c, from, cut, n) ==
    r = [k \in 0..n |->
            IF k = 0 THEN from \ cut
            ELSE LET near == r[k - 1]
                 IN  near \cup ((UNION {Targets(c[b]) : b \in near}) \ cut)]

\* There is one, for every n.
LEMMA SpreadExists ==
    ASSUME NEW n \in Nat, NEW c, NEW from, NEW cut
    PROVE  \E r : IsSpread(r, c, from, cut, n)
<1>. DEFINE F(r, k) ==
                IF k = 0 THEN from \ cut
                ELSE r[k - 1] \cup ((UNION {Targets(c[b]) : b \in r[k - 1]}) \ cut)
            Good(r, m) == r = [k \in 0..m |-> F(r, k)]
            N == {m \in Nat : \E r : Good(r, m)}
<1>1. 0 \in N
    <2>. DEFINE r == [k \in {0} |-> from \ cut]
    <2>1. 0..0 = {0}
        OBVIOUS
    <2>2. r = [k \in 0..0 |-> F(r, k)]
        BY <2>1
    <2>. QED
        BY <2>2
<1>2. ASSUME NEW m \in 1..n, m - 1 \in N
      PROVE  m \in N
    <2>1. PICK r : r = [k \in 0..(m - 1) |-> F(r, k)]
        BY <1>2
    <2>. DEFINE q == [k \in 0..m |-> IF k = m THEN F(r, m) ELSE r[k]]
    <2>2. ASSUME NEW k \in 0..m
          PROVE  F(q, k) = F(r, k)
        <3>1. CASE k = 0
            BY <3>1
        <3>2. CASE k # 0
            <4>1. k - 1 \in 0..m /\ k - 1 # m
                BY <3>2
            <4>2. q[k - 1] = r[k - 1]
                BY <4>1
            <4>. HIDE DEF q
            <4>. QED
                BY <4>2
        <3>. QED
            BY <3>1, <3>2
    <2>3. ASSUME NEW k \in 0..m
          PROVE  q[k] = F(q, k)
        <3>1. CASE k = m
            BY <3>1, <2>2
        <3>2. CASE k # m
            <4>1. k \in 0..(m - 1)
                BY <3>2
            <4>2. r[k] = F(r, k)
                <5>. HIDE DEF F
                <5>. QED
                    BY <2>1, <4>1
            <4>. HIDE DEF F
            <4>. QED
                BY <4>2, <3>2, <2>2
        <3>. QED
            BY <3>1, <3>2
    <2>. HIDE DEF F
    <2>4. q = [k \in 0..m |-> F(q, k)]
        <3>1. q = [k \in 0..m |-> q[k]]
            OBVIOUS
        <3>. HIDE DEF q
        <3>. QED
            BY <2>3, <3>1
    <2>5. Good(q, m) /\ m \in Nat
        BY <2>4
    <2>. HIDE DEF Good, q
    <2>. QED
        BY <2>5
<1>3. n \in N
    <2>. HIDE DEF N
    <2>1. 0..n \subseteq N
        BY <1>1, <1>2, UpTo
    <2>. QED
        BY <2>1
<1>4. PICK r : Good(r, n)
    BY <1>3
<1>. QED
    BY <1>4 DEF IsSpread

\* Reach takes it at the number of blocks.
LEMMA ReachIs ==
    ASSUME NEW c, Cardinality(DOMAIN c) \in Nat, NEW from, NEW cut
    PROVE  \E r : /\ IsSpread(r, c, from, cut, Cardinality(DOMAIN c))
                  /\ Reach(c, from, cut) = r[Cardinality(DOMAIN c)]
<1>. DEFINE r[k \in 0..Cardinality(DOMAIN c)] ==
                IF k = 0 THEN from \ cut
                ELSE LET near == r[k - 1]
                     IN  near \cup ((UNION {Targets(c[b]) : b \in near}) \ cut)
            P(q) == IsSpread(q, c, from, cut, Cardinality(DOMAIN c))
<1>1. \E q : P(q)
    BY SpreadExists
<1>2. r = CHOOSE q : P(q)
    BY DEF IsSpread
<1>3. Reach(c, from, cut) = r[Cardinality(DOMAIN c)]
    BY DEF Reach
<1>. HIDE DEF P, r
<1>4. P(r)
    BY <1>1, <1>2, Zenon
<1>. QED
    BY <1>3, <1>4 DEF P

\* What one step of it adds.
Adds(c, R, cut, q) ==
    /\ R \subseteq q
    /\ \A b \in R : Targets(c[b]) \ cut \subseteq q
    /\ \A d \in q : d \in R \/ \E b \in R : d \in Targets(c[b]) \ cut

\* It adds that.
LEMMA AddsOne ==
    ASSUME NEW c, NEW R, NEW cut
    PROVE  Adds(c, R, cut, R \cup ((UNION {Targets(c[b]) : b \in R}) \ cut))
<1>. DEFINE U == UNION {Targets(c[b]) : b \in R}
<1>1. \A d \in U : \E b \in R : d \in Targets(c[b])
    OBVIOUS
<1>2. ASSUME NEW b \in R
      PROVE  Targets(c[b]) \subseteq U
    OBVIOUS
<1>. HIDE DEF U
<1>3. Adds(c, R, cut, R \cup (U \ cut))
    BY <1>1, <1>2 DEF Adds
<1>. QED
    BY <1>3 DEF U

\* Step by step.
LEMMA SpreadSteps ==
    ASSUME NEW n \in Nat, NEW r, NEW c, NEW from, NEW cut, IsSpread(r, c, from, cut, n)
    PROVE  /\ r[0] = from \ cut
           /\ \A k \in 1..n : Adds(c, r[k - 1], cut, r[k])
<1>1. 0 \in 0..n /\ \A k \in 1..n : k \in 0..n /\ k # 0
    OBVIOUS
<1>2. r[0] = from \ cut
    BY <1>1 DEF IsSpread
<1>3. ASSUME NEW k \in 1..n
      PROVE  Adds(c, r[k - 1], cut, r[k])
    <2>1. r[k] = r[k - 1] \cup ((UNION {Targets(c[b]) : b \in r[k - 1]}) \ cut)
        BY <1>1, <1>3 DEF IsSpread
    <2>2. Adds(c, r[k - 1], cut, r[k - 1] \cup ((UNION {Targets(c[b]) : b \in r[k - 1]}) \ cut))
        BY AddsOne
    <2>. QED
        BY <2>1, <2>2
<1>. QED
    BY <1>2, <1>3

\* Nothing that a set keeps in is reached outside of it.
LEMMA ReachWithin ==
    ASSUME NEW c, Cardinality(DOMAIN c) \in Nat, NEW from, NEW cut, NEW T,
           from \ cut \subseteq T, \A b \in T : Targets(c[b]) \ cut \subseteq T
    PROVE  Reach(c, from, cut) \subseteq T
<1>. DEFINE n == Cardinality(DOMAIN c)
<1>1. PICK r : IsSpread(r, c, from, cut, n) /\ Reach(c, from, cut) = r[n]
    BY ReachIs
<1>. DEFINE A == {k \in Nat : r[k] \subseteq T}
<1>. HIDE DEF n
<1>2. n \in Nat
    BY DEF n
<1>3. 0 \in A
    BY <1>1, <1>2, SpreadSteps
<1>4. ASSUME NEW k \in 1..n, k - 1 \in A
      PROVE  k \in A
    <2>1. Adds(c, r[k - 1], cut, r[k])
        BY <1>1, <1>2, SpreadSteps
    <2>2. r[k - 1] \subseteq T
        BY <1>4
    <2>. QED
        BY <2>1, <2>2 DEF Adds
<1>5. 0..n \subseteq A
    <2>. HIDE DEF A
    <2>. QED
        BY <1>2, <1>3, <1>4, UpTo
<1>6. n \in 0..n
    BY <1>2
<1>. QED
    BY <1>1, <1>5, <1>6

\* From what is reached everything it leads to is reached: there are not more
\* steps to take than there are blocks.
LEMMA ReachCloses ==
    ASSUME NEW c, IsFiniteSet(DOMAIN c), \A b \in DOMAIN c : Targets(c[b]) \subseteq DOMAIN c,
           NEW a \in DOMAIN c, NEW cut, a \notin cut
    PROVE  /\ a \in Reach(c, {a}, cut) /\ Reach(c, {a}, cut) \subseteq DOMAIN c
           /\ \A b \in Reach(c, {a}, cut) : Targets(c[b]) \ cut \subseteq Reach(c, {a}, cut)
<1>. DEFINE n == Cardinality(DOMAIN c)
<1>1. n \in Nat
    BY FS_CardinalityType
<1>2. PICK r : IsSpread(r, c, {a}, cut, n) /\ Reach(c, {a}, cut) = r[n]
    BY <1>1, ReachIs
<1>3. Reach(c, {a}, cut) \subseteq DOMAIN c
    BY <1>1, ReachWithin
<1>. DEFINE Shut(R) == \A b \in R : Targets(c[b]) \ cut \subseteq R
            A == {k \in Nat : /\ a \in r[k] /\ r[k] \subseteq DOMAIN c
                              /\ Shut(r[k]) \/ Cardinality(r[k]) >= k + 1}
<1>4. 0 \in A
    <2>1. r[0] = {a}
        BY <1>1, <1>2, SpreadSteps
    <2>2. Cardinality(r[0]) >= 0 + 1
        <3>1. Cardinality({a}) = 1
            BY FS_Singleton
        <3>2. 1 >= 0 + 1
            OBVIOUS
        <3>. QED
            BY <2>1, <3>1, <3>2
    <2>3. a \in r[0] /\ r[0] \subseteq DOMAIN c /\ 0 \in Nat
        BY <2>1
    <2>. HIDE DEF Shut
    <2>. QED
        BY <2>2, <2>3
<1>5. ASSUME NEW k \in 1..n, k - 1 \in A
      PROVE  k \in A
    <2>1. PICK R : R = r[k - 1]
        OBVIOUS
    <2>2. Adds(c, R, cut, r[k])
        BY <1>1, <1>2, <2>1, SpreadSteps
    <2>3. /\ a \in R /\ R \subseteq DOMAIN c
          /\ Shut(R) \/ Cardinality(R) >= (k - 1) + 1
        BY <1>5, <2>1
    <2>4. a \in r[k] /\ r[k] \subseteq DOMAIN c /\ R \subseteq r[k]
        BY <2>2, <2>3 DEF Adds
    <2>5. CASE Shut(R)
        <3>1. r[k] \subseteq R
            BY <2>2, <2>5 DEF Adds
        <3>2. r[k] = R
            BY <2>4, <3>1
        <3>. QED
            BY <2>4, <2>5, <3>2
    <2>6. CASE ~Shut(R)
        <3>1. r[k] # R
            BY <2>2, <2>6 DEF Adds
        <3>2. IsFiniteSet(r[k]) /\ Cardinality(r[k]) \in Nat
            BY <2>4, FS_Subset, FS_CardinalityType
        <3>3. Cardinality(R) <= Cardinality(r[k]) /\ Cardinality(R) # Cardinality(r[k])
              /\ Cardinality(R) \in Nat
            BY <2>4, <3>1, <3>2, FS_Subset, FS_CardinalityType
        <3>4. Cardinality(R) >= (k - 1) + 1
            BY <2>3, <2>6
        <3>5. Cardinality(r[k]) >= k + 1
            BY <3>2, <3>3, <3>4
        <3>. QED
            BY <2>4, <3>5
    <2>. QED
        BY <2>5, <2>6
<1>6. n \in A
    <2>1. 0..n \subseteq A
        <3>. HIDE DEF A, n
        <3>. QED
            BY <1>1, <1>4, <1>5, UpTo
    <2>. QED
        BY <1>1, <2>1
<1>7. Shut(r[n])
    <2>1. Cardinality(r[n]) <= n /\ Cardinality(r[n]) \in Nat
        BY <1>6, FS_Subset, FS_CardinalityType
    <2>2. ~(Cardinality(r[n]) >= n + 1)
        BY <1>1, <2>1
    <2>. QED
        BY <1>6, <2>2
<1>. QED
    BY <1>2, <1>3, <1>6, <1>7

-----------------------------------------------------------------------------
(* The program when the generator is done. *)

\* Only a block that nothing leaves ends the program, and what returns leads
\* nowhere.
LEMMA EndsClean ==
    ASSUME IInv, CleanInv, NEW b \in Blocks
    PROVE  /\ Exit(code[b]) = "END" <=> Clean(b)
           /\ Exit(code[b]) = "RETURN" => ~Clean(b) /\ Targets(code[b]) = {}
<1>1. CASE Clean(b)
    <2>1. Exit(code[b]) = "END"
        BY <1>1, NoTargets DEF Clean
    <2>. QED
        BY <1>1, <2>1
<1>2. CASE ~Clean(b)
    <2>1. PICK k \in DOMAIN code[b] : Cut(b, k)
        BY <1>2 DEF CleanInv, Tidy
    <2>2. code[b] \in Seq(ReadyInstructions(Blocks))
        BY BlockIsSeq DEF IInv
    <2>3. Exit(code[b]) = code[b][k].op /\ code[b][k].op \in Leaving
        BY <2>1, <2>2, TargetsAt DEF Cut
    <2>4. Exit(code[b]) = "RETURN" => Targets(code[b]) = {}
        BY DEF Targets
    <2>. QED
        BY <1>2, <2>3, <2>4 DEF Leaving
<1>. QED
    BY <1>1, <1>2

\* One block is left to end the program, and control leads there.
LEMMA OneEnd ==
    ASSUME Finished, SoleInv, CurrentInv
    PROVE  \E e \in Blocks : /\ \A b \in Blocks : Clean(b) <=> b = e
                             /\ Controls(0, e)
<1>1. DOMAIN worklist = {} /\ DOMAIN walk = {}
    BY DEF Finished
<1>2. PICK e \in Blocks : Sole(0, Blocks, e)
    BY DEF SoleInv
<1>3. \A b \in Blocks : Clean(b) => b = e
    BY <1>1, <1>2 DEF Sole, Awaited
<1>4. PICK d \in Blocks : (Clean(d) \/ Left(d)) /\ Controls(0, d)
    BY DEF CurrentInv, Runs
<1>5. Clean(d)
    BY <1>1, <1>4 DEF Left
<1>. QED
    BY <1>3, <1>4, <1>5

\* What is reached from a block is closed under where control goes.
LEMMA ReachGoes ==
    ASSUME IInv, CleanInv, NEW a \in Blocks
    PROVE  /\ a \in Reach(code, {a}, {}) /\ Reach(code, {a}, {}) \in SUBSET Blocks
           /\ Goes(Reach(code, {a}, {}))
           /\ \A d : Controls(a, d) => d \in Reach(code, {a}, {})
<1>1. DOMAIN code = Blocks /\ IsFiniteSet(Blocks)
    <2>1. NextBlock \in Nat /\ Blocks = 0..(NextBlock - 1) /\ DOMAIN code = Blocks
        BY DEF IInv, CodeInv
    <2>2. IsFiniteSet(0..(NextBlock - 1))
        BY <2>1, FS_Interval
    <2>. QED
        BY <2>1, <2>2
<1>2. \A b \in Blocks : Targets(code[b]) \subseteq Blocks
    BY TargetsTyped
<1>3. /\ a \in Reach(code, {a}, {}) /\ Reach(code, {a}, {}) \subseteq Blocks
      /\ \A b \in Reach(code, {a}, {}) : Targets(code[b]) \ {} \subseteq Reach(code, {a}, {})
    <2>1. a \notin {} /\ a \in DOMAIN code
        BY <1>1
    <2>2. \A b \in DOMAIN code : Targets(code[b]) \subseteq DOMAIN code
        BY <1>1, <1>2
    <2>3. IsFiniteSet(DOMAIN code)
        BY <1>1
    <2>4. /\ a \in Reach(code, {a}, {}) /\ Reach(code, {a}, {}) \subseteq DOMAIN code
          /\ \A b \in Reach(code, {a}, {}) : Targets(code[b]) \ {} \subseteq Reach(code, {a}, {})
        BY <2>1, <2>2, <2>3, ReachCloses
    <2>. QED
        BY <1>1, <2>4
<1>4. Goes(Reach(code, {a}, {}))
    BY <1>3 DEF Goes
<1>. QED
    BY <1>3, <1>4 DEF Controls

\* It is owned by what owns the block.
LEMMA ReachOwned ==
    ASSUME IInv, CleanInv, NEW own, OwnCode(own), NEW a \in Blocks,
           NEW b \in Reach(code, {a}, {})
    PROVE  own[b] = own[a]
<1>. DEFINE T == {x \in Blocks : own[x] = own[a]}
<1>1. DOMAIN code = Blocks /\ Cardinality(Blocks) \in Nat
    <2>1. NextBlock \in Nat /\ Blocks = 0..(NextBlock - 1) /\ DOMAIN code = Blocks
        BY DEF IInv, CodeInv
    <2>2. IsFiniteSet(0..(NextBlock - 1))
        BY <2>1, FS_Interval
    <2>. QED
        BY <2>1, <2>2, FS_CardinalityType
<1>2. {a} \ {} \subseteq T
    OBVIOUS
<1>3. \A x \in T : Targets(code[x]) \ {} \subseteq T
    BY TargetsTyped DEF OwnCode
<1>. HIDE DEF T
<1>4. Reach(code, {a}, {}) \subseteq T
    <2>1. Cardinality(DOMAIN code) \in Nat
        BY <1>1
    <2>. QED
        BY <2>1, <1>2, <1>3, ReachWithin
<1>. QED
    BY <1>4 DEF T

\* A body is a block that owns itself and is not the first.
LEMMA BodiesOwn ==
    ASSUME IInv, NEW own, OwnCode(own), NEW r \in Bodies(code)
    PROVE  r \in Blocks /\ own[r] = r /\ r # 0
<1>1. DOMAIN code = Blocks
    BY DEF IInv, CodeInv
<1>2. \E b \in Blocks : \E x \in DOMAIN code[b] :
         code[b][x].op = "BLOCK" /\ r = code[b][x].blks[1]
    <2>1. PICK q \in UNION {{b} \X DOMAIN code[b] : b \in DOMAIN code} :
             code[q[1]][q[2]].op = "BLOCK" /\ r = code[q[1]][q[2]].blks[1]
        BY DEF Bodies
    <2>2. PICK b \in DOMAIN code : q \in {b} \X DOMAIN code[b]
        BY <2>1
    <2>3. q[1] = b /\ q[2] \in DOMAIN code[b]
        BY <2>2
    <2>. QED
        BY <1>1, <2>1, <2>2, <2>3
<1>3. PICK b \in Blocks : \E x \in DOMAIN code[b] :
         code[b][x].op = "BLOCK" /\ r = code[b][x].blks[1]
    BY <1>2
<1>4. PICK x \in DOMAIN code[b] : code[b][x].op = "BLOCK" /\ r = code[b][x].blks[1]
    BY <1>3
<1>5. code[b][x] \in ReadyInstructions(Blocks)
    BY <1>4, BlockIsSeq DEF IInv
<1>6. code[b][x].blks \in Seq(Blocks) /\ Len(code[b][x].blks) = 1
    BY <1>4, <1>5 DEF ReadyInstructions, Instruction, Shaped
<1>7. r \in Blocks
    <2>1. 1 \in 1..Len(code[b][x].blks)
        BY <1>6
    <2>. QED
        BY <1>4, <1>6, <2>1, LenProperties, ElementOfSeq
<1>. QED
    BY <1>4, <1>7 DEF OwnCode

\* Control never falls off a block half way: one block ends the program, it is
\* reached from the entry, and from a body every block goes on or returns.
THEOREM ControlIsComplete == Spec => []ControlComplete
<1>1. ASSUME IInv, CleanInv, ControlInv, Finished
      PROVE  /\ \A r, q \in Roots :
                   r # q => Reach(code, {r}, {}) \cap Reach(code, {q}, {}) = {}
             /\ \A b \in Reach(code, {0}, {}) : Exit(code[b]) # "RETURN"
             /\ Cardinality({b \in Reach(code, {0}, {}) : Exit(code[b]) = "END"}) = 1
             /\ \A r \in Bodies(code) : \A b \in Reach(code, {r}, {}) :
                   Exit(code[b]) # "END"
    <2>1. SoleInv /\ CurrentInv /\ OwnInv
        BY <1>1 DEF ControlInv
    <2>2. PICK own : OwnCode(own)
        BY <2>1 DEF OwnInv, Owned
    <2>3. PICK e \in Blocks : (\A b \in Blocks : Clean(b) <=> b = e) /\ Controls(0, e)
        BY <1>1, <2>1, OneEnd
    <2>4. 0 \in Blocks /\ own[0] = 0
        <3>1. Blocks = 0..(NextBlock - 1) /\ NextBlock \in Nat
            BY <1>1 DEF IInv, CodeInv
        <3>2. e \in 0..(NextBlock - 1)
            BY <2>3, <3>1
        <3>. QED
            BY <2>2, <3>1, <3>2 DEF OwnCode
    <2>5. ASSUME NEW r \in Roots
          PROVE  r \in Blocks /\ own[r] = r /\ (r \in Bodies(code) => r # 0)
        BY <1>1, <2>2, <2>4, BodiesOwn DEF Roots
    <2>6. ASSUME NEW r \in Roots, NEW b \in Reach(code, {r}, {})
          PROVE  b \in Blocks /\ own[b] = r
        BY <1>1, <2>2, <2>5, ReachGoes, ReachOwned
    <2>7. ASSUME NEW r \in Roots, NEW q \in Roots, r # q
          PROVE  Reach(code, {r}, {}) \cap Reach(code, {q}, {}) = {}
        BY <2>6, <2>7
    <2>8. 0 \in Roots
        BY DEF Roots
    <2>9. ASSUME NEW b \in Reach(code, {0}, {})
          PROVE  Exit(code[b]) # "RETURN"
        <3>1. b \in Blocks /\ own[b] = 0
            BY <2>6, <2>8
        <3>. QED
            BY <1>1, <2>2, <3>1, EndsClean DEF OwnCode
    <2>10. e \in Reach(code, {0}, {})
        BY <1>1, <2>3, <2>4, ReachGoes
    <2>11. \A b \in Blocks : Exit(code[b]) = "END" <=> b = e
        BY <1>1, <2>3, EndsClean
    <2>12. {b \in Reach(code, {0}, {}) : Exit(code[b]) = "END"} = {e}
        BY <2>6, <2>8, <2>10, <2>11
    <2>13. Cardinality({b \in Reach(code, {0}, {}) : Exit(code[b]) = "END"}) = 1
        BY <2>12, FS_Singleton
    <2>14. ASSUME NEW r \in Bodies(code), NEW b \in Reach(code, {r}, {})
           PROVE  Exit(code[b]) # "END"
        <3>1. r \in Roots /\ r # 0
            BY <2>5 DEF Roots
        <3>2. b \in Blocks /\ own[b] = r /\ own[e] = 0
            BY <2>6, <2>8, <2>10, <3>1
        <3>. QED
            BY <2>11, <3>1, <3>2
    <2>. QED
        BY <2>7, <2>9, <2>13, <2>14
<1>2. IInv /\ CleanInv /\ ControlInv => ControlComplete
    BY <1>1 DEF ControlComplete
<1>. QED
    BY <1>2, Invariance, CleanAlways, ControlAlways, PTL

-----------------------------------------------------------------------------
(* What the generator reads. *)

\* v is the result of an instruction with an id below n that defines a value.
Value(v, n) ==
    \E c \in Blocks : \E j \in DOMAIN code[c] :
        code[c][j].id = v /\ v < n /\ code[c][j].op \in Defining

\* The positions of the arguments whose results the item is still to read.
Reads(i) ==
    IF State(i) = 0 \/ (Kind(i) = "WHILE" /\ State(i) = 2) THEN {}
    ELSE IF State(i) = 2 THEN DOMAIN ast[Node(i)].kids
    ELSE IF Kind(i) \in {"AND", "OR", "IF", "WHILE"} THEN {1}
    ELSE IF Kind(i) = "ASSIGN" THEN {2}
    ELSE DOMAIN ast[Node(i)].kids

\* The node has its value, or will have it when the item i is on the top.
Computed(n, i) ==
    \/ Value(result[n], nextValue)
    \/ \E j \in DOMAIN worklist : j > i /\ Node(j) = n

\* The item will find what it reads; a WHILE has its value from the start.
Supplied(i) ==
    /\ \A k \in Reads(i) : Computed(Kid(Node(i), k), i)
    /\ Kind(i) = "WHILE" /\ State(i) # 0 => Value(result[Node(i)], nextValue)

\* What a walk gives to a PHI or to a RETURN is a value.
Carried(w) ==
    /\ walk[w].do = "phi" =>
          Value(walk[w].value, code[walk[w].jump][walk[w].at].id)
    /\ walk[w].do = "return" => Value(walk[w].value, nextValue)

ValueInv ==
    /\ \A i \in DOMAIN worklist : Supplied(i)
    /\ \A w \in DOMAIN walk : Carried(w)
    /\ OperandsDefined

-----------------------------------------------------------------------------
(* Values stay values. *)

\* The code and the ids only grow.
Grows ==
    /\ nextValue' >= nextValue
    /\ \A c \in Blocks : c \in Blocks' /\ \A j \in DOMAIN code[c] :
          /\ j \in DOMAIN code'[c]
          /\ code'[c][j].id = code[c][j].id
          /\ code'[c][j].op = code[c][j].op

\* The ids and operands of instructions are numbers.
LEMMA InstructionTyped ==
    ASSUME CodeInv, NEW b \in Blocks, NEW i \in DOMAIN code[b]
    PROVE  /\ code[b][i].id \in Nat /\ code[b][i].id < nextValue
           /\ code[b][i].args \in Seq(Int)
           /\ nextValue \in Nat
<1>1. code[b][i] \in Instruction(Blocks)
    BY BlockIsSeq DEF ReadyInstructions
<1>2. code[b][i].id \in Nat /\ code[b][i].args \in Seq(Int)
    BY <1>1 DEF Instruction
<1>. QED
    BY <1>2 DEF CodeInv, UniqueIds

\* A value is one for every later instruction, after every step.
LEMMA ValueStays ==
    ASSUME CodeInv, Grows, NEW v, NEW n \in Nat, Value(v, n)
    PROVE  \A m \in Nat : m >= n => Value(v, m)'
<1>1. PICK c \in Blocks : \E j \in DOMAIN code[c] :
         code[c][j].id = v /\ v < n /\ code[c][j].op \in Defining
    BY DEF Value
<1>2. PICK j \in DOMAIN code[c] :
         code[c][j].id = v /\ v < n /\ code[c][j].op \in Defining
    BY <1>1
<1>3. v \in Nat
    BY <1>2, InstructionTyped
<1>4. /\ c \in Blocks' /\ j \in DOMAIN code'[c]
      /\ code'[c][j].id = v /\ code'[c][j].op \in Defining
    BY <1>2 DEF Grows
<1>. SUFFICES ASSUME NEW m \in Nat, m >= n PROVE Value(v, m)'
    OBVIOUS
<1>5. v < m
    BY <1>2, <1>3
<1>. QED
    BY <1>4, <1>5 DEF Value

\* What is a value now is one after the step.
LEMMA ValueNow ==
    ASSUME IInv, IInv', Grows, NEW v, Value(v, nextValue)
    PROVE  Value(v, nextValue)'
<1>1. nextValue \in Nat /\ nextValue' \in Nat /\ nextValue' >= nextValue
    BY DEF IInv, CodeInv, Grows
<1>2. PICK m : m = nextValue'
    OBVIOUS
<1>3. Value(v, m)'
    BY <1>1, <1>2, ValueStays DEF IInv
<1>. QED
    BY <1>2, <1>3 DEF Value

\* So is what an instruction that stays defines or reads.
LEMMA ValueThere ==
    ASSUME IInv, Grows, NEW b \in Blocks, NEW i \in DOMAIN code[b], NEW v,
           Value(v, code[b][i].id)
    PROVE  Value(v, code[b][i].id)'
<1>1. PICK m : m = code[b][i].id
    OBVIOUS
<1>2. m \in Nat /\ code'[b][i].id = m
    BY <1>1, InstructionTyped DEF IInv, Grows
<1>3. Value(v, m)'
    BY <1>1, <1>2, ValueStays DEF IInv
<1>. QED
    BY <1>2, <1>3 DEF Value

\* Instructions that are added leave the others alone.
LEMMA WroteGrows ==
    ASSUME IInv, IInv', NEW b, NEW s, Wrote(b, s), nextValue' >= nextValue
    PROVE  /\ Grows
           /\ \A c \in Blocks : \A j \in DOMAIN code[c] :
                 j \in DOMAIN code'[c] /\ code'[c][j] = code[c][j]
<1>1. ASSUME NEW c \in Blocks, NEW j \in DOMAIN code[c]
      PROVE  j \in DOMAIN code'[c] /\ code'[c][j] = code[c][j]
    <2>1. CASE c # b
        BY <2>1 DEF Wrote
    <2>2. CASE c = b
        <3>1. DOMAIN code[c] = 1..OldLen(b)
            BY <2>2, BlockIsSeq DEF IInv, OldLen
        <3>2. j \in DOMAIN code'[c]
            BY DEF Wrote, Stays
        <3>. QED
            BY <2>2, <3>1, <3>2 DEF Wrote
    <2>. QED
        BY <2>1, <2>2
<1>2. Blocks \subseteq Blocks'
    BY DEF Wrote, Stays
<1>. QED
    BY <1>1, <1>2 DEF Grows

\* The instructions s read only values.
Fed(s) ==
    \A x \in 1..Len(s) : s[x].id >= nextValue
        /\ \A k \in DOMAIN s[x].args : Value(s[x].args[k], nextValue)

\* Then so does the code after they are added.
LEMMA WroteOperands ==
    ASSUME IInv, IInv', OperandsDefined, NEW b, NEW s, Len(s) \in Nat, OldLen(b) \in Nat,
           Wrote(b, s), Fed(s), nextValue' >= nextValue
    PROVE  OperandsDefined'
<1>1. /\ Grows
      /\ \A c \in Blocks : \A j \in DOMAIN code[c] : code'[c][j] = code[c][j]
    BY WroteGrows
<1>2. SUFFICES ASSUME NEW c \in Blocks', NEW i \in DOMAIN code'[c],
                      NEW k \in DOMAIN code'[c][i].args
               PROVE  Value(code[c][i].args[k], code[c][i].id)'
    BY DEF OperandsDefined, Value
<1>3. PICK v : v = code'[c][i].args[k]
    OBVIOUS
<1>4. PICK m : m = code'[c][i].id
    OBVIOUS
<1>5. m \in Nat /\ nextValue \in Nat
    <2>1. CodeInv' /\ CodeInv
        BY DEF IInv
    <2>2. code'[c] \in Seq(ReadyInstructions(Blocks'))
        BY <2>1 DEF CodeInv
    <2>3. code'[c][i] \in ReadyInstructions(Blocks')
        BY <2>2, ElementOfSeq, LenProperties
    <2>4. code'[c][i] \in Instruction(Blocks')
        BY <2>3 DEF ReadyInstructions
    <2>. QED
        BY <1>4, <2>1, <2>4 DEF Instruction, CodeInv
<1>6. CASE c \in Blocks /\ i \in DOMAIN code[c]
    <2>1. code'[c][i] = code[c][i]
        BY <1>1, <1>6
    <2>2. Value(v, m)
        BY <1>3, <1>4, <1>6, <2>1 DEF OperandsDefined, Value
    <2>3. Value(v, m)'
        BY <1>1, <1>5, <2>2, ValueStays DEF IInv
    <2>. QED
        BY <1>3, <1>4, <2>3 DEF Value
<1>7. CASE ~(c \in Blocks /\ i \in DOMAIN code[c])
    <2>1. c = b
        <3>1. CASE c \in Blocks
            BY <1>7, <3>1 DEF Wrote
        <3>2. CASE c \notin Blocks
            <4>1. c # b => code'[c] = <<>>
                BY <3>2 DEF Wrote, New
            <4>. QED
                BY <4>1
        <3>. QED
            BY <3>1, <3>2
    <2>2. i \in 1..(OldLen(b) + Len(s))
        BY <2>1 DEF Wrote
    <2>3. ~(i <= OldLen(b))
        <3>1. CASE c \in Blocks
            BY <1>7, <2>1, <2>2, <3>1 DEF Wrote
        <3>2. CASE c \notin Blocks
            BY <2>1, <2>2, <3>2 DEF OldLen
        <3>. QED
            BY <3>1, <3>2
    <2>4. PICK x : x = i - OldLen(b)
        OBVIOUS
    <2>5. x \in 1..Len(s) /\ OldLen(b) + x = i
        BY <2>2, <2>3, <2>4
    <2>6. code'[c][i] = s[x]
        BY <2>1, <2>5 DEF Wrote
    <2>7. Value(v, nextValue) /\ m >= nextValue
        BY <1>3, <1>4, <2>5, <2>6 DEF Fed
    <2>8. Value(v, m)'
        BY <1>1, <1>5, <2>7, ValueStays DEF IInv
    <2>. QED
        BY <1>3, <1>4, <2>8 DEF Value
<1>. QED
    BY <1>6, <1>7

\* What is added defines a value.
LEMMA WroteValue ==
    ASSUME IInv', NEW b \in Blocks', NEW s, Wrote(b, s), OldLen(b) \in Nat,
           NEW x \in 1..Len(s), Len(s) \in Nat, s[x].op \in Defining
    PROVE  Value(s[x].id, nextValue)'
<1>1. PICK y : y = OldLen(b) + x
    OBVIOUS
<1>2. y \in DOMAIN code'[b] /\ code'[b][y] = s[x]
    BY <1>1 DEF Wrote
<1>3. PICK v : v = code'[b][y].id
    OBVIOUS
<1>4. v < nextValue'
    BY <1>2, <1>3 DEF IInv, CodeInv, UniqueIds
<1>5. Value(v, nextValue)'
    BY <1>2, <1>3, <1>4 DEF Value
<1>. QED
    BY <1>2, <1>3, <1>5 DEF Value

-----------------------------------------------------------------------------
(* One turn of the loop. *)

\* What the popped item reads has been computed.
LEMMA TopReads ==
    ASSUME IInv, ValueInv, worklist # <<>>, NEW k \in Reads(Depth)
    PROVE  Value(KidResult(Top.node, k), nextValue)
<1>1. /\ Depth \in DOMAIN worklist /\ Depth \in Nat /\ DOMAIN worklist = 1..Depth
      /\ Top.node = Node(Depth)
    BY Positions
<1>2. Computed(Kid(Node(Depth), k), Depth)
    BY <1>1 DEF ValueInv, Supplied
<1>3. PICK d : d = Depth
    OBVIOUS
<1>4. ~\E j \in DOMAIN worklist : j > d
    BY <1>1, <1>3
<1>. QED
    BY <1>1, <1>2, <1>3, <1>4 DEF Computed, KidResult

\* A result that was a value is one as long as nobody writes it.
LEMMA ResultStays ==
    ASSUME IInv, IInv', Grows, NEW n, result'[n] = result[n],
           Value(result[n], nextValue)
    PROVE  Value(result[n], nextValue)'
<1>1. PICK v : v = result[n]
    OBVIOUS
<1>2. Value(v, nextValue)'
    BY <1>1, ValueNow
<1>. QED
    BY <1>1, <1>2 DEF Value

\* The items below the popped one, for node m at d, stay; m has a value when
\* the item is not put back.
Resumed(m, d) ==
    /\ worklist # <<>> /\ m = Top.node /\ d = Depth
    /\ ast' = ast
    /\ Grows
    /\ Len(worklist') >= d - 1
    /\ \A i \in 1..(d - 1) : worklist'[i] = worklist[i]
    /\ \A n \in Nodes : n # m => result'[n] = result[n]
    /\ \/ Value(result[m], nextValue)'
       \/ /\ result'[m] = result[m]
          /\ d \in DOMAIN worklist' /\ worklist'[d].node = m

\* What was to be computed before a step still is.
LEMMA ComputedStays ==
    ASSUME IInv, IInv', NEW m, NEW d, Resumed(m, d), NEW n \in Nodes,
           NEW i \in 1..(d - 1), Computed(n, i)
    PROVE  Computed(n, i)'
<1>1. /\ d \in Nat /\ DOMAIN worklist = 1..d /\ worklist[d].node = m
    BY Positions DEF Resumed, Node
<1>2. Len(worklist') \in Nat /\ DOMAIN worklist' = 1..Len(worklist')
    BY PositionsNext
<1>3. CASE Value(result[n], nextValue)
    <2>1. CASE result'[n] = result[n]
        <3>1. Value(result[n], nextValue)'
            BY <1>3, <2>1, ResultStays DEF Resumed
        <3>. QED
            BY <3>1 DEF Computed
    <2>2. CASE result'[n] # result[n]
        <3>1. n = m /\ Value(result[m], nextValue)'
            BY <2>2 DEF Resumed
        <3>. QED
            BY <3>1 DEF Computed
    <2>. QED
        BY <2>1, <2>2
<1>4. CASE \E j \in DOMAIN worklist : j > i /\ Node(j) = n
    <2>1. PICK j \in DOMAIN worklist : j > i /\ worklist[j].node = n
        BY <1>4 DEF Node
    <2>2. CASE j # d
        <3>1. j \in 1..(d - 1) /\ j \in DOMAIN worklist'
            BY <1>1, <1>2, <2>1, <2>2 DEF Resumed
        <3>2. Node(j)' = n
            BY <2>1, <3>1 DEF Resumed, Node
        <3>. QED
            BY <2>1, <3>1, <3>2 DEF Computed
    <2>3. CASE j = d
        <3>1. n = m
            BY <1>1, <2>1, <2>3
        <3>2. CASE Value(result[m], nextValue)'
            BY <3>1, <3>2 DEF Computed
        <3>3. CASE d \in DOMAIN worklist' /\ worklist'[d].node = m
            <4>1. Node(d)' = n
                BY <3>1, <3>3 DEF Node
            <4>. QED
                BY <2>1, <2>3, <3>3, <4>1 DEF Computed
        <3>. QED
            BY <3>2, <3>3 DEF Resumed
    <2>. QED
        BY <2>2, <2>3
<1>. QED
    BY <1>3, <1>4 DEF Computed

\* The arguments that an item reads are nodes, later than its own.
LEMMA ReadsTyped ==
    ASSUME IInv, NEW i \in DOMAIN worklist, NEW k \in Reads(i)
    PROVE  /\ Kid(Node(i), k) \in Nodes /\ Kid(Node(i), k) # Node(i)
           /\ k \in DOMAIN ast[Node(i)].kids
<1>1. Node(i) \in Nodes /\ State(i) \in 0..2 /\ ItemReady(worklist[i])
    BY ItemTyped
<1>2. ast[Node(i)].kids \in [1..Arity(ast[Node(i)].kind) -> Nodes]
    BY <1>1 DEF IInv, TreeInv, WellFormedTree, Nodes
<1>3. DOMAIN ast[Node(i)].kids = 1..Arity(ast[Node(i)].kind)
    BY <1>2
<1>4. /\ Arity("AND") = 2 /\ Arity("OR") = 2 /\ Arity("WHILE") = 2
      /\ Arity("ASSIGN") = 2 /\ Arity("IF") = 3
    BY Arities DEF UnaryKinds, BinaryKinds, TernaryKinds
<1>5. Kind(i) = ast[Node(i)].kind
    BY DEF Kind, Node
<1>6. k \in DOMAIN ast[Node(i)].kids
    <2>1. CASE Reads(i) = DOMAIN ast[Node(i)].kids
        BY <2>1
    <2>2. CASE Kind(i) \in {"AND", "OR", "IF", "WHILE"} /\ Reads(i) = {1}
        BY <1>3, <1>4, <1>5, <2>2
    <2>3. CASE Kind(i) = "ASSIGN" /\ Reads(i) = {2}
        BY <1>3, <1>4, <1>5, <2>3
    <2>. QED
        BY <2>1, <2>2, <2>3 DEF Reads
<1>7. Kid(Node(i), k) \in Nodes /\ Kid(Node(i), k) > Node(i) /\ Node(i) \in Nat
    BY <1>1, <1>6, NodesAreNumbers DEF IInv
<1>8. Kid(Node(i), k) \in Nat
    BY <1>7, NodesAreNumbers DEF IInv
<1>. QED
    BY <1>6, <1>7, <1>8

\* The items below find what they read.
LEMMA BelowSupplied ==
    ASSUME IInv, IInv', ValueInv, NEW m, NEW d, Resumed(m, d), NEW i \in 1..(d - 1)
    PROVE  Supplied(i)'
<1>1. d \in Nat /\ DOMAIN worklist = 1..d
    BY Positions DEF Resumed
<1>2. i \in DOMAIN worklist /\ Supplied(i)
    BY <1>1 DEF ValueInv
<1>3. /\ worklist'[i] = worklist[i] /\ ast' = ast
      /\ Node(i)' = Node(i) /\ State(i)' = State(i) /\ Kind(i)' = Kind(i)
      /\ Reads(i)' = Reads(i)
    BY DEF Resumed, Node, State, Kind, Reads
<1>4. ASSUME NEW k \in Reads(i)
      PROVE  Computed(Kid(Node(i), k), i)'
    <2>1. PICK n : n = Kid(Node(i), k)
        OBVIOUS
    <2>2. n \in Nodes /\ Computed(n, i)
        BY <1>2, <1>4, <2>1, ReadsTyped DEF Supplied
    <2>3. Computed(n, i)'
        BY <2>2, ComputedStays
    <2>4. Kid(Node(i), k)' = n
        BY <1>3, <2>1 DEF Kid
    <2>. QED
        BY <2>3, <2>4 DEF Computed
<1>5. ASSUME Kind(i) = "WHILE", State(i) # 0
      PROVE  Value(result[Node(i)], nextValue)'
    <2>1. PICK n : n = Node(i)
        OBVIOUS
    <2>2. n \in Nodes /\ Value(result[n], nextValue) /\ Node(i)' = n
        BY <1>2, <1>3, <1>5, <2>1, ItemTyped DEF Supplied
    <2>3. Value(result[n], nextValue)'
        <3>1. CASE result'[n] = result[n]
            BY <2>2, <3>1, ResultStays DEF Resumed
        <3>2. CASE result'[n] # result[n]
            BY <2>2, <3>2 DEF Resumed
        <3>. QED
            BY <3>1, <3>2
    <2>. QED
        BY <2>2, <2>3 DEF Value
<1>. QED
    BY <1>3, <1>4, <1>5 DEF Supplied

\* An item that has not begun reads nothing yet.
LEMMA IdleSupplied ==
    ASSUME NEW i, State(i)' = 0
    PROVE  Supplied(i)'
BY DEF Supplied, Reads

\* A turn keeps the invariant, when what it puts back and walks on does.
LEMMA TurnValues ==
    ASSUME IInv, IInv', ValueInv, NEW m, NEW d, Resumed(m, d), OperandsDefined',
           \A i \in DOMAIN worklist' : i >= d => Supplied(i)',
           \A w \in DOMAIN walk' : Carried(w)'
    PROVE  ValueInv'
<1>1. d \in Nat
    BY Positions DEF Resumed
<1>2. Len(worklist') \in Nat /\ DOMAIN worklist' = 1..Len(worklist')
    BY PositionsNext
<1>3. ASSUME NEW i \in DOMAIN worklist', ~(i >= d)
      PROVE  Supplied(i)'
    <2>1. i \in 1..(d - 1)
        BY <1>1, <1>2, <1>3
    <2>. QED
        BY <2>1, BelowSupplied
<1>. QED
    BY <1>3 DEF ValueInv

-----------------------------------------------------------------------------
(* The steps that pop an item for good. *)

\* An item that is done has a value.
LEMMA PopValues ==
    ASSUME IInv, IInv', ValueInv, worklist # <<>>, worklist' = Rest, ast' = ast,
           Grows, OperandsDefined', NEW v, Value(v, nextValue)',
           result' = [result EXCEPT ![Top.node] = v],
           \A w \in DOMAIN walk' : Carried(w)'
    PROVE  ValueInv'
<1>1. PICK d : d = Depth
    OBVIOUS
<1>2. PICK m : m = Top.node
    OBVIOUS
<1>3. m \in Nodes /\ d \in Nat
    BY <1>1, <1>2, TopAndRest, Positions
<1>4. /\ Len(worklist') = d - 1 /\ DOMAIN worklist' = 1..(d - 1)
      /\ \A i \in 1..(d - 1) : worklist'[i] = worklist[i]
    BY <1>1, Popped
<1>5. result'[m] = v /\ \A n \in Nodes : n # m => result'[n] = result[n]
    BY <1>2, <1>3 DEF IInv, TablesOK
<1>6. Value(result[m], nextValue)'
    BY <1>5 DEF Value
<1>7. Resumed(m, d)
    <2>1. Len(worklist') >= d - 1
        BY <1>3, <1>4
    <2>. QED
        BY <1>1, <1>2, <1>4, <1>5, <1>6, <2>1 DEF Resumed
<1>8. \A i \in DOMAIN worklist' : ~(i >= d)
    BY <1>3, <1>4
<1>. QED
    BY <1>7, <1>8, TurnValues

\* One instruction that reads values and defines the next one.
Proper(ins) ==
    /\ ins.id = nextValue
    /\ \A k \in DOMAIN ins.args : Value(ins.args[k], nextValue)

\* It is fed.
LEMMA FedByOne ==
    ASSUME IInv, NEW ins, Proper(ins)
    PROVE  Fed(<<ins>>) /\ Len(<<ins>>) = 1 /\ Len(<<ins>>) \in Nat
<1>1. nextValue \in Nat
    BY DEF IInv, CodeInv
<1>. QED
    BY <1>1 DEF Proper, Fed

\* The code after it is emitted, behind k new blocks.
LEMMA EmitValues ==
    ASSUME IInv, IInv', ValueInv, NEW k \in Nat, NEW b \in 0..(NextBlock + k - 1),
           NEW ins, Emit(Grown(code, k), b, ins), Proper(ins)
    PROVE  /\ Grows
           /\ OperandsDefined'
           /\ b \in Blocks' /\ Wrote(b, <<ins>>) /\ OldLen(b) \in Nat
           /\ ins.op \in Defining => \A v : v = nextValue => Value(v, nextValue)'
<1>1. /\ Blocks' = 0..(NextBlock + k - 1)
      /\ OldLen(b) \in Nat
      /\ Wrote(b, <<ins>>)
    BY EmitWrites DEF IInv
<1>2. nextValue \in Nat /\ nextValue' \in Nat /\ nextValue' >= nextValue
    BY DEF IInv, CodeInv, Emit
<1>3. Fed(<<ins>>) /\ Len(<<ins>>) = 1
    BY FedByOne
<1>. DEFINE s == <<ins>>
<1>4. Wrote(b, s) /\ Fed(s) /\ Len(s) \in Nat /\ 1 \in 1..Len(s) /\ s[1] = ins
    BY <1>1, <1>3
<1>. HIDE DEF s
<1>5. Grows
    BY <1>2, <1>4, WroteGrows
<1>6. OperandsDefined'
    BY <1>1, <1>2, <1>4, WroteOperands DEF ValueInv
<1>7. ASSUME ins.op \in Defining, NEW v, v = nextValue
      PROVE  Value(v, nextValue)'
    <2>1. PICK y : y = OldLen(b) + 1
        OBVIOUS
    <2>2. y \in DOMAIN code'[b] /\ code'[b][y] = ins
        BY <1>1, <1>4, <2>1 DEF Wrote
    <2>3. code'[b][y].id = v /\ v < nextValue'
        BY <1>2, <1>7, <2>2 DEF Proper, Emit
    <2>. QED
        BY <1>1, <1>7, <2>2, <2>3 DEF Value
<1>. QED
    BY <1>1, <1>5, <1>6, <1>7

\* The same without a new block.
LEMMA EmitValuesHere ==
    ASSUME IInv, IInv', ValueInv, NEW b \in Blocks,
           NEW ins, Emit(code, b, ins), Proper(ins)
    PROVE  /\ Grows
           /\ OperandsDefined'
           /\ b \in Blocks' /\ Wrote(b, <<ins>>) /\ OldLen(b) \in Nat
           /\ ins.op \in Defining => \A v : v = nextValue => Value(v, nextValue)'
<1>1. NextBlock \in Nat /\ Blocks = 0..(NextBlock - 1) /\ NextBlock + 0 - 1 = NextBlock - 1
    BY DEF IInv, CodeInv
<1>2. Grown(code, 0) = code
    BY <1>1, GrownByNone DEF IInv, CodeInv
<1>3. 0 \in Nat /\ b \in 0..(NextBlock + 0 - 1) /\ Emit(Grown(code, 0), b, ins)
    BY <1>1, <1>2
<1>. QED
    BY <1>3, EmitValues

\* One instruction, and the item has a value, the new one or another.
LEMMA SimplePopValues ==
    ASSUME IInv, IInv', ValueInv, worklist # <<>>, walk = <<>>, walk' = walk,
           worklist' = Rest, ast' = ast, NEW ins, Emit(code, Top.block, ins),
           Proper(ins), NEW v, SetResult(Top.node, v),
           (ins.op \in Defining /\ v = nextValue) \/ Value(v, nextValue)
    PROVE  ValueInv'
<1>1. Top.block \in Blocks
    BY TopAndRest
<1>2. /\ Grows /\ OperandsDefined'
      /\ ins.op \in Defining => \A x : x = nextValue => Value(x, nextValue)'
    BY <1>1, EmitValuesHere
<1>3. Value(v, nextValue)'
    BY <1>2, ValueNow
<1>4. DOMAIN walk' = {}
    OBVIOUS
<1>. QED
    BY <1>2, <1>3, <1>4, PopValues DEF SetResult

\* The operations of the leaves and of the operators define values.
LEMMA OpsDefine ==
    /\ \A k \in LiteralKinds : LiteralOp[k] \in Defining
    /\ \A k \in NullaryKinds : k \in Defining
    /\ \A k \in (UnaryKinds \ {"BLOCK", "CALL", "DUMP"}) \cup {"GET", "SET"} \cup
               (BinaryKinds \ {"AND", "OR", "EXPR", "ASSIGN", "WHILE"}) :
          OperatorOp[k] \in Defining
    /\ {"LOAD", "BLOCK", "CALL", "PHI", "CONST_NULL"} \subseteq Defining
BY DEF LiteralKinds, LiteralOp, NullaryKinds, UnaryKinds, BinaryKinds,
       OperatorOp, Leaving, Defining, Ops, ConstOps, UnaryOps, BinaryOps

\* In state 1 an item reads the arguments that it had scheduled.
LEMMA ReadsOnce ==
    ASSUME IInv, worklist # <<>>, Top.state = 1
    PROVE  /\ ast[Top.node].kind \in {"AND", "OR", "IF", "WHILE"} => Reads(Depth) = {1}
           /\ ast[Top.node].kind = "ASSIGN" => Reads(Depth) = {2}
           /\ ast[Top.node].kind \notin {"AND", "OR", "IF", "WHILE", "ASSIGN"} =>
                 Reads(Depth) = DOMAIN ast[Top.node].kids
BY Positions DEF Reads, Node, State, Kind

\* So the operands of an operator are values.
LEMMA OperandsReady ==
    ASSUME IInv, ValueInv, worklist # <<>>, Top.state = 1,
           ast[Top.node].kind \notin {"AND", "OR", "IF", "WHILE", "ASSIGN"}
    PROVE  /\ \A k \in DOMAIN ast[Top.node].kids : Value(KidResult(Top.node, k), nextValue)
           /\ \A k \in DOMAIN KidResults(Top.node) :
                 Value(KidResults(Top.node)[k], nextValue)
<1>1. \A k \in DOMAIN ast[Top.node].kids : Value(KidResult(Top.node, k), nextValue)
    BY ReadsOnce, TopReads
<1>. QED
    BY <1>1 DEF KidResults

\* The steps that emit one instruction for a node that opens no blocks.
LEMMA SimplePopsValues ==
    ASSUME IInv, IInv', ValueInv,
           \/ GenLiteral \/ GenIdentifier \/ GenNullary \/ GenUnary \/ GenBinary
           \/ GenSlice \/ GenDump \/ GenAssign
    PROVE  ValueInv'
<1>0. PICK new : new = nextValue
    OBVIOUS
<1>1. CASE GenLiteral
    <2>. DEFINE ins == Const(LiteralOp[ast[Top.node].kind], nextValue, ast[Top.node].lit)
    <2>1. ins.op = LiteralOp[ast[Top.node].kind] /\ ins.id = nextValue /\ ins.args = <<>>
        BY DEF Const, Instr
    <2>2. /\ worklist # <<>> /\ walk = <<>> /\ worklist' = Rest /\ ast' = ast /\ walk' = walk
          /\ ast[Top.node].kind \in LiteralKinds
          /\ Emit(code, Top.block, ins) /\ SetResult(Top.node, new)
        BY <1>0, <1>1 DEF GenLiteral, Turn
    <2>. HIDE DEF ins
    <2>3. ins.op \in Defining /\ Proper(ins)
        BY <2>1, <2>2, OpsDefine DEF Proper
    <2>. QED
        BY <1>0, <2>2, <2>3, SimplePopValues
<1>2. CASE GenIdentifier
    <2>. DEFINE ins == Load(nextValue, VarOf(ast[Top.node].name))
    <2>1. ins.op \in Defining /\ ins.id = nextValue /\ ins.args = <<>>
        BY OpsDefine DEF Load, Instr
    <2>2. /\ worklist # <<>> /\ walk = <<>> /\ worklist' = Rest /\ ast' = ast /\ walk' = walk
          /\ Emit(code, Top.block, ins) /\ SetResult(Top.node, new)
        BY <1>0, <1>2 DEF GenIdentifier, Turn
    <2>. HIDE DEF ins
    <2>3. Proper(ins)
        BY <2>1 DEF Proper
    <2>. QED
        BY <1>0, <2>1, <2>2, <2>3, SimplePopValues
<1>3. CASE GenNullary
    <2>. DEFINE ins == Instr(ast[Top.node].kind, nextValue, <<>>, <<>>)
    <2>1. ins.op = ast[Top.node].kind /\ ins.id = nextValue /\ ins.args = <<>>
        BY DEF Instr
    <2>2. /\ worklist # <<>> /\ walk = <<>> /\ worklist' = Rest /\ ast' = ast /\ walk' = walk
          /\ ast[Top.node].kind \in NullaryKinds
          /\ Emit(code, Top.block, ins) /\ SetResult(Top.node, new)
        BY <1>0, <1>3 DEF GenNullary, Turn
    <2>. HIDE DEF ins
    <2>3. ins.op \in Defining /\ Proper(ins)
        BY <2>1, <2>2, OpsDefine DEF Proper
    <2>. QED
        BY <1>0, <2>2, <2>3, SimplePopValues
<1>4. CASE GenUnary \/ GenBinary \/ GenSlice
    <2>. DEFINE ins == Instr(OperatorOp[ast[Top.node].kind], nextValue,
                             KidResults(Top.node), <<>>)
                ks == (UnaryKinds \ {"BLOCK", "CALL", "DUMP"}) \cup {"GET", "SET"} \cup
                      (BinaryKinds \ {"AND", "OR", "EXPR", "ASSIGN", "WHILE"})
    <2>1. /\ ins.op = OperatorOp[ast[Top.node].kind] /\ ins.id = nextValue
          /\ ins.args = KidResults(Top.node)
        BY DEF Instr
    <2>2. /\ worklist # <<>> /\ walk = <<>> /\ worklist' = Rest /\ ast' = ast /\ walk' = walk
          /\ ast[Top.node].kind \in ks /\ Top.state = 1
          /\ Emit(code, Top.block, ins) /\ SetResult(Top.node, new)
        BY <1>0, <1>4 DEF GenUnary, GenBinary, GenSlice, Operator, Turn
    <2>3. \A k \in ks : k \notin {"AND", "OR", "IF", "WHILE", "ASSIGN"}
        BY DEF UnaryKinds, BinaryKinds
    <2>4. ins.op \in Defining
        BY <2>1, <2>2, OpsDefine
    <2>. HIDE DEF ins, ks
    <2>5. Proper(ins)
        BY <2>1, <2>2, <2>3, OperandsReady DEF Proper
    <2>. QED
        BY <1>0, <2>2, <2>4, <2>5, SimplePopValues
<1>5. CASE GenDump
    <2>. DEFINE ins == Instr("DUMP", nextValue, KidResults(Top.node), <<>>)
    <2>1. ins.id = nextValue /\ ins.args = KidResults(Top.node)
        BY DEF Instr
    <2>2. PICK v : v = KidResult(Top.node, 1)
        OBVIOUS
    <2>3. /\ worklist # <<>> /\ walk = <<>> /\ worklist' = Rest /\ ast' = ast /\ walk' = walk
          /\ ast[Top.node].kind = "DUMP" /\ Top.state = 1
          /\ Emit(code, Top.block, ins) /\ SetResult(Top.node, v)
        BY <1>5, <2>2 DEF GenDump, Turn
    <2>. HIDE DEF ins
    <2>4. Proper(ins)
        BY <2>1, <2>3, OperandsReady DEF Proper
    <2>5. 1 \in DOMAIN ast[Top.node].kids
        <3>1. Top.node \in Nodes
            BY <2>3, TopAndRest
        <3>2. ast[Top.node].kids \in [1..Arity(ast[Top.node].kind) -> Nodes]
            BY <3>1 DEF IInv, TreeInv, WellFormedTree, Nodes
        <3>3. Arity("DUMP") = 1
            BY Arities DEF UnaryKinds
        <3>. QED
            BY <2>3, <3>2, <3>3
    <2>6. Value(v, nextValue)
        BY <2>2, <2>3, <2>5, OperandsReady
    <2>. QED
        BY <2>3, <2>4, <2>6, SimplePopValues
<1>6. CASE GenAssign
    <2>. DEFINE name == ast[Kid(Top.node, 1)].name
                ins == Store(nextValue, VarOf(name), KidResult(Top.node, 2))
    <2>1. PICK v : v = KidResult(Top.node, 2)
        OBVIOUS
    <2>2. ins.id = nextValue /\ ins.args = <<v>>
        BY <2>1 DEF Store, Instr
    <2>3. /\ worklist # <<>> /\ walk = <<>> /\ worklist' = Rest /\ ast' = ast /\ walk' = walk
          /\ ast[Top.node].kind = "ASSIGN" /\ Top.state = 1
          /\ Emit(code, Top.block, ins) /\ SetResult(Top.node, v)
        BY <1>6, <2>1 DEF GenAssign, Turn
    <2>. HIDE DEF ins
    <2>4. Value(v, nextValue)
        BY <2>1, <2>3, ReadsOnce, TopReads
    <2>5. Proper(ins)
        BY <2>2, <2>4 DEF Proper
    <2>. QED
        BY <2>3, <2>4, <2>5, SimplePopValues
<1>. QED
    BY <1>1, <1>2, <1>3, <1>4, <1>5, <1>6

\* When nothing is written, what the code reads is defined as before.
LEMMA SameOperands ==
    ASSUME IInv, IInv', OperandsDefined, UNCHANGED <<code, nextValue>>
    PROVE  Grows /\ OperandsDefined'
<1>1. nextValue \in Nat /\ Blocks' = Blocks
    BY DEF IInv, CodeInv, Blocks
<1>2. Grows
    BY <1>1 DEF Grows
<1>. QED
    BY <1>1, <1>2 DEF OperandsDefined

\* An EXPR stands for its second argument.
LEMMA GenExprValues == IInv /\ IInv' /\ ValueInv /\ GenExpr => ValueInv'
<1>. SUFFICES ASSUME IInv, IInv', ValueInv, GenExpr PROVE ValueInv'
    OBVIOUS
<1>1. PICK v : v = KidResult(Top.node, 2)
    OBVIOUS
<1>2. /\ worklist # <<>> /\ walk = <<>> /\ worklist' = Rest /\ ast' = ast /\ walk' = walk
      /\ ast[Top.node].kind = "EXPR" /\ Top.state = 1
      /\ SetResult(Top.node, v) /\ UNCHANGED <<code, nextValue>>
    BY <1>1 DEF GenExpr, Turn
<1>3. Grows /\ OperandsDefined'
    BY <1>2, SameOperands DEF ValueInv
<1>4. 2 \in DOMAIN ast[Top.node].kids
    <2>1. Top.node \in Nodes
        BY <1>2, TopAndRest
    <2>2. ast[Top.node].kids \in [1..Arity(ast[Top.node].kind) -> Nodes]
        BY <2>1 DEF IInv, TreeInv, WellFormedTree, Nodes
    <2>3. Arity("EXPR") = 2
        BY Arities DEF BinaryKinds
    <2>. QED
        BY <1>2, <2>2, <2>3
<1>5. Value(v, nextValue)'
    <2>1. Value(v, nextValue)
        BY <1>1, <1>2, <1>4, OperandsReady
    <2>. QED
        BY <1>3, <2>1, ValueNow
<1>6. DOMAIN walk' = {}
    BY <1>2
<1>. QED
    BY <1>2, <1>3, <1>5, <1>6, PopValues DEF SetResult

\* The three instructions of a CALL: the middle one is its value.
LEMMA GenCallValues == IInv /\ IInv' /\ ValueInv /\ GenCall => ValueInv'
<1>. SUFFICES ASSUME IInv, IInv', ValueInv, GenCall PROVE ValueInv'
    OBVIOUS
<1>. DEFINE a == Instr("SAVE", nextValue, <<>>, <<>>)
            b == Instr("CALL", nextValue + 1, KidResults(Top.node), <<>>)
            c == Instr("RESTORE", nextValue + 2, <<>>, <<>>)
            is == <<a, b, c>>
<1>1. PICK v : v = nextValue + 1
    OBVIOUS
<1>2. /\ worklist # <<>> /\ walk = <<>> /\ worklist' = Rest /\ ast' = ast /\ walk' = walk
      /\ ast[Top.node].kind = "CALL" /\ Top.state = 1
      /\ SetResult(Top.node, v) /\ nextValue' = nextValue + 3
    BY <1>1 DEF GenCall, Turn
<1>3. Top.block \in Blocks /\ nextValue \in Nat
    BY <1>2, TopAndRest DEF IInv, CodeInv
<1>4. Blocks' = Blocks /\ Wrote(Top.block, is)
    BY CallWrites
<1>5. /\ a.id = nextValue /\ b.id = nextValue + 1 /\ c.id = nextValue + 2
      /\ a.args = <<>> /\ b.args = KidResults(Top.node) /\ c.args = <<>>
      /\ b.op = "CALL"
    BY DEF Instr
<1>. HIDE DEF a, b, c
<1>6. Len(is) = 3 /\ is[1] = a /\ is[2] = b /\ is[3] = c
    OBVIOUS
<1>. HIDE DEF is
<1>7. \A k \in DOMAIN KidResults(Top.node) : Value(KidResults(Top.node)[k], nextValue)
    BY <1>2, OperandsReady
<1>8. Fed(is)
    <2>1. 1..3 = {1, 2, 3}
        OBVIOUS
    <2>2. ASSUME NEW x \in {a, b, c}
          PROVE  x.id >= nextValue /\ \A k \in DOMAIN x.args : Value(x.args[k], nextValue)
        BY <1>3, <1>5, <1>7
    <2>3. \A x \in 1..Len(is) : is[x] \in {a, b, c}
        BY <1>6, <2>1
    <2>. QED
        BY <2>2, <2>3 DEF Fed
<1>9. PICK e : e = Top.block
    OBVIOUS
<1>10. OldLen(e) \in Nat
    BY <1>3, <1>9, BlockIsSeq DEF IInv, OldLen
<1>11. nextValue' >= nextValue
    BY <1>2, <1>3
<1>12. Grows /\ OperandsDefined'
    <2>1. Wrote(e, is) /\ Len(is) \in Nat
        BY <1>4, <1>6, <1>9
    <2>. QED
        BY <1>8, <1>10, <1>11, <2>1, WroteGrows, WroteOperands DEF ValueInv
<1>13. Value(v, nextValue)'
    <2>1. PICK y : y = OldLen(e) + 2
        OBVIOUS
    <2>2. y \in DOMAIN code'[e] /\ code'[e][y] = b
        <3>1. y \in 1..(OldLen(e) + Len(is)) /\ 2 \in 1..Len(is)
            BY <1>6, <1>10, <2>1
        <3>. QED
            BY <1>4, <1>6, <1>9, <2>1, <3>1 DEF Wrote
    <2>3. code'[e][y].id = v /\ v < nextValue' /\ code'[e][y].op \in Defining
        BY <1>1, <1>2, <1>3, <1>5, <2>2, OpsDefine
    <2>4. e \in Blocks'
        BY <1>3, <1>4, <1>9
    <2>. QED
        BY <2>2, <2>3, <2>4 DEF Value
<1>14. DOMAIN walk' = {}
    BY <1>2
<1>. QED
    BY <1>2, <1>12, <1>13, <1>14, PopValues DEF SetResult

-----------------------------------------------------------------------------
(* The steps that put the item back, with the arguments it waits for. *)

Items == [node : Nodes, block : Blocks \cup Blocks', state : 0..2]

\* s takes the place of the item for m: the item, and items that have not
\* begun, among them the nodes ns.
PutBack(m, s, ns) ==
    /\ worklist' = Rest \o s /\ s \in Seq(Items) /\ Len(s) >= 1
    /\ s[1].node = m
    /\ \A x \in 2..Len(s) : s[x].state = 0
    /\ \A n \in ns : \E x \in 2..Len(s) : s[x].node = n

\* What an item reads when it is put back.
LEMMA ReadsNext ==
    ASSUME IInv, IInv', worklist # <<>>, ast' = ast, NEW m, NEW d, d = Depth,
           NEW s, NEW ns, PutBack(m, s, ns)
    PROVE  /\ worklist'[d] = s[1]
           /\ Node(d)' = m /\ Kind(d)' = ast[m].kind /\ State(d)' = s[1].state
           /\ s[1].state = 1 /\ ast[m].kind \in {"AND", "OR", "IF", "WHILE"} =>
                 Reads(d)' = {1}
           /\ s[1].state = 1 /\ ast[m].kind = "ASSIGN" => Reads(d)' = {2}
           /\ s[1].state = 1 /\ ast[m].kind \notin {"AND", "OR", "IF", "WHILE", "ASSIGN"} =>
                 Reads(d)' = DOMAIN ast[m].kids
           /\ s[1].state = 2 /\ ast[m].kind # "WHILE" => Reads(d)' = DOMAIN ast[m].kids
           /\ s[1].state = 2 /\ ast[m].kind = "WHILE" => Reads(d)' = {}
<1>1. worklist'[d] = s[1]
    BY FirstPushed DEF PutBack
<1>2. Node(d)' = m /\ Kind(d)' = ast[m].kind /\ State(d)' = s[1].state
    BY <1>1 DEF PutBack, Node, Kind, State
<1>3. DOMAIN ast'[Node(d)'].kids = DOMAIN ast[m].kids
    BY <1>2
<1>. QED
    BY <1>1, <1>2, <1>3 DEF Reads

\* An item that is put back and waits for what it is to read.
LEMMA PushValues ==
    ASSUME IInv, IInv', ValueInv, worklist # <<>>, ast' = ast,
           NEW m, m = Top.node, NEW d, d = Depth, NEW s, NEW ns, PutBack(m, s, ns),
           Grows, OperandsDefined', DOMAIN walk' = {},
           \A n \in Nodes : n # m => result'[n] = result[n],
           result'[m] = result[m] \/ Value(result[m], nextValue)',
           ast[m].kind = "WHILE" => Value(result[m], nextValue)',
           \A k \in Reads(d)' :
              \/ k \in DOMAIN ast[m].kids /\ Value(KidResult(m, k), nextValue)
              \/ Kid(m, k) \in ns
    PROVE  ValueInv'
<1>1. /\ Len(s) \in Nat /\ d \in Nat /\ d >= 1 /\ s \in Seq(Items)
      /\ DOMAIN worklist' = 1..(d - 1 + Len(s))
      /\ Len(worklist') = d - 1 + Len(s)
      /\ \A i \in 1..(d - 1) : worklist'[i] = worklist[i]
      /\ \A j \in 1..Len(s) : worklist'[d - 1 + j] = s[j]
    BY Pushed, Positions DEF PutBack
<1>2. /\ worklist'[d] = s[1] /\ Node(d)' = m /\ Kind(d)' = ast[m].kind
      /\ Len(s) >= 1
    <2>1. worklist'[d] = s[1] /\ Node(d)' = m /\ Kind(d)' = ast[m].kind
        BY ReadsNext
    <2>2. Len(s) >= 1
        BY DEF PutBack
    <2>. QED
        BY <2>1, <2>2
<1>3. d \in DOMAIN worklist' /\ worklist'[d].node = m
    BY <1>1, <1>2 DEF PutBack
<1>4. m \in Nodes
    BY TopAndRest
<1>5. Resumed(m, d)
    <2>1. Len(worklist') >= d - 1
        BY <1>1
    <2>. QED
        BY <1>1, <1>3, <2>1 DEF Resumed
<1>6. ASSUME NEW i \in DOMAIN worklist', i > d
      PROVE  Supplied(i)'
    <2>1. PICK x : x = i - (d - 1)
        OBVIOUS
    <2>2. i \in 1..(d - 1 + Len(s))
        BY <1>1
    <2>3. x \in 2..Len(s) /\ x \in 1..Len(s) /\ d - 1 + x = i
        <3>1. Len(s) \in Nat /\ d \in Nat
            BY <1>1
        <3>. QED
            BY <1>6, <2>1, <2>2, <3>1
    <2>4. worklist'[i].state = 0
        BY <1>1, <2>3 DEF PutBack
    <2>. QED
        BY <2>4, IdleSupplied DEF State
<1>7. ASSUME NEW n \in ns
      PROVE  \E j \in DOMAIN worklist' : j > d /\ worklist'[j].node = n
    <2>1. PICK x \in 2..Len(s) : s[x].node = n
        BY DEF PutBack
    <2>2. PICK j : j = d - 1 + x
        OBVIOUS
    <2>3. j \in DOMAIN worklist' /\ j > d /\ x \in 1..Len(s)
        BY <1>1, <2>2
    <2>. QED
        BY <1>1, <2>1, <2>2, <2>3
<1>8. Supplied(d)'
    <2>1. ASSUME NEW k \in Reads(d)'
          PROVE  Computed(Kid(Node(d), k), d)'
        <3>1. PICK n : n = Kid(m, k)
            OBVIOUS
        <3>2. CASE k \in DOMAIN ast[m].kids /\ Value(KidResult(m, k), nextValue)
            <4>1. n \in Nodes /\ n > m /\ Value(result[n], nextValue)
                BY <1>4, <3>1, <3>2, NodesAreNumbers DEF IInv, KidResult
            <4>2. n # m
                BY <1>4, <4>1, NodesAreNumbers DEF IInv
            <4>3. Value(result[n], nextValue)'
                BY <4>1, <4>2, ResultStays
            <4>. QED
                BY <1>2, <3>1, <4>3 DEF Computed, Kid
        <3>3. CASE Kid(m, k) \in ns
            <4>1. PICK j \in DOMAIN worklist' : j > d /\ worklist'[j].node = n
                BY <1>7, <3>1, <3>3
            <4>2. Node(j)' = n
                BY <4>1 DEF Node
            <4>. QED
                BY <1>2, <3>1, <4>1, <4>2 DEF Computed, Kid
        <3>. QED
            BY <3>2, <3>3
    <2>2. Kind(d)' = "WHILE" => Value(result[Node(d)], nextValue)'
        BY <1>2 DEF Value
    <2>. QED
        BY <2>1, <2>2 DEF Supplied
<1>9. \A i \in DOMAIN worklist' : i >= d => i > d \/ i = d
    BY <1>1
<1>10. \A i \in DOMAIN worklist' : i >= d => Supplied(i)'
    BY <1>6, <1>8, <1>9
<1>. QED
    BY <1>5, <1>10, TurnValues

\* Two items in the place of one.
LEMMA PutBackTwo ==
    ASSUME NEW m, NEW a \in Items, NEW b \in Items, worklist' = Rest \o <<a, b>>,
           a.node = m, b.state = 0
    PROVE  PutBack(m, <<a, b>>, {b.node})
<1>. DEFINE s == <<a, b>>
<1>1. s \in Seq(Items) /\ Len(s) = 2 /\ s[1] = a /\ s[2] = b
    OBVIOUS
<1>. HIDE DEF s
<1>2. 2..2 = {2}
    OBVIOUS
<1>3. PutBack(m, s, {b.node})
    BY <1>1, <1>2 DEF PutBack, s
<1>. QED
    BY <1>3 DEF s

\* Three items in the place of one.
LEMMA PutBackThree ==
    ASSUME NEW m, NEW a \in Items, NEW b \in Items, NEW c \in Items,
           worklist' = Rest \o <<a, b, c>>, a.node = m, b.state = 0, c.state = 0
    PROVE  PutBack(m, <<a, b, c>>, {b.node, c.node})
<1>. DEFINE s == <<a, b, c>>
<1>1. s \in Seq(Items) /\ Len(s) = 3 /\ s[1] = a /\ s[2] = b /\ s[3] = c
    OBVIOUS
<1>. HIDE DEF s
<1>2. 2..3 = {2, 3}
    OBVIOUS
<1>3. \A x \in 2..Len(s) : s[x].state = 0
    BY <1>1, <1>2
<1>4. \A n \in {b.node, c.node} : \E x \in 2..Len(s) : s[x].node = n
    BY <1>1, <1>2
<1>5. PutBack(m, s, {b.node, c.node})
    <2>1. worklist' = Rest \o s
        BY DEF s
    <2>. QED
        BY <1>1, <1>3, <1>4, <2>1 DEF PutBack
<1>. QED
    BY <1>5 DEF s

\* The items that are put back are typed.
LEMMA ItemsTyped ==
    ASSUME IInv, IInv', worklist # <<>>, NEW b \in Blocks', NEW st \in 0..2
    PROVE  /\ Top.node \in Nodes
           /\ Item(Top.node, Top.block, st) \in Items
           /\ \A k \in DOMAIN ast[Top.node].kids : Item(Kid(Top.node, k), b, st) \in Items
<1>1. Top.node \in Nodes /\ Top.block \in Blocks
    BY TopAndRest
<1>2. \A k \in DOMAIN ast[Top.node].kids : Kid(Top.node, k) \in Nodes
    BY <1>1, NodesAreNumbers DEF IInv
<1>. QED
    BY <1>1, <1>2 DEF Item, Items

\* The kids of the nodes that are put back.
LEMMA WaitingKids ==
    ASSUME IInv, NEW n \in Nodes
    PROVE  /\ ast[n].kind = "BLOCK" => DOMAIN ast[n].kids = {1}
           /\ ast[n].kind \in {"AND", "OR", "WHILE", "ASSIGN"} =>
                 DOMAIN ast[n].kids = {1, 2}
           /\ ast[n].kind = "IF" => DOMAIN ast[n].kids = {1, 2, 3}
<1>1. ast[n].kids \in [1..Arity(ast[n].kind) -> Nodes]
    BY DEF IInv, TreeInv, WellFormedTree, Nodes
<1>2. /\ Arity("BLOCK") = 1 /\ Arity("AND") = 2 /\ Arity("OR") = 2
      /\ Arity("WHILE") = 2 /\ Arity("ASSIGN") = 2 /\ Arity("IF") = 3
    BY Arities DEF UnaryKinds, BinaryKinds, TernaryKinds
<1>3. 1..1 = {1} /\ 1..2 = {1, 2} /\ 1..3 = {1, 2, 3}
    OBVIOUS
<1>. QED
    BY <1>1, <1>2, <1>3

\* An instruction goes where the popped item is, or another one that exists,
\* and the item back.
LEMMA EmitAndPush ==
    ASSUME IInv, IInv', ValueInv, worklist # <<>>, walk' = <<>>, ast' = ast,
           NEW k \in 1..2, NEW b \in Blocks, NEW ins,
           Emit(Grown(code, k), b, ins), Proper(ins), result' = result,
           NEW m, m = Top.node, NEW d, d = Depth, NEW s, NEW ns, PutBack(m, s, ns),
           ast[m].kind = "WHILE" => Value(result[m], nextValue),
           \A x \in Reads(d)' :
              \/ x \in DOMAIN ast[m].kids /\ Value(KidResult(m, x), nextValue)
              \/ Kid(m, x) \in ns
    PROVE  ValueInv'
<1>1. b \in 0..(NextBlock + k - 1) /\ k \in Nat
    BY DEF IInv, CodeInv
<1>2. Grows /\ OperandsDefined'
    BY <1>1, EmitValues
<1>3. ast[m].kind = "WHILE" => Value(result[m], nextValue)'
    BY <1>2, ResultStays
<1>4. DOMAIN walk' = {}
    OBVIOUS
<1>. QED
    BY <1>2, <1>3, <1>4, PushValues

\* A BLOCK opens its body.
LEMMA GenBlockEnterValues == IInv /\ IInv' /\ ValueInv /\ GenBlockEnter => ValueInv'
<1>. SUFFICES ASSUME IInv, IInv', ValueInv, GenBlockEnter PROVE ValueInv'
    OBVIOUS
<1>. DEFINE ins == Instr("BLOCK", nextValue, <<>>, <<NextBlock>>)
            first == Item(Top.node, Top.block, 1)
            second == Item(Kid(Top.node, 1), NextBlock, 0)
            s == <<first, second>>
<1>1. PICK m : m = Top.node
    OBVIOUS
<1>2. PICK d : d = Depth
    OBVIOUS
<1>3. /\ worklist # <<>> /\ walk' = <<>> /\ ast[m].kind = "BLOCK" /\ ast' = ast
      /\ Emit(Grown(code, 1), Top.block, ins) /\ result' = result
      /\ worklist' = Rest \o s
    BY <1>1 DEF GenBlockEnter, Turn
<1>4. m \in Nodes /\ Top.block \in Blocks /\ DOMAIN ast[m].kids = {1}
    BY <1>1, <1>3, TopAndRest, WaitingKids
<1>5. NextBlock \in Blocks'
    <2>1. NextBlock \in Nat /\ 1 \in 1..2
        BY DEF IInv, CodeInv
    <2>2. Blocks' = 0..(NextBlock + 1 - 1)
        BY <1>3, <1>4, <2>1, Leads
    <2>. QED
        BY <2>1, <2>2
<1>6. first \in Items /\ second \in Items
    BY <1>1, <1>3, <1>4, <1>5, ItemsTyped
<1>7. /\ first.node = m /\ first.state = 1
      /\ second.node = Kid(m, 1) /\ second.state = 0
    BY <1>1 DEF Item
<1>8. Proper(ins)
    <2>1. ins.id = nextValue /\ ins.args = <<>>
        BY DEF Instr
    <2>. HIDE DEF ins
    <2>. QED
        BY <2>1 DEF Proper
<1>. HIDE DEF ins, first, second
<1>9. s[1] = first
    OBVIOUS
<1>10. PutBack(m, s, {Kid(m, 1)})
    BY <1>3, <1>6, <1>7, PutBackTwo
<1>. HIDE DEF s
<1>11. Reads(d)' = {1}
    BY <1>2, <1>3, <1>4, <1>7, <1>9, <1>10, ReadsNext
<1>. QED
    BY <1>1, <1>2, <1>3, <1>4, <1>8, <1>10, <1>11, EmitAndPush

\* AND and OR branch on their first argument, and keep it for the PHI.
LEMMA GenShortCircuitValues == IInv /\ IInv' /\ ValueInv /\ GenShortCircuit => ValueInv'
<1>. SUFFICES ASSUME IInv, IInv', ValueInv, GenShortCircuit PROVE ValueInv'
    OBVIOUS
<1>. DEFINE bs == IF ast[Top.node].kind = "AND" THEN <<NextBlock, NextBlock + 1>>
                                                ELSE <<NextBlock + 1, NextBlock>>
            ins == Instr("BRANCH", nextValue, <<KidResult(Top.node, 1)>>, bs)
            first == Item(Top.node, Top.block, 2)
            second == Item(Kid(Top.node, 2), NextBlock, 0)
            s == <<first, second>>
<1>1. PICK m : m = Top.node
    OBVIOUS
<1>2. PICK d : d = Depth
    OBVIOUS
<1>3. /\ worklist # <<>> /\ walk' = <<>> /\ ast[m].kind \in {"AND", "OR"} /\ ast' = ast
      /\ Emit(Grown(code, 2), Top.block, ins) /\ result' = result
      /\ worklist' = Rest \o s /\ Top.state = 1
    BY <1>1 DEF GenShortCircuit, Turn
<1>4. m \in Nodes /\ Top.block \in Blocks /\ DOMAIN ast[m].kids = {1, 2}
    BY <1>1, <1>3, TopAndRest, WaitingKids
<1>5. NextBlock \in Blocks'
    <2>1. NextBlock \in Nat /\ 2 \in 1..2
        BY DEF IInv, CodeInv
    <2>. HIDE DEF ins
    <2>2. Blocks' = 0..(NextBlock + 2 - 1)
        BY <1>3, <1>4, <2>1, Leads
    <2>. QED
        BY <2>1, <2>2
<1>6. first \in Items /\ second \in Items
    BY <1>1, <1>3, <1>4, <1>5, ItemsTyped
<1>7. /\ first.node = m /\ first.state = 2
      /\ second.node = Kid(m, 2) /\ second.state = 0
    BY <1>1 DEF Item
<1>8. Value(KidResult(m, 1), nextValue)
    BY <1>1, <1>3, ReadsOnce, TopReads
<1>9. Proper(ins)
    <2>1. ins.id = nextValue /\ ins.args = <<KidResult(m, 1)>>
        BY <1>1 DEF Instr
    <2>. HIDE DEF ins
    <2>. QED
        BY <1>8, <2>1 DEF Proper
<1>. HIDE DEF ins, first, second
<1>10. s[1] = first
    OBVIOUS
<1>11. PutBack(m, s, {Kid(m, 2)})
    BY <1>3, <1>6, <1>7, PutBackTwo
<1>. HIDE DEF s
<1>12. Reads(d)' = {1, 2}
    BY <1>2, <1>3, <1>4, <1>7, <1>10, <1>11, ReadsNext
<1>13. \A x \in Reads(d)' :
          \/ x \in DOMAIN ast[m].kids /\ Value(KidResult(m, x), nextValue)
          \/ Kid(m, x) \in {Kid(m, 2)}
    BY <1>4, <1>8, <1>12
<1>14. ast[m].kind # "WHILE" /\ 2 \in 1..2
    BY <1>3
<1>. QED
    BY <1>1, <1>2, <1>3, <1>4, <1>9, <1>11, <1>13, <1>14, EmitAndPush

\* An IF branches on its first argument, and waits for the others.
LEMMA GenIfBranchValues == IInv /\ IInv' /\ ValueInv /\ GenIfBranch => ValueInv'
<1>. SUFFICES ASSUME IInv, IInv', ValueInv, GenIfBranch PROVE ValueInv'
    OBVIOUS
<1>. DEFINE ins == Instr("BRANCH", nextValue, <<KidResult(Top.node, 1)>>,
                         <<NextBlock, NextBlock + 1>>)
            first == Item(Top.node, Top.block, 2)
            second == Item(Kid(Top.node, 3), NextBlock + 1, 0)
            third == Item(Kid(Top.node, 2), NextBlock, 0)
            s == <<first, second, third>>
<1>1. PICK m : m = Top.node
    OBVIOUS
<1>2. PICK d : d = Depth
    OBVIOUS
<1>3. /\ worklist # <<>> /\ walk' = <<>> /\ ast[m].kind = "IF" /\ ast' = ast
      /\ Emit(Grown(code, 2), Top.block, ins) /\ result' = result
      /\ worklist' = Rest \o s /\ Top.state = 1
    BY <1>1 DEF GenIfBranch, Turn
<1>4. m \in Nodes /\ Top.block \in Blocks /\ DOMAIN ast[m].kids = {1, 2, 3}
    BY <1>1, <1>3, TopAndRest, WaitingKids
<1>5. NextBlock \in Blocks' /\ NextBlock + 1 \in Blocks'
    <2>1. NextBlock \in Nat /\ 2 \in 1..2
        BY DEF IInv, CodeInv
    <2>. HIDE DEF ins
    <2>2. Blocks' = 0..(NextBlock + 2 - 1)
        BY <1>3, <1>4, <2>1, Leads
    <2>. QED
        BY <2>1, <2>2
<1>6. first \in Items /\ second \in Items /\ third \in Items
    BY <1>1, <1>3, <1>4, <1>5, ItemsTyped
<1>7. /\ first.node = m /\ first.state = 2
      /\ second.node = Kid(m, 3) /\ second.state = 0
      /\ third.node = Kid(m, 2) /\ third.state = 0
    BY <1>1 DEF Item
<1>8. Value(KidResult(m, 1), nextValue)
    BY <1>1, <1>3, ReadsOnce, TopReads
<1>9. Proper(ins)
    <2>1. ins.id = nextValue /\ ins.args = <<KidResult(m, 1)>>
        BY <1>1 DEF Instr
    <2>. HIDE DEF ins
    <2>. QED
        BY <1>8, <2>1 DEF Proper
<1>. HIDE DEF ins, first, second, third
<1>10. s[1] = first
    OBVIOUS
<1>11. PutBack(m, s, {Kid(m, 3), Kid(m, 2)})
    <2>1. PutBack(m, s, {second.node, third.node})
        BY <1>3, <1>6, <1>7, PutBackThree
    <2>. QED
        BY <1>7, <2>1
<1>. HIDE DEF s
<1>12. Reads(d)' = {1, 2, 3}
    BY <1>2, <1>3, <1>4, <1>7, <1>10, <1>11, ReadsNext
<1>13. \A x \in Reads(d)' :
          \/ x \in DOMAIN ast[m].kids /\ Value(KidResult(m, x), nextValue)
          \/ Kid(m, x) \in {Kid(m, 3), Kid(m, 2)}
    BY <1>4, <1>8, <1>12
<1>14. ast[m].kind # "WHILE" /\ 2 \in 1..2
    BY <1>3
<1>. QED
    BY <1>1, <1>2, <1>3, <1>4, <1>9, <1>11, <1>13, <1>14, EmitAndPush

\* A WHILE branches on its condition; its own value is there since it began.
LEMMA GenWhileBranchValues == IInv /\ IInv' /\ ValueInv /\ GenWhileBranch => ValueInv'
<1>. SUFFICES ASSUME IInv, IInv', ValueInv, GenWhileBranch PROVE ValueInv'
    OBVIOUS
<1>. DEFINE ins == Instr("BRANCH", nextValue, <<KidResult(Top.node, 1)>>,
                         <<NextBlock, NextBlock + 1>>)
            first == Item(Top.node, Top.block, 2)
            second == Item(Kid(Top.node, 2), NextBlock, 0)
            s == <<first, second>>
            e == nodeBlock[Top.node]
<1>1. PICK m : m = Top.node
    OBVIOUS
<1>2. PICK d : d = Depth
    OBVIOUS
<1>3. /\ worklist # <<>> /\ walk' = <<>> /\ ast[m].kind = "WHILE" /\ ast' = ast
      /\ Emit(Grown(code, 2), e, ins) /\ result' = result
      /\ worklist' = Rest \o s /\ Top.state = 1
    BY <1>1 DEF GenWhileBranch, Turn
<1>4. m \in Nodes /\ e \in Blocks /\ DOMAIN ast[m].kids = {1, 2}
    <2>1. m \in Nodes /\ ItemReady(Top)
        BY <1>1, <1>3, TopAndRest
    <2>2. e # NoBlock
        BY <1>1, <1>3, <2>1 DEF ItemReady
    <2>3. nodeBlock[m] \in Blocks \cup {NoBlock}
        BY <2>1 DEF IInv, FlowOK
    <2>. QED
        BY <1>1, <1>3, <2>1, <2>2, <2>3, WaitingKids
<1>5. NextBlock \in Blocks'
    <2>1. NextBlock \in Nat /\ 2 \in 1..2
        BY DEF IInv, CodeInv
    <2>. HIDE DEF ins
    <2>2. Blocks' = 0..(NextBlock + 2 - 1)
        BY <1>3, <1>4, <2>1, Leads
    <2>. QED
        BY <2>1, <2>2
<1>6. first \in Items /\ second \in Items
    BY <1>1, <1>3, <1>4, <1>5, ItemsTyped
<1>7. /\ first.node = m /\ first.state = 2
      /\ second.node = Kid(m, 2) /\ second.state = 0
    BY <1>1 DEF Item
<1>8. Value(KidResult(m, 1), nextValue)
    BY <1>1, <1>3, ReadsOnce, TopReads
<1>9. Proper(ins)
    <2>1. ins.id = nextValue /\ ins.args = <<KidResult(m, 1)>>
        BY <1>1 DEF Instr
    <2>. HIDE DEF ins
    <2>. QED
        BY <1>8, <2>1 DEF Proper
<1>10. Value(result[m], nextValue)
    <2>1. /\ Depth \in DOMAIN worklist /\ Node(Depth) = m /\ State(Depth) = 1
          /\ Kind(Depth) = "WHILE"
        BY <1>1, <1>3, Positions DEF Kind, Node
    <2>. QED
        BY <2>1 DEF ValueInv, Supplied
<1>. HIDE DEF ins, first, second, e
<1>11. s[1] = first
    OBVIOUS
<1>12. PutBack(m, s, {Kid(m, 2)})
    BY <1>3, <1>6, <1>7, PutBackTwo
<1>. HIDE DEF s
<1>13. Reads(d)' = {} /\ 2 \in 1..2
    BY <1>2, <1>3, <1>4, <1>7, <1>11, <1>12, ReadsNext
<1>. QED
    BY <1>1, <1>2, <1>3, <1>4, <1>9, <1>10, <1>12, <1>13, EmitAndPush

\* A WHILE has its value, NULL, before its condition is generated.
LEMMA GenWhileEnterValues == IInv /\ IInv' /\ ValueInv /\ GenWhileEnter => ValueInv'
<1>. SUFFICES ASSUME IInv, IInv', ValueInv, GenWhileEnter PROVE ValueInv'
    OBVIOUS
<1>. DEFINE a == Const("CONST_NULL", nextValue, Null)
            b == Instr("JUMP", nextValue + 1, <<>>, <<NextBlock>>)
            is == <<a, b>>
            first == Item(Top.node, Top.block, 1)
            second == Item(Kid(Top.node, 1), NextBlock, 0)
            s == <<first, second>>
<1>1. PICK m : m = Top.node
    OBVIOUS
<1>2. PICK d : d = Depth
    OBVIOUS
<1>3. PICK v : v = nextValue
    OBVIOUS
<1>4. PICK e : e = Top.block
    OBVIOUS
<1>5. /\ worklist # <<>> /\ walk' = <<>> /\ ast[m].kind = "WHILE" /\ ast' = ast
      /\ code' = [Grown(code, 1) EXCEPT ![e] = @ \o is]
      /\ nextValue' = nextValue + 2
      /\ result' = [result EXCEPT ![m] = v]
      /\ worklist' = Rest \o s
    BY <1>1, <1>3, <1>4 DEF GenWhileEnter, Turn, SetResult
<1>6. m \in Nodes /\ e \in Blocks /\ DOMAIN ast[m].kids = {1, 2} /\ nextValue \in Nat
    BY <1>1, <1>4, <1>5, TopAndRest, WaitingKids DEF IInv, CodeInv
<1>7. /\ a.op = "CONST_NULL" /\ a.id = nextValue /\ a.args = <<>>
      /\ b.id = nextValue + 1 /\ b.args = <<>>
    BY DEF Const, Instr
<1>. HIDE DEF a, b
<1>8. is \in Seq({a, b}) /\ Len(is) = 2 /\ is[1] = a /\ is[2] = b
    OBVIOUS
<1>. HIDE DEF is
<1>9. /\ Blocks' = 0..(NextBlock + 1 - 1) /\ Wrote(e, is) /\ OldLen(e) \in Nat
      /\ NextBlock \in Nat
    <2>1. CodeInv /\ 1 \in Nat /\ NextBlock \in Nat
        BY DEF IInv, CodeInv
    <2>2. e \in 0..(NextBlock + 1 - 1)
        BY <1>6 DEF IInv, CodeInv
    <2>. QED
        BY <1>5, <1>8, <2>1, <2>2, Written
<1>10. NextBlock \in Blocks' /\ e \in Blocks'
    <2>1. NextBlock \in 0..(NextBlock + 1 - 1)
        BY <1>9
    <2>. QED
        BY <1>6, <1>9, <2>1 DEF Wrote, Stays
<1>11. Fed(is)
    <2>1. 1..2 = {1, 2}
        OBVIOUS
    <2>2. ASSUME NEW x \in {a, b}
          PROVE  x.id >= nextValue /\ \A k \in DOMAIN x.args : Value(x.args[k], nextValue)
        BY <1>6, <1>7
    <2>3. \A x \in 1..Len(is) : is[x] \in {a, b}
        BY <1>8, <2>1
    <2>. QED
        BY <2>2, <2>3 DEF Fed
<1>12. Grows /\ OperandsDefined'
    <2>1. nextValue' >= nextValue /\ Len(is) \in Nat
        BY <1>5, <1>6, <1>8
    <2>. QED
        BY <1>9, <1>11, <2>1, WroteGrows, WroteOperands DEF ValueInv
<1>13. Value(v, nextValue)'
    <2>1. PICK y : y = OldLen(e) + 1
        OBVIOUS
    <2>2. y \in DOMAIN code'[e] /\ code'[e][y] = a
        <3>1. y \in 1..(OldLen(e) + Len(is)) /\ 1 \in 1..Len(is)
            BY <1>8, <1>9, <2>1
        <3>. QED
            BY <1>8, <1>9, <2>1, <3>1 DEF Wrote
    <2>3. code'[e][y].id = v /\ v < nextValue' /\ code'[e][y].op \in Defining
        BY <1>3, <1>5, <1>6, <1>7, <2>2, OpsDefine
    <2>. QED
        BY <1>10, <2>2, <2>3 DEF Value
<1>14. /\ \A n \in Nodes : n # m => result'[n] = result[n]
       /\ Value(result[m], nextValue)'
    <2>1. result'[m] = v /\ \A n \in Nodes : n # m => result'[n] = result[n]
        BY <1>5, <1>6 DEF IInv, TablesOK
    <2>. QED
        BY <1>13, <2>1 DEF Value
<1>15. first \in Items /\ second \in Items
    BY <1>1, <1>5, <1>6, <1>10, ItemsTyped
<1>16. /\ first.node = m /\ first.state = 1
       /\ second.node = Kid(m, 1) /\ second.state = 0
    BY <1>1 DEF Item
<1>. HIDE DEF first, second
<1>17. s[1] = first
    OBVIOUS
<1>18. PutBack(m, s, {Kid(m, 1)})
    BY <1>5, <1>15, <1>16, PutBackTwo
<1>. HIDE DEF s
<1>19. Reads(d)' = {1}
    BY <1>2, <1>5, <1>16, <1>17, <1>18, ReadsNext
<1>20. DOMAIN walk' = {}
    BY <1>5
<1>. QED
    BY <1>1, <1>2, <1>5, <1>12, <1>14, <1>18, <1>19, <1>20, PushValues

\* What state 0 puts back: the node, and its arguments in reverse order.
LEMMA Schedules ==
    ASSUME IInv, IInv', GenSchedule, NEW m, m = Top.node
    PROVE  \E s \in Seq(Items) : s[1].state = 1 /\ PutBack(m, s, Elements(Scheduled(m)))
<1>1. worklist # <<>> /\ ast[Top.node].kind \notin {"BLOCK", "WHILE"} /\ code' = code
    BY DEF GenSchedule, Turn
<1>2. m \in Nodes /\ Top.block \in Blocks
    BY <1>1, TopAndRest
<1>. DEFINE l == Scheduled(Top.node)
            pushed == [k \in 1..Len(l) |-> Item(l[Len(l) + 1 - k], Top.block, 0)]
            again == Item(Top.node, Top.block, 1)
            s == <<again>> \o pushed
<1>3. worklist' = (Rest \o <<again>>) \o pushed
    BY DEF GenSchedule
<1>4. l \in Seq(Nodes) /\ Len(l) \in Nat /\ DOMAIN l = 1..Len(l)
    BY <1>2, ScheduledAreNodes, LenProperties DEF IInv
<1>5. \A x \in DOMAIN l : l[x] \in Nodes
    BY <1>4, ElementOfSeq
<1>6. \A k \in 1..Len(l) : Len(l) + 1 - k \in DOMAIN l
    BY <1>4
<1>7. again \in Items /\ again.node = m /\ again.state = 1
    BY <1>2 DEF Item, Items
<1>8. /\ pushed \in Seq(Items) /\ DOMAIN pushed = 1..Len(l)
      /\ \A k \in 1..Len(l) : pushed[k].state = 0 /\ pushed[k].node = l[Len(l) + 1 - k]
    <2>. HIDE DEF l
    <2>1. \A k \in 1..Len(l) : Item(l[Len(l) + 1 - k], Top.block, 0) \in Items
        BY <1>2, <1>5, <1>6 DEF Item, Items
    <2>2. pushed \in [1..Len(l) -> Items]
        BY <2>1
    <2>3. \A k \in 1..Len(l) : pushed[k].state = 0 /\ pushed[k].node = l[Len(l) + 1 - k]
        BY DEF Item
    <2>4. DOMAIN pushed = 1..Len(l)
        OBVIOUS
    <2>. HIDE DEF pushed
    <2>5. pushed \in Seq(Items)
        BY <1>4, <2>2, SeqDef
    <2>. QED
        BY <2>3, <2>4, <2>5
<1>9. Len(pushed) = Len(l)
    <2>1. Len(pushed) \in Nat /\ DOMAIN pushed = 1..Len(pushed)
        BY <1>8, LenProperties
    <2>. HIDE DEF l, pushed
    <2>2. 1..Len(pushed) = 1..Len(l)
        BY <1>8, <2>1
    <2>. QED
        BY <1>4, <2>1, <2>2, SameLength
<1>. HIDE DEF l, pushed, again
<1>10. <<again>> \in Seq(Items) /\ Len(<<again>>) = 1 /\ <<again>>[1] = again
    BY <1>7
<1>11. /\ s \in Seq(Items) /\ Len(s) = 1 + Len(l)
       /\ \A i \in 1..(1 + Len(l)) : s[i] = IF i <= 1 THEN <<again>>[i] ELSE pushed[i - 1]
    BY <1>8, <1>9, <1>10, ConcatProperties
<1>12. worklist' = Rest \o s
    <2>1. Rest \in Seq(ReadyItems)
        BY <1>1, TopAndRest
    <2>2. ReadyItems \subseteq Items
        BY DEF ReadyItems, Items
    <2>3. Rest \in Seq(Items)
        BY <2>1, <2>2, SeqMonotonic
    <2>4. (Rest \o <<again>>) \o pushed = Rest \o (<<again>> \o pushed)
        BY <1>8, <1>10, <2>3, ConcatAssociative
    <2>. QED
        BY <1>3, <2>4
<1>. HIDE DEF s
<1>13. s[1] = again /\ Len(s) >= 1
    <2>1. 1 \in 1..(1 + Len(l)) /\ 1 + Len(l) >= 1
        BY <1>4
    <2>. QED
        BY <1>10, <1>11, <2>1
<1>14. \A x \in 2..Len(s) : s[x].state = 0
    <2>. TAKE x \in 2..Len(s)
    <2>1. x \in 1..(1 + Len(l)) /\ ~(x <= 1) /\ x - 1 \in 1..Len(l)
        BY <1>4, <1>11
    <2>2. s[x] = pushed[x - 1]
        BY <1>11, <2>1
    <2>. QED
        BY <1>8, <2>1, <2>2
<1>15. ASSUME NEW y \in DOMAIN l
       PROVE  \E x \in 2..Len(s) : s[x].node = l[y]
    <2>1. PICK z : z = Len(l) + 1 - y
        OBVIOUS
    <2>2. PICK x : x = z + 1
        OBVIOUS
    <2>3. /\ z \in 1..Len(l) /\ x \in 2..Len(s) /\ x \in 1..(1 + Len(l))
          /\ ~(x <= 1) /\ x - 1 = z /\ Len(l) + 1 - z = y
        <3>1. PICK n : n = Len(l)
            OBVIOUS
        <3>2. n \in Nat /\ y \in 1..n /\ Len(s) = 1 + n
            BY <1>4, <1>11, <3>1
        <3>3. /\ z \in 1..n /\ x \in 2..(1 + n) /\ x \in 1..(1 + n)
              /\ ~(x <= 1) /\ x - 1 = z /\ n + 1 - z = y
            BY <2>1, <2>2, <3>1, <3>2
        <3>. QED
            BY <3>1, <3>2, <3>3
    <2>4. s[x] = pushed[z]
        BY <1>11, <2>3
    <2>5. s[x].node = l[y]
        BY <1>8, <2>3, <2>4
    <2>. QED
        BY <2>3, <2>5
<1>16. PutBack(m, s, Elements(l))
    <2>1. \A n \in Elements(l) : \E x \in 2..Len(s) : s[x].node = n
        BY <1>15 DEF Elements
    <2>. QED
        BY <1>7, <1>11, <1>12, <1>13, <1>14, <2>1 DEF PutBack
<1>. QED
    BY <1>7, <1>11, <1>13, <1>16 DEF l

\* The arguments that state 1 reads are scheduled.
LEMMA GenScheduleValues == IInv /\ IInv' /\ ValueInv /\ GenSchedule => ValueInv'
<1>. SUFFICES ASSUME IInv, IInv', ValueInv, GenSchedule PROVE ValueInv'
    OBVIOUS
<1>1. PICK m : m = Top.node
    OBVIOUS
<1>2. PICK d : d = Depth
    OBVIOUS
<1>3. /\ worklist # <<>> /\ walk' = <<>> /\ ast' = ast /\ result' = result
      /\ ast[m].kind \notin {"BLOCK", "WHILE"} /\ UNCHANGED <<code, nextValue>>
    BY <1>1 DEF GenSchedule, Turn
<1>4. PICK s \in Seq(Items) : s[1].state = 1 /\ PutBack(m, s, Elements(Scheduled(m)))
    BY <1>1, Schedules
<1>5. Grows /\ OperandsDefined'
    BY <1>3, SameOperands DEF ValueInv
<1>6. m \in Nodes
    BY <1>1, <1>3, TopAndRest
<1>7. ASSUME NEW k \in Reads(d)'
      PROVE  Kid(m, k) \in Elements(Scheduled(m))
    <2>1. CASE ast[m].kind \in {"AND", "OR", "IF"}
        <3>1. Reads(d)' = {1}
            BY <1>2, <1>3, <1>4, <2>1, ReadsNext
        <3>2. Scheduled(m) = <<Kid(m, 1)>>
            BY <2>1 DEF Scheduled
        <3>. QED
            BY <3>1, <3>2 DEF Elements
    <2>2. CASE ast[m].kind = "ASSIGN"
        <3>1. Reads(d)' = {2}
            BY <1>2, <1>3, <1>4, <2>2, ReadsNext
        <3>2. Scheduled(m) = <<Kid(m, 2)>>
            BY <2>2 DEF Scheduled
        <3>3. k = 2 /\ <<Kid(m, 2)>>[1] = Kid(m, 2)
            BY <3>1
        <3>. QED
            BY <3>2, <3>3 DEF Elements
    <2>3. CASE ast[m].kind \notin {"AND", "OR", "IF", "ASSIGN"}
        <3>1. Reads(d)' = DOMAIN ast[m].kids
            BY <1>2, <1>3, <1>4, <2>3, ReadsNext
        <3>2. Scheduled(m) = ast[m].kids
            BY <2>3 DEF Scheduled
        <3>. QED
            BY <3>1, <3>2 DEF Elements, Kid
    <2>. QED
        BY <2>1, <2>2, <2>3
<1>8. DOMAIN walk' = {} /\ ast[m].kind # "WHILE"
    BY <1>3
<1>. QED
    BY <1>1, <1>2, <1>3, <1>4, <1>5, <1>7, <1>8, PushValues

-----------------------------------------------------------------------------
(* The steps that begin a walk. *)

\* A "return" that a handler begins has a value.
LEMMA CarriesReturn ==
    ASSUME NEW w, NEW v, walk'[w].do = "return", walk'[w].value = v,
           Value(v, nextValue)'
    PROVE  Carried(w)'
BY DEF Carried, Value

\* A "phi" has a value for the instruction that it fills in.
LEMMA CarriesPhi ==
    ASSUME NEW w, NEW v, NEW m, walk'[w].do = "phi", walk'[w].value = v,
           code'[walk'[w].jump][walk'[w].at].id = m, Value(v, m)'
    PROVE  Carried(w)'
BY DEF Carried, Value

\* The other frames carry nothing.
LEMMA CarriesNothing ==
    ASSUME NEW w, walk'[w].do \notin {"phi", "return"}
    PROVE  Carried(w)'
BY DEF Carried

\* In state 2 an item reads all its arguments, but a WHILE reads none.
LEMMA AllReady ==
    ASSUME IInv, ValueInv, worklist # <<>>, Top.state = 2,
           ast[Top.node].kind \in {"AND", "OR", "IF"}
    PROVE  \A k \in DOMAIN ast[Top.node].kids : Value(KidResult(Top.node, k), nextValue)
<1>1. Reads(Depth) = DOMAIN ast[Top.node].kids
    BY Positions DEF Reads, Node, State, Kind
<1>. QED
    BY <1>1, TopReads

\* The BLOCK that a node holds is its value.
LEMMA HeldValue ==
    ASSUME IInv, NEW n, Holds(n, {"BLOCK"}), NEW v, v = HeldInstr(n).id
    PROVE  Value(v, nextValue)
<1>1. PICK c : c = held[n][1]
    OBVIOUS
<1>2. PICK j : j = held[n][2]
    OBVIOUS
<1>3. c \in Blocks /\ j \in DOMAIN code[c] /\ HeldInstr(n) = code[c][j]
    BY <1>1, <1>2 DEF Holds, HeldInstr
<1>4. code[c][j].op \in Defining
    BY <1>3, OpsDefine DEF Holds
<1>5. code[c][j].id = v /\ v < nextValue
    BY <1>3, InstructionTyped DEF IInv
<1>. QED
    BY <1>3, <1>4, <1>5 DEF Value

\* The body of a BLOCK returns its value.
LEMMA GenBlockLeaveValues == IInv /\ IInv' /\ ValueInv /\ GenBlockLeave => ValueInv'
<1>. SUFFICES ASSUME IInv, IInv', ValueInv, GenBlockLeave PROVE ValueInv'
    OBVIOUS
<1>1. PICK v : v = HeldInstr(Top.node).id
    OBVIOUS
<1>2. PICK r : r = KidResult(Top.node, 1)
    OBVIOUS
<1>3. PICK b : b = HeldInstr(Top.node).blks[1]
    OBVIOUS
<1>4. /\ worklist # <<>> /\ worklist' = Rest /\ ast' = ast
      /\ ast[Top.node].kind = "BLOCK" /\ Top.state = 1
      /\ SetResult(Top.node, v) /\ UNCHANGED <<code, nextValue>>
      /\ walk' = <<Frame("return", Top.node, b, NoBlock, 0, r)>>
    BY <1>1, <1>2, <1>3 DEF GenBlockLeave, Turn
<1>5. Grows /\ OperandsDefined'
    BY <1>4, SameOperands DEF ValueInv
<1>6. Top.node \in Nodes /\ Holds(Top.node, {"BLOCK"})
    BY <1>4, TopAndRest DEF ItemReady
<1>7. Value(v, nextValue)'
    <2>1. Value(v, nextValue)
        BY <1>1, <1>6, HeldValue
    <2>. QED
        BY <1>5, <2>1, ValueNow
<1>8. Value(r, nextValue)'
    <2>1. 1 \in DOMAIN ast[Top.node].kids
        BY <1>4, <1>6, WaitingKids
    <2>2. Value(r, nextValue)
        BY <1>2, <1>4, <2>1, OperandsReady
    <2>. QED
        BY <1>5, <2>2, ValueNow
<1>9. \A w \in DOMAIN walk' : Carried(w)'
    <2>1. DOMAIN walk' = {1} /\ walk'[1].do = "return" /\ walk'[1].value = r
        BY <1>4 DEF Frame
    <2>. QED
        BY <1>8, <2>1, CarriesReturn
<1>. QED
    BY <1>4, <1>5, <1>7, <1>9, PopValues DEF SetResult

\* The body of a WHILE jumps back; its value is the null from before.
LEMMA GenWhileLoopValues == IInv /\ IInv' /\ ValueInv /\ GenWhileLoop => ValueInv'
<1>. SUFFICES ASSUME IInv, IInv', ValueInv, GenWhileLoop PROVE ValueInv'
    OBVIOUS
<1>1. PICK v : v = result[Top.node]
    OBVIOUS
<1>2. PICK b : b = HeldInstr(Top.node).blks
    OBVIOUS
<1>3. /\ worklist # <<>> /\ worklist' = Rest /\ ast' = ast
      /\ ast[Top.node].kind = "WHILE" /\ Top.state = 2
      /\ UNCHANGED <<code, nextValue>> /\ result' = result
      /\ walk' = <<Frame("jump", Top.node, b[1], top[Top.node], 0, NoId),
                   Frame("rewrite", Top.node, Top.block, b[2], 0, NoId)>>
    BY <1>2 DEF GenWhileLoop, Turn
<1>4. Grows /\ OperandsDefined'
    BY <1>3, SameOperands DEF ValueInv
<1>5. result' = [result EXCEPT ![Top.node] = v]
    BY <1>1, <1>3 DEF IInv, TablesOK
<1>6. Value(v, nextValue)'
    <2>1. /\ Depth \in DOMAIN worklist /\ Node(Depth) = Top.node
          /\ Kind(Depth) = "WHILE" /\ State(Depth) = 2
        BY <1>3, Positions DEF Node, Kind, State
    <2>2. Value(v, nextValue)
        BY <1>1, <2>1 DEF ValueInv, Supplied
    <2>. QED
        BY <1>4, <2>2, ValueNow
<1>7. \A w \in DOMAIN walk' : Carried(w)'
    <2>1. /\ DOMAIN walk' = {1, 2}
          /\ walk'[1].do = "jump" /\ walk'[2].do = "rewrite"
        BY <1>3 DEF Frame
    <2>. QED
        BY <2>1, CarriesNothing
<1>. QED
    BY <1>3, <1>4, <1>5, <1>6, <1>7, PopValues

\* A value is one for an instruction that takes the next id.
LEMMA ValueForNext ==
    ASSUME IInv, Grows, NEW v, NEW m, m = nextValue, Value(v, nextValue)
    PROVE  Value(v, m)'
<1>1. m \in Nat
    BY DEF IInv, CodeInv
<1>2. Value(v, m) /\ m >= m
    BY <1>1 DEF Value
<1>. QED
    BY <1>1, <1>2, ValueStays DEF IInv

\* The paths of an AND or an OR meet in a PHI.
LEMMA GenShortCircuitMergeValues ==
    IInv /\ IInv' /\ ValueInv /\ GenShortCircuitMerge => ValueInv'
<1>. SUFFICES ASSUME IInv, IInv', ValueInv, GenShortCircuitMerge PROVE ValueInv'
    OBVIOUS
<1>. DEFINE ins == Instr("PHI", nextValue, <<KidResult(Top.node, 1)>>, <<Top.block>>)
<1>1. PICK new : new = nextValue
    OBVIOUS
<1>2. PICK r : r = KidResult(Top.node, 2)
    OBVIOUS
<1>3. PICK merge : merge = Merged(Top.node)
    OBVIOUS
<1>4. PICK e : e = Evaluated(Top.node)
    OBVIOUS
<1>5. PICK at : at = Len(code[merge]) + 1
    OBVIOUS
<1>6. PICK b : b = Top.block
    OBVIOUS
<1>7. /\ worklist # <<>> /\ worklist' = Rest /\ ast' = ast
      /\ ast[Top.node].kind \in {"AND", "OR"} /\ Top.state = 2
      /\ SetResult(Top.node, new) /\ Emit(code, merge, ins)
      /\ walk' = <<Frame("phi", Top.node, e, merge, at, r),
                   Frame("link", Top.node, e, merge, 0, NoId),
                   Frame("rewrite", Top.node, b, merge, 0, NoId)>>
    BY <1>1, <1>2, <1>3, <1>4, <1>5, <1>6 DEF GenShortCircuitMerge, Turn
<1>8. merge \in Blocks
    <2>1. Holds(Top.node, {"BRANCH"})
        BY <1>7, TopAndRest DEF ItemReady
    <2>. QED
        BY <1>3, <2>1, HeldReady DEF IInv, Merged
<1>9. /\ Value(KidResult(Top.node, 1), nextValue)
      /\ Value(r, nextValue)
    <2>1. Top.node \in Nodes
        BY <1>7, TopAndRest
    <2>2. 1 \in DOMAIN ast[Top.node].kids /\ 2 \in DOMAIN ast[Top.node].kids
        BY <1>7, <2>1, WaitingKids
    <2>. QED
        BY <1>2, <1>7, <2>2, AllReady
<1>10. /\ ins.id = nextValue /\ ins.op = "PHI"
       /\ ins.args = <<KidResult(Top.node, 1)>>
    BY DEF Instr
<1>11. DOMAIN ins.args = {1} /\ ins.args[1] = KidResult(Top.node, 1)
    BY <1>10
<1>. HIDE DEF ins
<1>12. Proper(ins) /\ ins.op \in Defining
    BY <1>9, <1>10, <1>11, OpsDefine DEF Proper
<1>13. /\ Grows /\ OperandsDefined' /\ Wrote(merge, <<ins>>)
       /\ \A v : v = nextValue => Value(v, nextValue)'
    BY <1>7, <1>8, <1>12, EmitValuesHere
<1>14. code'[merge][at].id = new
    <2>1. OldLen(merge) = Len(code[merge]) /\ 1 \in 1..Len(<<ins>>) /\ <<ins>>[1] = ins
        BY <1>8 DEF OldLen
    <2>2. code'[merge][OldLen(merge) + 1] = ins
        BY <1>13, <2>1 DEF Wrote
    <2>. QED
        BY <1>1, <1>5, <1>10, <2>1, <2>2
<1>15. Value(r, new)'
    BY <1>1, <1>9, <1>13, ValueForNext
<1>16. \A w \in DOMAIN walk' : Carried(w)'
    <2>1. /\ DOMAIN walk' = {1, 2, 3}
          /\ walk'[1].do = "phi" /\ walk'[1].value = r
          /\ walk'[1].jump = merge /\ walk'[1].at = at
          /\ walk'[2].do = "link" /\ walk'[3].do = "rewrite"
        BY <1>7 DEF Frame
    <2>2. Carried(1)'
        BY <1>14, <1>15, <2>1, CarriesPhi
    <2>3. Carried(2)' /\ Carried(3)'
        BY <2>1, CarriesNothing
    <2>. QED
        BY <2>1, <2>2, <2>3
<1>. QED
    BY <1>1, <1>7, <1>13, <1>16, PopValues DEF SetResult

\* The paths of an IF meet in a new block, in a PHI that is filled in.
LEMMA GenIfMergeValues == IInv /\ IInv' /\ ValueInv /\ GenIfMerge => ValueInv'
<1>. SUFFICES ASSUME IInv, IInv', ValueInv, GenIfMerge PROVE ValueInv'
    OBVIOUS
<1>. DEFINE ins == Instr("PHI", nextValue, <<>>, <<>>)
<1>1. PICK new : new = nextValue
    OBVIOUS
<1>2. PICK r : r = KidResult(Top.node, 2)
    OBVIOUS
<1>3. PICK q : q = KidResult(Top.node, 3)
    OBVIOUS
<1>4. PICK h : h = HeldInstr(Top.node).blks
    OBVIOUS
<1>5. PICK merge : merge = NextBlock
    OBVIOUS
<1>6. PICK b : b = Top.block
    OBVIOUS
<1>7. /\ worklist # <<>> /\ worklist' = Rest /\ ast' = ast
      /\ ast[Top.node].kind = "IF" /\ Top.state = 2
      /\ SetResult(Top.node, new) /\ Emit(Grown(code, 1), merge, ins)
      /\ walk' = <<Frame("phi", Top.node, h[1], merge, 1, r),
                   Frame("phi", Top.node, h[2], merge, 1, q),
                   Frame("link", Top.node, h[1], merge, 0, NoId),
                   Frame("link", Top.node, h[2], merge, 0, NoId),
                   Frame("rewrite", Top.node, b, merge, 1, NoId)>>
    BY <1>1, <1>2, <1>3, <1>4, <1>5, <1>6 DEF GenIfMerge, Turn
<1>8. NextBlock \in Nat /\ Blocks = 0..(NextBlock - 1)
    BY DEF IInv, CodeInv
<1>9. 1 \in Nat /\ merge \in 0..(NextBlock + 1 - 1) /\ OldLen(merge) = 0
    BY <1>5, <1>8 DEF OldLen
<1>10. Value(r, nextValue) /\ Value(q, nextValue)
    <2>1. Top.node \in Nodes
        BY <1>7, TopAndRest
    <2>2. 2 \in DOMAIN ast[Top.node].kids /\ 3 \in DOMAIN ast[Top.node].kids
        BY <1>7, <2>1, WaitingKids
    <2>. QED
        BY <1>2, <1>3, <1>7, <2>2, AllReady
<1>11. ins.id = nextValue /\ ins.op = "PHI" /\ ins.args = <<>>
    BY DEF Instr
<1>. HIDE DEF ins
<1>12. Proper(ins) /\ ins.op \in Defining
    BY <1>11, OpsDefine DEF Proper
<1>13. /\ Grows /\ OperandsDefined' /\ Wrote(merge, <<ins>>)
       /\ \A v : v = nextValue => Value(v, nextValue)'
    BY <1>7, <1>9, <1>12, EmitValues
<1>14. code'[merge][1].id = new
    <2>1. 1 \in 1..Len(<<ins>>) /\ <<ins>>[1] = ins
        OBVIOUS
    <2>2. code'[merge][OldLen(merge) + 1] = ins
        BY <1>13, <2>1 DEF Wrote
    <2>. QED
        BY <1>1, <1>9, <1>11, <2>2
<1>15. Value(r, new)' /\ Value(q, new)'
    BY <1>1, <1>10, <1>13, ValueForNext
<1>16. \A w \in DOMAIN walk' : Carried(w)'
    <2>1. /\ DOMAIN walk' = {1, 2, 3, 4, 5}
          /\ walk'[1].do = "phi" /\ walk'[1].value = r
          /\ walk'[1].jump = merge /\ walk'[1].at = 1
          /\ walk'[2].do = "phi" /\ walk'[2].value = q
          /\ walk'[2].jump = merge /\ walk'[2].at = 1
          /\ walk'[3].do = "link" /\ walk'[4].do = "link" /\ walk'[5].do = "rewrite"
        BY <1>7 DEF Frame
    <2>2. Carried(1)'
        BY <1>14, <1>15, <2>1, CarriesPhi
    <2>3. Carried(2)'
        BY <1>14, <1>15, <2>1, CarriesPhi
    <2>4. Carried(3)' /\ Carried(4)' /\ Carried(5)'
        BY <2>1, CarriesNothing
    <2>. QED
        BY <2>1, <2>2, <2>3, <2>4
<1>. QED
    BY <1>1, <1>7, <1>13, <1>16, PopValues DEF SetResult

-----------------------------------------------------------------------------
(* The steps of a walk. *)

\* A frame that is left carries what it did.
LEMMA CarriedStays ==
    ASSUME IInv, IInv', ValueInv, Grows, NEW x \in DOMAIN walk, NEW w,
           walk'[w].do = walk[x].do, walk'[w].value = walk[x].value,
           walk'[w].jump = walk[x].jump, walk'[w].at = walk[x].at
    PROVE  Carried(w)'
<1>1. PICK v : v = walk[x].value
    OBVIOUS
<1>2. PICK b : b = walk[x].jump
    OBVIOUS
<1>3. PICK i : i = walk[x].at
    OBVIOUS
<1>4. Carried(x)
    BY DEF ValueInv
<1>5. CASE walk[x].do = "phi"
    <2>1. walk[x] \in ReadyFrames
        BY ElementOfSeq, LenProperties DEF IInv
    <2>2. FrameReady(walk[x]) /\ walk[x].jump \in Blocks \cup {NoBlock}
        BY <2>1 DEF ReadyFrames
    <2>3. b \in Blocks /\ i \in DOMAIN code[b]
        BY <1>2, <1>3, <1>5, <2>2 DEF FrameReady
    <2>4. Value(v, code[b][i].id)
        BY <1>1, <1>2, <1>3, <1>4, <1>5 DEF Carried
    <2>5. Value(v, code[b][i].id)'
        BY <2>3, <2>4, ValueThere
    <2>6. PICK m : m = code'[b][i].id
        OBVIOUS
    <2>7. Value(v, m)'
        BY <2>5, <2>6 DEF Value
    <2>. QED
        BY <1>1, <1>2, <1>3, <1>5, <2>6, <2>7, CarriesPhi
<1>6. CASE walk[x].do = "return"
    <2>1. Value(v, nextValue)
        BY <1>1, <1>4, <1>6 DEF Carried
    <2>2. Value(v, nextValue)'
        BY <2>1, ValueNow
    <2>. QED
        BY <1>1, <1>6, <2>2, CarriesReturn
<1>7. CASE walk[x].do \notin {"phi", "return"}
    BY <1>7, CarriesNothing
<1>. QED
    BY <1>5, <1>6, <1>7

\* The nodes of the worklist, and what has been computed for them.
Resting ==
    /\ ast' = ast /\ result' = result
    /\ DOMAIN worklist' = DOMAIN worklist
    /\ \A i \in DOMAIN worklist : /\ worklist'[i].node = worklist[i].node
                                  /\ worklist'[i].state = worklist[i].state

\* A walk leaves what the items read as it is.
LEMMA SuppliedStays ==
    ASSUME IInv, IInv', ValueInv, Grows, Resting, NEW i \in DOMAIN worklist
    PROVE  Supplied(i)'
<1>1. /\ Node(i)' = Node(i) /\ State(i)' = State(i) /\ Kind(i)' = Kind(i)
      /\ Reads(i)' = Reads(i)
    BY DEF Resting, Node, State, Kind, Reads
<1>2. ASSUME NEW n, Value(result[n], nextValue)
      PROVE  Value(result[n], nextValue)'
    BY <1>2, ResultStays DEF Resting
<1>3. ASSUME NEW k \in Reads(i)
      PROVE  Computed(Kid(Node(i), k), i)'
    <2>1. PICK n : n = Kid(Node(i), k)
        OBVIOUS
    <2>2. Kid(Node(i), k)' = n
        BY <1>1, <2>1 DEF Resting, Kid
    <2>3. Computed(n, i)
        BY <1>3, <2>1 DEF ValueInv, Supplied
    <2>4. CASE Value(result[n], nextValue)
        BY <1>2, <2>2, <2>4 DEF Computed
    <2>5. CASE \E j \in DOMAIN worklist : j > i /\ Node(j) = n
        <3>1. PICK j \in DOMAIN worklist : j > i /\ worklist[j].node = n
            BY <2>5 DEF Node
        <3>2. j \in DOMAIN worklist' /\ Node(j)' = n
            BY <3>1 DEF Resting, Node
        <3>. QED
            BY <2>2, <3>1, <3>2 DEF Computed
    <2>. QED
        BY <2>3, <2>4, <2>5 DEF Computed
<1>4. ASSUME Kind(i) = "WHILE", State(i) # 0
      PROVE  Value(result[Node(i)], nextValue)'
    <2>1. PICK n : n = Node(i)
        OBVIOUS
    <2>2. Value(result[n], nextValue)
        BY <1>4, <2>1 DEF ValueInv, Supplied
    <2>3. Value(result[n], nextValue)'
        BY <1>2, <2>2
    <2>. QED
        BY <1>1, <2>1, <2>3 DEF Value
<1>. QED
    BY <1>1, <1>3, <1>4 DEF Supplied

\* A step of a walk keeps the invariant.
LEMMA WalkValues ==
    ASSUME IInv, IInv', ValueInv, Grows, Resting, OperandsDefined',
           \A w \in DOMAIN walk' : \E x \in DOMAIN walk :
              /\ walk'[w].do = walk[x].do /\ walk'[w].value = walk[x].value
              /\ walk'[w].jump = walk[x].jump /\ walk'[w].at = walk[x].at
    PROVE  ValueInv'
<1>1. \A i \in DOMAIN worklist' : Supplied(i)'
    BY SuppliedStays DEF Resting
<1>2. \A w \in DOMAIN walk' : Carried(w)'
    BY CarriedStays
<1>. QED
    BY <1>1, <1>2 DEF ValueInv

\* When the frame that ran is gone.
LEMMA ReturnedValues ==
    ASSUME IInv, IInv', ValueInv, Grows, Resting, OperandsDefined',
           walk # <<>>, walk' = Tail(walk)
    PROVE  ValueInv'
<1>1. \A w \in DOMAIN walk' : \E x \in DOMAIN walk : walk'[w] = walk[x]
    BY Frames
<1>. QED
    BY <1>1, WalkValues

\* The steps that emit nothing and end a call.
LEMMA QuietValues ==
    ASSUME IInv, IInv', ValueInv, WalkSkip \/ WalkLink \/ WalkRewrite
    PROVE  ValueInv'
<1>1. /\ walk # <<>> /\ walk' = Tail(walk) /\ UNCHANGED <<ast, code, nextValue, result>>
    BY DEF WalkSkip, WalkLink, WalkRewrite, Walking
<1>2. Grows /\ OperandsDefined'
    BY <1>1, SameOperands DEF ValueInv
<1>3. Resting
    <2>1. CASE worklist' = worklist
        BY <1>1, <2>1 DEF Resting
    <2>2. CASE WalkRewrite
        <3>1. worklist' = [i \in DOMAIN worklist |->
                             IF worklist[i].block = Call.block
                             THEN [worklist[i] EXCEPT !.block = Call.jump]
                             ELSE worklist[i]]
            BY <2>2 DEF WalkRewrite
        <3>2. \A i \in DOMAIN worklist :
                 worklist[i] \in [node : Nodes, block : Blocks, state : 0..2]
            BY ElementOfSeq, LenProperties DEF IInv, ReadyItems
        <3>. QED
            BY <1>1, <3>1, <3>2 DEF Resting
    <2>. QED
        BY <2>1, <2>2 DEF WalkSkip, WalkLink
<1>. QED
    BY <1>1, <1>2, <1>3, ReturnedValues

\* The calls for the successors carry what the call did.
LEMMA WalkDescendValues == IInv /\ IInv' /\ ValueInv /\ WalkDescend => ValueInv'
<1>. SUFFICES ASSUME IInv, IInv', ValueInv, WalkDescend PROVE ValueInv'
    OBVIOUS
<1>. DEFINE next == succ[Call.block]
            frames == [i \in DOMAIN next |-> [Call EXCEPT !.block = next[i]]]
            rest == Tail(walk)
            fs == [do : Walks \cup {"link", "rewrite"}, node : Nodes, block : Blocks,
                   jump : Blocks \cup {NoBlock}, at : Nat, value : Int]
            Same(f, g) == /\ f.do = g.do /\ f.value = g.value
                          /\ f.jump = g.jump /\ f.at = g.at
            ss == {f \in fs : \E x \in DOMAIN walk : Same(f, walk[x])}
<1>1. /\ walk # <<>> /\ walk' = frames \o rest
      /\ UNCHANGED <<ast, worklist, code, nextValue, result>>
    BY DEF WalkDescend, Walking
<1>2. Call.block \in Blocks /\ Call \in fs /\ rest \in Seq(ReadyFrames)
    BY <1>1, CallReady
<1>3. next \in Seq(Blocks) /\ Len(next) \in Nat /\ DOMAIN next = 1..Len(next)
    BY <1>2, FlowParts, LenProperties
<1>4. \A i \in DOMAIN next : frames[i] \in fs /\ Same(frames[i], Call)
    <2>1. \A i \in DOMAIN next : next[i] \in Blocks
        BY <1>3, ElementOfSeq
    <2>. HIDE DEF next
    <2>. QED
        BY <1>2, <2>1
<1>. HIDE DEF Same
<1>5. \A i \in DOMAIN next : frames[i] \in ss
    BY <1>1, <1>4, Frames
<1>6. frames \in Seq(ss)
    <2>1. frames \in [1..Len(next) -> ss]
        BY <1>3, <1>5
    <2>. QED
        BY <1>3, <2>1, SeqDef
<1>7. rest \in Seq(ss)
    <2>1. \A w \in 1..Len(rest) : /\ rest[w] \in ReadyFrames
                                   /\ \E x \in DOMAIN walk : rest[w] = walk[x]
        BY <1>1, <1>2, Frames, ElementOfSeq
    <2>2. \A w \in 1..Len(rest) : rest[w] \in ss
        BY <2>1 DEF ReadyFrames, Same
    <2>3. Len(rest) \in Nat /\ rest \in [1..Len(rest) -> ss]
        BY <1>2, <2>2, LenProperties
    <2>. HIDE DEF rest, ss
    <2>. QED
        BY <2>3, SeqDef
<1>8. walk' \in Seq(ss)
    <2>. HIDE DEF frames, rest, ss
    <2>. QED
        BY <1>1, <1>6, <1>7, ConcatProperties
<1>9. ASSUME NEW w \in DOMAIN walk'
      PROVE  \E x \in DOMAIN walk : Same(walk'[w], walk[x])
    <2>1. walk'[w] \in ss
        BY <1>8, ElementOfSeq, LenProperties
    <2>. QED
        BY <2>1
<1>10. Grows /\ OperandsDefined' /\ Resting
    BY <1>1, SameOperands DEF ValueInv, Resting
<1>. QED
    BY <1>9, <1>10, WalkValues DEF Same

\* A leaf of the body of a BLOCK returns the value that the frame carries.
LEMMA WalkReturnValues == IInv /\ IInv' /\ ValueInv /\ WalkReturn => ValueInv'
<1>. SUFFICES ASSUME IInv, IInv', ValueInv, WalkReturn PROVE ValueInv'
    OBVIOUS
<1>. DEFINE ins == Instr("RETURN", nextValue, <<Call.value>>, <<>>)
<1>1. /\ walk # <<>> /\ walk' = Tail(walk) /\ Call.do = "return"
      /\ UNCHANGED <<ast, worklist, result>> /\ Emit(code, Call.block, ins)
    BY DEF WalkReturn, Walking
<1>2. Call.block \in Blocks
    BY <1>1, CallReady
<1>3. Value(Call.value, nextValue)
    BY <1>1, Frames DEF ValueInv, Carried
<1>4. /\ ins.id = nextValue
      /\ DOMAIN ins.args = {1} /\ ins.args[1] = Call.value
    BY DEF Instr
<1>. HIDE DEF ins
<1>5. Proper(ins)
    BY <1>3, <1>4 DEF Proper
<1>6. Grows /\ OperandsDefined'
    BY <1>1, <1>2, <1>5, EmitValuesHere
<1>7. Resting
    BY <1>1 DEF Resting
<1>. QED
    BY <1>1, <1>6, <1>7, ReturnedValues

\* What a leaf that jumps gives to the PHI is what the frame carries.
LEMMA FilledOperands ==
    ASSUME IInv, WalkJump, NEW x \in Blocks, NEW i \in DOMAIN code[x],
           NEW k \in DOMAIN Filled[x][i].args
    PROVE  \/ /\ k \in DOMAIN code[x][i].args
              /\ Filled[x][i].args[k] = code[x][i].args[k]
           \/ /\ Call.do = "phi" /\ x = Call.jump /\ i = Call.at
              /\ Filled[x][i].args[k] = Call.value
<1>. DEFINE to == Call.jump
            old == code[to]
            phi == [old[Call.at] EXCEPT !.args = Append(@, Call.value),
                                        !.blks = Append(@, Call.block)]
<1>1. walk # <<>> /\ Call.do \in {"phi", "jump"}
    BY DEF WalkJump, Walking
<1>2. to \in Blocks
    BY <1>1, CallReady DEF FrameReady
<1>3. CASE Call.do = "jump"
    BY <1>3 DEF Filled
<1>4. CASE Call.do = "phi"
    <2>1. Call.at \in DOMAIN old
        BY <1>4, <1>1, CallReady DEF FrameReady
    <2>2. Filled = [code EXCEPT ![to] = [old EXCEPT ![Call.at] = phi]]
        BY <1>2, <1>4, <2>1 DEF Filled, IInv, CodeInv
    <2>3. phi.args = Append(old[Call.at].args, Call.value)
        <3>1. old[Call.at] \in Instruction(Blocks)
            BY <1>2, <2>1, BlockIsSeq DEF IInv, ReadyInstructions
        <3>. QED
            BY <3>1 DEF Instruction
    <2>. HIDE DEF phi
    <2>4. CASE x = to /\ i = Call.at
        <3>1. Filled[x][i] = phi
            BY <1>2, <2>1, <2>2, <2>4 DEF IInv, CodeInv
        <3>2. PICK s : s = code[x][i].args
            OBVIOUS
        <3>3. s \in Seq(Int)
            BY <3>2, InstructionTyped DEF IInv
        <3>4. Call.value \in Int
            BY <1>1, CallReady
        <3>5. Filled[x][i].args = Append(s, Call.value)
            BY <2>3, <2>4, <3>1, <3>2
        <3>6. /\ Len(s) \in Nat /\ DOMAIN s = 1..Len(s)
              /\ DOMAIN Append(s, Call.value) = 1..(Len(s) + 1)
              /\ \A j \in 1..(Len(s) + 1) :
                    Append(s, Call.value)[j] = IF j = Len(s) + 1 THEN Call.value ELSE s[j]
            BY <3>3, <3>4, LenProperties, AppendProperties
        <3>7. k \in 1..(Len(s) + 1)
            BY <3>5, <3>6
        <3>8. CASE k = Len(s) + 1
            BY <1>4, <2>4, <3>5, <3>6, <3>7, <3>8
        <3>9. CASE k # Len(s) + 1
            <4>1. k \in DOMAIN s
                BY <3>6, <3>7, <3>9
            <4>. QED
                BY <3>2, <3>5, <3>6, <3>7, <3>9, <4>1
        <3>. QED
            BY <3>8, <3>9
    <2>5. CASE ~(x = to /\ i = Call.at)
        <3>1. Filled[x][i] = code[x][i]
            BY <1>2, <2>1, <2>2, <2>5 DEF IInv, CodeInv
        <3>. QED
            BY <3>1
    <2>. QED
        BY <2>4, <2>5
<1>. QED
    BY <1>1, <1>3, <1>4

\* It is a value for the PHI.
LEMMA WalkJumpValues == IInv /\ IInv' /\ ValueInv /\ WalkJump => ValueInv'
<1>. SUFFICES ASSUME IInv, IInv', ValueInv, WalkJump PROVE ValueInv'
    OBVIOUS
<1>1. /\ walk # <<>> /\ walk' = Tail(walk) /\ UNCHANGED <<ast, worklist, result>>
      /\ nextValue' = nextValue + 1
    BY DEF WalkJump, Walking, Emit
<1>2. PICK b : b = Call.block
    OBVIOUS
<1>3. /\ Alike(Filled) /\ b \in Blocks /\ Blocks' = Blocks
      /\ \A x \in Blocks : x # b => code'[x] = Filled[x]
      /\ DOMAIN code'[b] = 1..(Len(code[b]) + 1)
      /\ code'[b][Len(code[b]) + 1] = JumpBack
      /\ \A i \in DOMAIN code[b] : code'[b][i] = Filled[b][i]
    <2>1. CodeInv
        BY DEF IInv
    <2>2. /\ Alike(Filled) /\ b \in Blocks
          /\ \A x \in Blocks : \A i \in DOMAIN code[x] :
                code[x][i].op # "PHI" => Filled[x][i] = code[x][i]
          /\ JumpBack \in ReadyInstructions(Blocks) /\ Emit(Filled, b, JumpBack)
        BY <1>2, JumpWrites
    <2>3. /\ Blocks' = Blocks
          /\ \A x \in Blocks : x # b => code'[x] = Filled[x]
          /\ DOMAIN code'[b] = 1..(Len(code[b]) + 1)
          /\ code'[b][Len(code[b]) + 1] = JumpBack
          /\ \A i \in DOMAIN code[b] : code'[b][i] = Filled[b][i]
        <3>1. PICK c, ins : c = Filled /\ ins = JumpBack
            OBVIOUS
        <3>. QED
            BY <2>1, <2>2, <3>1, EmitOver
    <2>. QED
        BY <2>2, <2>3
<1>4. Len(code[b]) \in Nat /\ DOMAIN code[b] = 1..Len(code[b])
    BY <1>3, BlockIsSeq DEF IInv
<1>5. ASSUME NEW x \in Blocks, NEW i \in DOMAIN code[x]
      PROVE  i \in DOMAIN code'[x] /\ code'[x][i] = Filled[x][i]
    <2>1. CASE x = b
        BY <1>3, <1>4, <2>1
    <2>2. CASE x # b
        BY <1>3, <2>2 DEF Alike
    <2>. QED
        BY <2>1, <2>2
<1>6. Grows
    <2>1. nextValue' >= nextValue
        BY <1>1 DEF IInv, CodeInv
    <2>. QED
        BY <1>3, <1>5, <2>1 DEF Grows, Alike
<1>7. ASSUME NEW x \in Blocks', NEW i \in DOMAIN code'[x],
             NEW k \in DOMAIN code'[x][i].args
      PROVE  Value(code[x][i].args[k], code[x][i].id)'
    <2>1. PICK v : v = code'[x][i].args[k]
        OBVIOUS
    <2>2. PICK m : m = code'[x][i].id
        OBVIOUS
    <2>3. CASE x \in Blocks /\ i \in DOMAIN code[x]
        <3>1. code'[x][i] = Filled[x][i]
            BY <1>5, <2>3
        <3>2. \/ /\ k \in DOMAIN code[x][i].args /\ v = code[x][i].args[k]
              \/ Call.do = "phi" /\ x = Call.jump /\ i = Call.at /\ v = Call.value
            BY <2>1, <2>3, <3>1, FilledOperands
        <3>3. Value(v, code[x][i].id)
            <4>1. CASE k \in DOMAIN code[x][i].args /\ v = code[x][i].args[k]
                BY <2>3, <4>1 DEF ValueInv, OperandsDefined, Value
            <4>2. CASE Call.do = "phi" /\ x = Call.jump /\ i = Call.at /\ v = Call.value
                BY <1>1, <4>2, Frames DEF ValueInv, Carried
            <4>. QED
                BY <3>2, <4>1, <4>2
        <3>4. Value(v, code[x][i].id)'
            BY <1>6, <2>3, <3>3, ValueThere
        <3>. QED
            BY <2>1, <3>4 DEF Value
    <2>4. CASE ~(x \in Blocks /\ i \in DOMAIN code[x])
        <3>1. i \notin DOMAIN code[x] /\ x \in Blocks
            BY <1>3, <2>4
        <3>2. x = b
            <4>1. x # b => code'[x] = Filled[x] /\ DOMAIN Filled[x] = DOMAIN code[x]
                BY <1>3, <3>1 DEF Alike
            <4>. QED
                BY <3>1, <4>1
        <3>3. i = Len(code[b]) + 1
            BY <1>3, <1>4, <3>1, <3>2
        <3>4. code'[x][i].args = <<>>
            BY <1>3, <3>2, <3>3 DEF JumpBack, Instr
        <3>. QED
            BY <3>4
    <2>. QED
        BY <2>3, <2>4
<1>8. OperandsDefined'
    BY <1>7 DEF OperandsDefined, Value
<1>9. Resting
    BY <1>1 DEF Resting
<1>. QED
    BY <1>1, <1>6, <1>8, <1>9, ReturnedValues

-----------------------------------------------------------------------------
(* Every operand is a value. *)

\* At the start only the list of the arguments is read.
LEMMA InitValues == Init => ValueInv
<1>. SUFFICES ASSUME Init PROVE ValueInv
    OBVIOUS
<1>1. /\ DOMAIN worklist = {1} /\ worklist[1].state = 0 /\ DOMAIN walk = {}
    BY DEF Init, Item
<1>2. \A i \in DOMAIN worklist : Supplied(i)
    BY <1>1 DEF Supplied, Reads, State
<1>3. /\ Blocks = {0} /\ DOMAIN code[0] = {1, 2}
      /\ code[0][1] = Const("CONST_ARRAY", 0, Args) /\ code[0][2] = Store(1, 1, 0)
    <2>1. code = [b \in 0..0 |-> <<Const("CONST_ARRAY", 0, Args), Store(1, 1, 0)>>]
        BY DEF Init
    <2>2. 0..0 = {0} /\ 1..2 = {1, 2}
        OBVIOUS
    <2>. QED
        BY <2>1, <2>2 DEF Blocks
<1>4. /\ code[0][1].args = <<>> /\ code[0][1].id = 0 /\ code[0][1].op = "CONST_ARRAY"
      /\ code[0][2].id = 1
      /\ DOMAIN code[0][2].args = {1} /\ code[0][2].args[1] = 0
    BY <1>3 DEF Const, Store, Instr
<1>5. "CONST_ARRAY" \in Defining
    BY DEF Defining, Ops, ConstOps, Leaving
<1>6. OperandsDefined
    <2>. SUFFICES ASSUME NEW b \in Blocks, NEW i \in DOMAIN code[b],
                         NEW k \in DOMAIN code[b][i].args
                  PROVE  /\ 0 \in Blocks /\ 1 \in DOMAIN code[0]
                         /\ code[0][1].id = code[b][i].args[k]
                         /\ code[0][1].id < code[b][i].id
                         /\ code[0][1].op \in Defining
        BY DEF OperandsDefined
    <2>1. b = 0 /\ i = 2 /\ k = 1
        BY <1>3, <1>4
    <2>. QED
        BY <1>3, <1>4, <1>5, <2>1
<1>. QED
    BY <1>1, <1>2, <1>6 DEF ValueInv

\* A step that changes nothing keeps the invariant.
LEMMA SameValues == IInv /\ IInv' /\ ValueInv /\ UNCHANGED vars => ValueInv'
<1>. SUFFICES ASSUME IInv, IInv', ValueInv, UNCHANGED vars PROVE ValueInv'
    OBVIOUS
<1>1. UNCHANGED <<ast, worklist, walk, code, nextValue, result>>
    BY DEF vars
<1>2. Grows /\ OperandsDefined' /\ Resting
    BY <1>1, SameOperands DEF ValueInv, Resting
<1>. QED
    BY <1>1, <1>2, WalkValues

\* Every step of the generator keeps the invariant.
LEMMA NextValues == IInv /\ IInv' /\ ValueInv /\ [Next]_vars => ValueInv'
<1>. SUFFICES ASSUME IInv, IInv', ValueInv, [Next]_vars PROVE ValueInv'
    OBVIOUS
<1>1. CASE Next /\ ~UNCHANGED vars
    <2>1. Generate
        BY <1>1 DEF Next, Return
    <2>2. CASE GenLiteral \/ GenIdentifier \/ GenNullary \/ GenUnary \/ GenBinary
               \/ GenSlice \/ GenDump \/ GenAssign
        BY <2>2, SimplePopsValues
    <2>3. CASE GenSchedule \/ GenExpr \/ GenCall
        BY <2>3, GenScheduleValues, GenExprValues, GenCallValues
    <2>4. CASE GenBlockEnter \/ GenBlockLeave
        BY <2>4, GenBlockEnterValues, GenBlockLeaveValues
    <2>5. CASE GenShortCircuit \/ GenShortCircuitMerge
        BY <2>5, GenShortCircuitValues, GenShortCircuitMergeValues
    <2>6. CASE GenIfBranch \/ GenIfMerge
        BY <2>6, GenIfBranchValues, GenIfMergeValues
    <2>7. CASE GenWhileEnter \/ GenWhileBranch \/ GenWhileLoop
        BY <2>7, GenWhileEnterValues, GenWhileBranchValues, GenWhileLoopValues
    <2>8. CASE WalkJump \/ WalkReturn \/ WalkDescend
        BY <2>8, WalkJumpValues, WalkReturnValues, WalkDescendValues
    <2>9. CASE WalkSkip \/ WalkLink \/ WalkRewrite
        BY <2>9, QuietValues
    <2>. QED
        BY <2>1, <2>2, <2>3, <2>4, <2>5, <2>6, <2>7, <2>8, <2>9 DEF Generate
<1>2. CASE UNCHANGED vars
    BY <1>2, SameValues
<1>. QED
    BY <1>1, <1>2

\* What an item is still to read is a value already, or has its turn first,
\* in every state of the generator.
THEOREM ValuesAlways == Spec => []ValueInv
<1>1. IInv /\ IInv' /\ ValueInv /\ [Next]_vars => ValueInv'
    BY NextValues
<1>. QED
    BY <1>1, Invariance, InitIInv, InitValues, PTL DEF Spec

\* Every operand of every instruction that ir_generate_ssa emits is the
\* result of an instruction that was emitted before it and defines a value:
\* no node->result is read before its handler has set it, none names a STORE
\* or a DUMP, and no PHI is given the value of something emitted later.
THEOREM OperandsAlways == Spec => []OperandsDefined
<1>1. ValueInv => OperandsDefined
    BY DEF ValueInv
<1>. QED
    BY <1>1, ValuesAlways, PTL
=============================================================================
