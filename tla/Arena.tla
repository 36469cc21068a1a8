------------------------------- MODULE Arena -------------------------------
(***************************************************************************)
(* arena.c: a table of everything that was allocated, which is freed as a  *)
(* whole; and main(), which keeps two of them over one heap: the tree's,   *)
(* freed when the code has been generated, and the function's.             *)
(*                                                                         *)
(* The heap gives out any free address, also one it had before.  A holder  *)
(* is a place in the program that keeps a pointer: the place where a node  *)
(* is linked from, or block->instructions.                                 *)
(***************************************************************************)
EXTENDS Integers, Sequences

CONSTANTS
    Addresses, Null,
    TreeHolders, CodeHolders,  \* who keeps a pointer into which arena
    InitialCapacity            \* what arena_create is given

ASSUME NullAssumption == Null \notin Addresses
ASSUME HoldersAssumption == TreeHolders \cap CodeHolders = {}
ASSUME CapacityAssumption == InitialCapacity \in Nat \ {0}

VARIABLES
    heap,            \* the addresses that are allocated
    nodes, capacity, \* of each arena: its table up to size, and the room in it
    freed,           \* how far arena_free has come in each
    kept,            \* the pointer each holder has
    phase,           \* where main() is
    status           \* "run", "panic" (no memory), "lost" (pointer not found)
                     \* or "fault" (free of what is not allocated)

vars == <<heap, nodes, capacity, freed, kept, phase, status>>

Arenas == {"tree", "code"}
Holders == TreeHolders \cup CodeHolders
HoldersOf(a) == IF a = "tree" THEN TreeHolders ELSE CodeHolders

Init ==
    /\ heap = {}
    /\ nodes = [a \in Arenas |-> <<>>]
    /\ capacity = [a \in Arenas |-> InitialCapacity]
    /\ freed = [a \in Arenas |-> 0]
    /\ kept = [h \in Holders |-> Null]
    /\ phase = "parse"
    /\ status = "run"

-----------------------------------------------------------------------------
\* The arenas whose nodes the program uses: parse() writes the tree,
\* ir_create reads it and writes the code, and what follows uses the code.
Used ==
    CASE phase = "parse" -> {"tree"}
      [] phase = "generate" -> {"tree", "code"}
      [] phase \in {"free tree", "execute"} -> {"code"}
      [] OTHER -> {}

\* What is allocated in while it is used.
Grows ==
    CASE phase = "parse" -> {"tree"}
      [] phase \in {"generate", "execute"} -> {"code"}
      [] OTHER -> {}

\* (mutant: the table grows when it is longer than its room)
RoomLate(a) == Len(nodes[a]) <= capacity[a]

Room(a) == Len(nodes[a]) < capacity[a]

\* arena_alloc: the table doubles when it is full; the new node goes to its end.
Alloc(a, h) ==
    /\ status = "run"
    /\ a \in Grows
    /\ kept[h] = Null
    /\ \E p \in Addresses \ heap :
          /\ heap' = heap \cup {p}
          /\ nodes' = [nodes EXCEPT ![a] = Append(@, p)]
          /\ kept' = [kept EXCEPT ![h] = p]
    /\ capacity' = [capacity EXCEPT ![a] = IF Room(a) THEN @ ELSE @ * 2]
    /\ UNCHANGED <<freed, phase, status>>

\* The first entry of the table that is this pointer, or none.
Found(a, p) ==
    {i \in DOMAIN nodes[a] :
        nodes[a][i] = p /\ \A j \in 1..(i - 1) : nodes[a][j] # p}

\* (mutant: the table keeps the old address)
RecordedNever(h, p) == nodes

\* The code's table with a node of it moved.
Recorded(h, p) ==
    [nodes EXCEPT !["code"] =
        [i \in DOMAIN @ |-> IF i \in Found("code", kept[h]) THEN p ELSE @[i]]]

\* arena_realloc, which only the code's clients call: realloc moves the node or
\* not, and the caller keeps what it returns.
Realloc(h) ==
    /\ status = "run"
    /\ phase \in {"generate", "execute"}
    /\ kept[h] # Null
    /\ IF Found("code", kept[h]) = {}
       THEN status' = "lost" /\ UNCHANGED <<heap, kept, nodes>>
       ELSE /\ \E p \in (Addresses \ heap) \cup {kept[h]} :
                  /\ heap' = (heap \ {kept[h]}) \cup {p}
                  /\ kept' = [kept EXCEPT ![h] = p]
                  /\ nodes' = Recorded(h, p)
            /\ UNCHANGED status
    /\ UNCHANGED <<capacity, freed, phase>>

\* malloc or realloc has no memory.
OutOfMemory ==
    /\ status = "run"
    /\ Grows # {}
    /\ status' = "panic"
    /\ UNCHANGED <<heap, nodes, capacity, freed, kept, phase>>

-----------------------------------------------------------------------------
Frees == CASE phase = "free tree" -> {"tree"}
           [] phase = "free code" -> {"code"}
           [] OTHER -> {}

\* One turn of the loop of arena_free.
FreeNode(a) ==
    /\ status = "run"
    /\ a \in Frees
    /\ freed[a] < Len(nodes[a])
    /\ LET p == nodes[a][freed[a] + 1]
       IN  IF p \in heap
           THEN heap' = heap \ {p} /\ UNCHANGED status
           ELSE status' = "fault" /\ UNCHANGED heap
    /\ freed' = [freed EXCEPT ![a] = @ + 1]
    /\ UNCHANGED <<nodes, capacity, kept, phase>>

\* (mutant: the tree is freed before the code is generated)
AfterFreedFirst ==
    CASE phase = "parse" -> "free tree"
      [] phase = "generate" -> "execute"
      [] phase = "free tree" -> "generate"
      [] phase = "execute" -> "free code"
      [] OTHER -> "done"

\* What main() does next.
After ==
    CASE phase = "parse" -> "generate"
      [] phase = "generate" -> "free tree"
      [] phase = "free tree" -> "execute"
      [] phase = "execute" -> "free code"
      [] OTHER -> "done"

Proceed ==
    /\ status = "run"
    /\ phase # "done"
    /\ \A a \in Frees : freed[a] = Len(nodes[a])
    /\ phase' = After
    /\ UNCHANGED <<heap, nodes, capacity, freed, kept, status>>

Rest == (status # "run" \/ phase = "done") /\ UNCHANGED vars

Next ==
    \/ \E a \in Arenas : \E h \in HoldersOf(a) : Alloc(a, h)
    \/ \E h \in CodeHolders : Realloc(h)
    \/ OutOfMemory
    \/ \E a \in Arenas : FreeNode(a)
    \/ Proceed
    \/ Rest

Spec == Init /\ [][Next]_vars

-----------------------------------------------------------------------------
\* The entries of the tables that arena_free has not come to.
Entries == UNION {{a} \X ((freed[a] + 1)..Len(nodes[a])) : a \in Arenas}

\* Every address that is allocated is in one table, once, and what is in a
\* table is allocated, while addresses move and are given out again; so
\* arena_free frees everything once, and nothing of the other arena
\* (arena.c:23-26, 45, 55).  The table is written inside its room.
Owned ==
    /\ heap = {nodes[e[1]][e[2]] : e \in Entries}
    /\ \A e, f \in Entries : nodes[e[1]][e[2]] = nodes[f[1]][f[2]] => e = f
    /\ \A a \in Arenas : Len(nodes[a]) <= capacity[a]
    /\ status # "fault"

\* What a part of the program can follow is allocated, is in the table of its
\* own arena, where arena_realloc looks for it, and is no other holder's, so
\* that the panic of arena_realloc is not reached (arena.c:60).
KeptLive ==
    /\ status # "lost"
    /\ \A a \in Used : \A h \in HoldersOf(a) :
          kept[h] # Null =>
              /\ kept[h] \in heap
              /\ Found(a, kept[h]) # {}
              /\ \A g \in Holders : kept[g] = kept[h] /\ g # h => g \notin HoldersOf(a)
=============================================================================
