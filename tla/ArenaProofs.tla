---------------------------- MODULE ArenaProofs ----------------------------
(***************************************************************************)
(* Theorems about the two arenas of main(), for every set of addresses and *)
(* holders: what is allocated is in one table, once, and what the program  *)
(* can reach is allocated.                                                 *)
(***************************************************************************)
EXTENDS Arena, TLAPS

Phases == {"parse", "generate", "free tree", "execute", "free code", "done"}

\* The places of a table that arena_free has not come to.
Live(a) == (freed[a] + 1)..Len(nodes[a])

Typed ==
    /\ heap \subseteq Addresses
    /\ nodes \in [Arenas -> Seq(Addresses)]
    /\ capacity \in [Arenas -> Nat \ {0}]
    /\ freed \in [Arenas -> Nat]
    /\ kept \in [Holders -> Addresses \cup {Null}]
    /\ phase \in Phases
    /\ status \in {"run", "panic"}

\* A table has room for what is in it.
Sized ==
    \A a \in Arenas : freed[a] <= Len(nodes[a]) /\ Len(nodes[a]) <= capacity[a]

\* No address is in the tables twice.
Once ==
    \A a, b \in Arenas : \A i \in Live(a), j \in Live(b) :
        nodes[a][i] = nodes[b][j] => a = b /\ i = j

\* What is in a table is allocated, and nothing else.
Exact == \A p : p \in heap <=> \E a \in Arenas : \E i \in Live(a) : nodes[a][i] = p

\* An arena is whole until main() frees it.
WholeYet ==
    /\ phase \in {"parse", "generate"} => freed["tree"] = 0
    /\ phase \in {"parse", "generate", "free tree", "execute"} => freed["code"] = 0

\* Every holder has a node of its arena, and no other holder has it.
KeptIn ==
    \A a \in Arenas : freed[a] = 0 =>
        \A h \in HoldersOf(a) : kept[h] # Null =>
            /\ \E i \in DOMAIN nodes[a] : nodes[a][i] = kept[h]
            /\ \A g \in HoldersOf(a) : kept[g] = kept[h] => g = h

IInv == Typed /\ Sized /\ Once /\ Exact /\ WholeYet /\ KeptIn

-----------------------------------------------------------------------------
LEMMA HoldersFacts ==
    /\ \A a \in Arenas : HoldersOf(a) \subseteq Holders
    /\ \A a, b \in Arenas : \A h \in HoldersOf(a) : h \in HoldersOf(b) => a = b
BY HoldersAssumption DEF HoldersOf, Holders, Arenas

LEMMA InitInv == Init => IInv
<1> SUFFICES ASSUME Init
             PROVE  IInv
  OBVIOUS
<1>1. \A a \in Arenas : nodes[a] = <<>> /\ freed[a] = 0 /\ capacity[a] = InitialCapacity
  BY DEF Init
<1>2. \A a \in Arenas : Live(a) = {}
  BY <1>1 DEF Live
<1>3. Typed
  BY CapacityAssumption DEF Init, Typed, Phases
<1>4. Sized
  BY <1>1, CapacityAssumption DEF Sized
<1>5. Once /\ Exact
  BY <1>2 DEF Once, Exact, Init
<1>6. WholeYet
  BY DEF Init, WholeYet, Arenas
<1>7. KeptIn
  BY HoldersFacts DEF Init, KeptIn
<1> QED
  BY <1>3, <1>4, <1>5, <1>6, <1>7 DEF IInv

\* Where an arena grows or is used, it is whole.
LEMMA UsedWhole ==
    ASSUME IInv
    PROVE  /\ \A a \in Grows \cup Used : a \in Arenas /\ freed[a] = 0
           /\ \A a \in Frees : a \in Arenas
BY DEF IInv, WholeYet, Grows, Used, Frees, Arenas, Typed, Phases

\* The place of an address in a table that is whole is the only one.
LEMMA FoundOnce ==
    ASSUME IInv, NEW a \in Arenas, freed[a] = 0, NEW i \in DOMAIN nodes[a]
    PROVE  Found(a, nodes[a][i]) = {i}
<1>1. nodes[a] \in Seq(Addresses)
  BY DEF IInv, Typed
<1>2. DOMAIN nodes[a] = Live(a) /\ DOMAIN nodes[a] = 1..Len(nodes[a])
  BY <1>1 DEF Live
<1>3. \A j \in DOMAIN nodes[a] : nodes[a][j] = nodes[a][i] => j = i
  BY <1>2 DEF IInv, Once
<1> QED
  BY <1>1, <1>2, <1>3 DEF Found

-----------------------------------------------------------------------------
(* The steps.                                                                *)

LEMMA AllocInv ==
    ASSUME IInv, NEW a \in Arenas, NEW h \in HoldersOf(a), Alloc(a, h)
    PROVE  IInv'
<1>1. PICK p \in Addresses \ heap :
          /\ heap' = heap \cup {p}
          /\ nodes' = [nodes EXCEPT ![a] = Append(nodes[a], p)]
          /\ kept' = [kept EXCEPT ![h] = p]
  BY DEF Alloc
<1>2. /\ kept[h] = Null
      /\ capacity' = [capacity EXCEPT ![a] = IF Room(a) THEN capacity[a] ELSE capacity[a] * 2]
      /\ UNCHANGED <<freed, phase, status>>
      /\ freed[a] = 0
  BY UsedWhole DEF Alloc
<1>3. /\ nodes \in [Arenas -> Seq(Addresses)]
      /\ capacity \in [Arenas -> Nat \ {0}] /\ freed \in [Arenas -> Nat]
      /\ \A b \in Arenas : freed[b] <= Len(nodes[b]) /\ Len(nodes[b]) <= capacity[b]
  BY DEF IInv, Typed, Sized
<1> DEFINE n == Len(nodes[a]) + 1
<1>4. /\ nodes' \in [Arenas -> Seq(Addresses)]
      /\ Len(nodes'[a]) = n /\ nodes'[a][n] = p
      /\ \A i \in 1..Len(nodes[a]) : nodes'[a][i] = nodes[a][i]
      /\ \A b \in Arenas : b # a => nodes'[b] = nodes[b]
  <2>1. nodes[a] \in Seq(Addresses) /\ Append(nodes[a], p) \in Seq(Addresses)
    BY <1>3
  <2>2. /\ Len(Append(nodes[a], p)) = n /\ Append(nodes[a], p)[n] = p
        /\ \A i \in 1..Len(nodes[a]) : Append(nodes[a], p)[i] = nodes[a][i]
    BY <2>1
  <2>3. nodes'[a] = Append(nodes[a], p) /\ \A b \in Arenas : b # a => nodes'[b] = nodes[b]
    BY <1>1, <1>3
  <2> QED
    BY <1>1, <1>3, <2>1, <2>2, <2>3
<1>5. /\ Live(a)' = Live(a) \cup {n} /\ n \notin Live(a)
      /\ \A b \in Arenas : b # a => Live(b)' = Live(b)
      /\ Live(a) = 1..Len(nodes[a])
  BY <1>2, <1>3, <1>4 DEF Live
<1>6. \A b \in Arenas, i \in Nat : i \in Live(b) => nodes[b][i] \in heap /\ nodes'[b][i] = nodes[b][i]
  BY <1>4, <1>5 DEF IInv, Exact
<1>7. Typed'
  <2>1. h \in Holders
    BY HoldersFacts
  <2>2. kept' \in [Holders -> Addresses \cup {Null}]
    BY <1>1, <2>1 DEF IInv, Typed
  <2>3. capacity' \in [Arenas -> Nat \ {0}]
    <3>1. capacity[a] * 2 \in Nat \ {0}
      BY <1>3
    <3> QED
      BY <1>2, <1>3, <3>1
  <2> QED
    BY <1>1, <1>2, <1>4, <2>2, <2>3 DEF IInv, Typed
<1>8. Sized'
  <2>1. ASSUME NEW b \in Arenas, b # a
        PROVE  capacity'[b] = capacity[b]
    BY <1>2, <1>3, <2>1
  <2>2. n <= capacity'[a]
    <3>1. CASE Room(a)
      BY <1>2, <1>3, <3>1 DEF Room
    <3>2. CASE ~Room(a)
      <4>1. capacity'[a] = capacity[a] * 2
        BY <1>2, <1>3, <3>2
      <4> QED
        BY <1>3, <4>1
    <3> QED
      BY <3>1, <3>2
  <2> QED
    BY <1>2, <1>3, <1>4, <2>1, <2>2 DEF Sized
<1>9. Once'
  <2> SUFFICES ASSUME NEW b \in Arenas, NEW c \in Arenas,
                      NEW i \in Live(b)', NEW j \in Live(c)',
                      nodes'[b][i] = nodes'[c][j]
               PROVE  b = c /\ i = j
    BY DEF Once
  <2>1. (i \in Live(b) \/ (b = a /\ i = n)) /\ (j \in Live(c) \/ (c = a /\ j = n))
    BY <1>5
  <2>2. i \in Nat /\ j \in Nat
    <3>1. \A d \in Arenas : Live(d) \subseteq Nat
      BY <1>3 DEF Live
    <3>2. n \in Nat
      BY <1>3
    <3> HIDE DEF n
    <3> QED
      BY <2>1, <3>1, <3>2
  <2>3. CASE i \in Live(b) /\ j \in Live(c)
    <3>1. nodes[b][i] = nodes[c][j]
      BY <1>6, <2>2, <2>3
    <3> QED
      BY <2>3, <3>1 DEF IInv, Once
  <2>4. CASE i \in Live(b) /\ c = a /\ j = n
    <3>1. nodes'[b][i] \in heap
      BY <1>6, <2>2, <2>4
    <3>2. nodes'[c][j] = p
      BY <1>4, <2>4
    <3> QED
      BY <3>1, <3>2
  <2>5. CASE j \in Live(c) /\ b = a /\ i = n
    <3>1. nodes'[c][j] \in heap
      BY <1>6, <2>2, <2>5
    <3>2. nodes'[b][i] = p
      BY <1>4, <2>5
    <3> QED
      BY <3>1, <3>2
  <2> QED
    BY <2>1, <2>3, <2>4, <2>5
<1>10. Exact'
  <2> SUFFICES ASSUME NEW q
               PROVE  q \in heap' <=> \E b \in Arenas : \E i \in Live(b)' : nodes'[b][i] = q
    BY DEF Exact
  <2>1. \A b \in Arenas : \A i \in Live(b) : i \in Nat
    BY <1>3 DEF Live
  <2>2. ASSUME q \in heap
        PROVE  \E b \in Arenas : \E i \in Live(b)' : nodes'[b][i] = q
    <3>1. PICK b \in Arenas : \E i \in Live(b) : nodes[b][i] = q
      BY <2>2 DEF IInv, Exact
    <3> QED
      BY <1>5, <1>6, <2>1, <3>1
  <2>3. ASSUME NEW b \in Arenas, NEW i \in Live(b)', nodes'[b][i] = q
        PROVE  q \in heap'
    BY <1>1, <1>4, <1>5, <1>6, <2>1, <2>3
  <2>4. n \in Live(a)' /\ nodes'[a][n] = p
    BY <1>4, <1>5
  <2> QED
    BY <1>1, <2>2, <2>3, <2>4
<1>11. WholeYet'
  BY <1>2 DEF IInv, WholeYet
<1>12. KeptIn'
  <2> SUFFICES ASSUME NEW b \in Arenas, freed[b] = 0,
                      NEW g \in HoldersOf(b), kept'[g] # Null
               PROVE  /\ \E i \in DOMAIN nodes'[b] : nodes'[b][i] = kept'[g]
                      /\ \A f \in HoldersOf(b) : kept'[f] = kept'[g] => f = g
    BY <1>2 DEF KeptIn, HoldersOf
  <2>0. kept'[h] = p /\ \A f \in Holders : f # h => kept'[f] = kept[f]
    BY <1>1, HoldersFacts DEF IInv, Typed
  <2>1. \A f \in HoldersOf(b) : f # h /\ kept'[f] # Null =>
            \E i \in DOMAIN nodes[b] : nodes[b][i] = kept'[f] /\ kept'[f] \in heap
    <3>1. Live(b) = DOMAIN nodes[b]
      BY <1>3 DEF Live
    <3> QED
      BY <2>0, <3>1, <1>6, HoldersFacts DEF IInv, KeptIn, Exact
  <2>2. \A i \in DOMAIN nodes[b] : i \in DOMAIN nodes'[b] /\ nodes'[b][i] = nodes[b][i]
    <3>1. CASE b = a
      <4>1. /\ DOMAIN nodes[a] = 1..Len(nodes[a])
            /\ DOMAIN nodes'[a] = 1..n
        BY <1>3, <1>4
      <4> QED
        BY <1>3, <1>4, <3>1, <4>1
    <3>2. CASE b # a
      BY <1>4, <3>2
    <3> QED
      BY <3>1, <3>2
  <2>3. p # Null
    BY NullAssumption
  <2>4. CASE g = h
    <3>1. b = a
      BY <2>4, HoldersFacts
    <3>2. n \in DOMAIN nodes'[a]
      BY <1>3, <1>4
    <3> QED
      BY <1>1, <1>4, <2>0, <2>1, <2>3, <2>4, <3>1, <3>2
  <2>5. CASE g # h
    <3>1. \E i \in DOMAIN nodes'[b] : nodes'[b][i] = kept'[g]
      BY <2>1, <2>2, <2>5
    <3>2. ASSUME NEW f \in HoldersOf(b), kept'[f] = kept'[g]
          PROVE  f = g
      <4>1. f # h
        BY <1>1, <2>0, <2>1, <2>5, <3>2
      <4>2. kept[f] = kept[g] /\ kept[g] # Null
        BY <2>0, <2>5, <3>2, <4>1, HoldersFacts
      <4> QED
        BY <4>2 DEF IInv, KeptIn
    <3> QED
      BY <3>1, <3>2
  <2> QED
    BY <2>4, <2>5
<1> QED
  BY <1>7, <1>8, <1>9, <1>10, <1>11, <1>12 DEF IInv


LEMMA ReallocInv ==
    ASSUME IInv, NEW h \in CodeHolders, Realloc(h)
    PROVE  IInv'
<1> DEFINE T == nodes["code"]
<1>0. /\ "code" \in Arenas /\ "tree" \in Arenas
      /\ h \in HoldersOf("code") /\ h \in Holders
      /\ HoldersOf("code") = CodeHolders
  BY DEF Arenas, HoldersOf, Holders
<1>1. freed["code"] = 0 /\ kept[h] # Null
  BY DEF Realloc, IInv, WholeYet
<1>2. /\ nodes \in [Arenas -> Seq(Addresses)] /\ freed \in [Arenas -> Nat]
      /\ T \in Seq(Addresses)
      /\ kept \in [Holders -> Addresses \cup {Null}]
  BY <1>0 DEF IInv, Typed
<1>3. PICK m \in DOMAIN T : T[m] = kept[h]
  BY <1>0, <1>1 DEF IInv, KeptIn
<1>4. Found("code", kept[h]) = {m}
  BY <1>0, <1>1, <1>3, FoundOnce
<1>5. PICK p \in (Addresses \ heap) \cup {kept[h]} :
          /\ heap' = (heap \ {kept[h]}) \cup {p}
          /\ kept' = [kept EXCEPT ![h] = p]
          /\ nodes' = Recorded(h, p)
  BY <1>4 DEF Realloc
<1>6. UNCHANGED <<capacity, freed, phase, status>>
  BY <1>4 DEF Realloc
<1>7. /\ m \in Live("code") /\ Live("code") = 1..Len(T) /\ DOMAIN T = 1..Len(T)
      /\ T[m] \in Addresses
  BY <1>1, <1>2, <1>3 DEF Live
<1>8. kept[h] \in heap
  BY <1>0, <1>3, <1>7 DEF IInv, Exact
<1>9. p \in Addresses /\ (p = kept[h] \/ p \notin heap)
  BY <1>3, <1>5, <1>7
<1> DEFINE U == [i \in 1..Len(T) |-> IF i = m THEN p ELSE T[i]]
<1>10. /\ nodes' = [nodes EXCEPT !["code"] = U]
       /\ U \in Seq(Addresses) /\ Len(U) = Len(T)
       /\ U[m] = p /\ \A i \in 1..Len(T) : i # m => U[i] = T[i]
  <2>1. \A i \in 1..Len(T) : U[i] \in Addresses
    BY <1>2, <1>9
  <2>2. U \in Seq(Addresses) /\ Len(U) = Len(T)
    <3>1. Len(T) \in Nat
      BY <1>2
    <3>2. U \in [1..Len(T) -> Addresses]
      BY <2>1
    <3> HIDE DEF U, T
    <3> QED
      BY <3>1, <3>2
  <2>3. nodes' = [nodes EXCEPT !["code"] = U]
    BY <1>4, <1>5, <1>7 DEF Recorded
  <2> QED
    BY <1>7, <2>2, <2>3
<1> HIDE DEF U
<1>11. /\ nodes' \in [Arenas -> Seq(Addresses)]
       /\ nodes'["code"] = U /\ nodes'["tree"] = nodes["tree"]
       /\ \A a \in Arenas : Len(nodes'[a]) = Len(nodes[a]) /\ DOMAIN nodes'[a] = DOMAIN nodes[a]
  BY <1>0, <1>2, <1>7, <1>10 DEF Arenas
<1>12. \A a \in Arenas : Live(a)' = Live(a)
  BY <1>6, <1>11 DEF Live
<1>13. \A a \in Arenas : \A i \in Live(a) :
          /\ nodes[a][i] \in heap
          /\ nodes'[a][i] = IF a = "code" /\ i = m THEN p ELSE nodes[a][i]
  <2>1. \A a \in Arenas : \A i \in Live(a) : nodes[a][i] \in heap
    BY DEF IInv, Exact
  <2> QED
    BY <1>7, <1>10, <1>11, <2>1 DEF Arenas
<1>14. \A a \in Arenas : \A i \in Live(a) : nodes[a][i] = kept[h] => a = "code" /\ i = m
  BY <1>0, <1>3, <1>7 DEF IInv, Once
<1>15. Typed'
  <2>1. heap' \subseteq Addresses
    BY <1>5, <1>9 DEF IInv, Typed
  <2>2. kept' \in [Holders -> Addresses \cup {Null}]
    BY <1>0, <1>2, <1>5, <1>9
  <2> QED
    BY <1>6, <1>11, <2>1, <2>2 DEF IInv, Typed
<1>16. Sized'
  BY <1>6, <1>11 DEF IInv, Sized
<1>17. Once'
  <2> SUFFICES ASSUME NEW b \in Arenas, NEW c \in Arenas,
                      NEW i \in Live(b), NEW j \in Live(c),
                      nodes'[b][i] = nodes'[c][j]
               PROVE  b = c /\ i = j
    BY <1>12 DEF Once
  <2>1. CASE (b = "code" /\ i = m) <=> (c = "code" /\ j = m)
    BY <1>13, <2>1 DEF IInv, Once
  <2>2. CASE b = "code" /\ i = m /\ ~(c = "code" /\ j = m)
    BY <1>9, <1>13, <1>14, <2>2
  <2>3. CASE c = "code" /\ j = m /\ ~(b = "code" /\ i = m)
    BY <1>9, <1>13, <1>14, <2>3
  <2> QED
    BY <2>1, <2>2, <2>3
<1>18. Exact'
  <2> SUFFICES ASSUME NEW q
               PROVE  q \in heap' <=> \E a \in Arenas : \E i \in Live(a) : nodes'[a][i] = q
    BY <1>12 DEF Exact
  <2>1. ASSUME q \in heap, q # kept[h]
        PROVE  \E a \in Arenas : \E i \in Live(a) : nodes'[a][i] = q
    <3>1. PICK a \in Arenas : \E i \in Live(a) : nodes[a][i] = q
      BY <2>1 DEF IInv, Exact
    <3> QED
      BY <1>3, <1>13, <2>1, <3>1
  <2>2. "code" \in Arenas /\ m \in Live("code") /\ nodes'["code"][m] = p
    BY <1>0, <1>7, <1>13
  <2>3. ASSUME NEW a \in Arenas, NEW i \in Live(a), nodes'[a][i] = q
        PROVE  q \in heap'
    BY <1>5, <1>13, <1>14, <2>3
  <2> QED
    BY <1>5, <2>1, <2>2, <2>3
<1>19. WholeYet'
  BY <1>6 DEF IInv, WholeYet
<1>20. KeptIn'
  <2> SUFFICES ASSUME NEW b \in Arenas, freed[b] = 0,
                      NEW g \in HoldersOf(b), kept'[g] # Null
               PROVE  /\ \E i \in DOMAIN nodes'[b] : nodes'[b][i] = kept'[g]
                      /\ \A f \in HoldersOf(b) : kept'[f] = kept'[g] => f = g
    BY <1>6 DEF KeptIn, HoldersOf
  <2>0. /\ kept'[h] = p /\ \A f \in Holders : f # h => kept'[f] = kept[f]
        /\ Live(b) = DOMAIN nodes[b]
        /\ DOMAIN nodes'[b] = DOMAIN nodes[b]
    BY <1>0, <1>2, <1>5, <1>11 DEF Live
  <2>1. ASSUME NEW f \in HoldersOf(b), f # h, kept'[f] # Null
        PROVE  /\ kept'[f] = kept[f] /\ kept[f] \in heap
               /\ b = "code" => kept[f] # kept[h]
               /\ \E i \in DOMAIN nodes[b] : nodes'[b][i] = kept[f]
    <3>1. kept'[f] = kept[f] /\ f \in Holders
      BY <2>0, <2>1, HoldersFacts
    <3>2. PICK i \in DOMAIN nodes[b] : nodes[b][i] = kept[f]
      BY <2>1, <3>1 DEF IInv, KeptIn
    <3>3. b = "code" => kept[f] # kept[h]
      BY <1>0, <1>1, <2>1 DEF IInv, KeptIn
    <3>4. ~(b = "code" /\ i = m)
      BY <1>3, <3>2, <3>3
    <3> QED
      BY <1>13, <2>0, <3>1, <3>2, <3>3, <3>4
  <2>2. p # Null /\ "code" \in Arenas
    BY <1>0, <1>9, NullAssumption
  <2>3. CASE g = h
    <3>1. b = "code"
      BY <1>0, <2>3, HoldersFacts
    <3>2. m \in DOMAIN nodes'[b] /\ nodes'[b][m] = p
      BY <1>7, <1>10, <1>11, <2>0, <3>1
    <3>3. ASSUME NEW f \in HoldersOf(b), kept'[f] = p
          PROVE  f = h
      BY <1>9, <2>1, <2>2, <3>1, <3>3
    <3> QED
      BY <2>0, <2>3, <3>2, <3>3
  <2>4. CASE g # h
    <3>1. /\ kept'[g] = kept[g] /\ kept[g] \in heap /\ kept[g] # Null
          /\ \E i \in DOMAIN nodes'[b] : nodes'[b][i] = kept'[g]
      BY <2>0, <2>1, <2>4
    <3>2. ASSUME NEW f \in HoldersOf(b), kept'[f] = kept'[g]
          PROVE  f = g
      <4>1. CASE f = h
        <5>1. b = "code"
          BY <1>0, <4>1, HoldersFacts
        <5> QED
          BY <1>9, <2>0, <2>1, <2>4, <3>1, <3>2, <4>1, <5>1
      <4>2. CASE f # h
        <5>1. kept[f] = kept[g]
          BY <2>0, <3>1, <3>2, <4>2, HoldersFacts
        <5> QED
          BY <3>1, <5>1 DEF IInv, KeptIn
      <4> QED
        BY <4>1, <4>2
    <3> QED
      BY <3>1, <3>2
  <2> QED
    BY <2>3, <2>4
<1> QED
  BY <1>15, <1>16, <1>17, <1>18, <1>19, <1>20 DEF IInv


\* What arena_free comes to is allocated: nothing else has the address.
LEMMA FreeNodeInv ==
    ASSUME IInv, NEW a \in Arenas, FreeNode(a)
    PROVE  IInv'
<1> DEFINE n == freed[a] + 1
           p == nodes[a][n]
<1>1. /\ freed \in [Arenas -> Nat] /\ nodes \in [Arenas -> Seq(Addresses)]
      /\ freed[a] < Len(nodes[a]) /\ n \in Nat /\ n \in Live(a) /\ a \in Frees
  BY DEF FreeNode, IInv, Typed, Live
<1>2. p \in heap
  BY <1>1 DEF IInv, Exact
<1>3. /\ heap' = heap \ {p}
      /\ freed' = [freed EXCEPT ![a] = n]
      /\ UNCHANGED <<nodes, capacity, kept, phase, status>>
  BY <1>2 DEF FreeNode
<1>4. /\ freed'[a] = n /\ freed' \in [Arenas -> Nat]
      /\ \A b \in Arenas : b # a => freed'[b] = freed[b]
  BY <1>1, <1>3
<1>5. /\ Live(a)' = Live(a) \ {n}
      /\ \A b \in Arenas : b # a => Live(b)' = Live(b)
  BY <1>1, <1>3, <1>4 DEF Live
<1>6. \A b \in Arenas : \A i \in Live(b) : nodes[b][i] = p => b = a /\ i = n
  BY <1>1 DEF IInv, Once
<1> HIDE DEF n, p
<1>7. Typed'
  BY <1>3, <1>4 DEF IInv, Typed
<1>8. Sized'
  BY <1>1, <1>3, <1>4 DEF IInv, Sized, n
<1>9. \A b \in Arenas : Live(b)' \subseteq Live(b)
  BY <1>5
<1>10. Once'
  BY <1>3, <1>9 DEF IInv, Once
<1>11. Exact'
  <2> SUFFICES ASSUME NEW q
               PROVE  q \in heap' <=> \E b \in Arenas : \E i \in Live(b)' : nodes[b][i] = q
    BY <1>3 DEF Exact
  <2>1. ASSUME q \in heap, q # p
        PROVE  \E b \in Arenas : \E i \in Live(b)' : nodes[b][i] = q
    <3>1. PICK b \in Arenas : \E i \in Live(b) : nodes[b][i] = q
      BY <2>1 DEF IInv, Exact
    <3>2. PICK i \in Live(b) : nodes[b][i] = q
      BY <3>1
    <3>3. i \in Live(b)'
      BY <1>5, <2>1, <3>2 DEF p
    <3> QED
      BY <3>2, <3>3
  <2>2. ASSUME NEW b \in Arenas, NEW i \in Live(b)', nodes[b][i] = q
        PROVE  q \in heap /\ q # p
    <3>1. i \in Live(b) /\ ~(b = a /\ i = n)
      BY <1>5, <2>2
    <3> QED
      BY <1>6, <2>2, <3>1 DEF IInv, Exact
  <2> QED
    BY <1>3, <2>1, <2>2
<1>12. WholeYet'
  BY <1>1, <1>3, <1>4 DEF IInv, WholeYet, Frees, Arenas
<1>13. KeptIn'
  <2>1. \A b \in Arenas : freed'[b] = 0 => freed[b] = 0
    BY <1>1, <1>4 DEF n
  <2> QED
    BY <1>3, <2>1 DEF IInv, KeptIn, HoldersOf
<1> QED
  BY <1>7, <1>8, <1>10, <1>11, <1>12, <1>13 DEF IInv

\* main() goes on with a tree, or code, that it has not begun to free.
LEMMA ProceedInv ==
    ASSUME IInv, Proceed
    PROVE  IInv'
<1>1. UNCHANGED <<heap, nodes, capacity, freed, kept, status>> /\ phase' = After
  BY DEF Proceed
<1>2. phase' \in Phases
  BY <1>1 DEF After, Phases
<1>3. WholeYet'
  BY <1>1 DEF IInv, WholeYet, After
<1> QED
  BY <1>1, <1>2, <1>3 DEF IInv, Typed, Sized, Once, Exact, KeptIn, Live, HoldersOf

LEMMA NothingMoves ==
    ASSUME IInv, UNCHANGED <<heap, nodes, capacity, freed, kept, phase>>,
           status' \in {"run", "panic"}
    PROVE  IInv'
<1>1. Typed' /\ Sized' /\ WholeYet'
  BY DEF IInv, Typed, Sized, WholeYet
<1>2. \A a : Live(a)' = Live(a)
  BY DEF Live
<1>3. Once'
  BY <1>2 DEF IInv, Once
<1>4. Exact'
  BY <1>2 DEF IInv, Exact
<1>5. KeptIn'
  BY DEF IInv, KeptIn, HoldersOf
<1> QED
  BY <1>1, <1>3, <1>4, <1>5 DEF IInv

LEMMA StepInv == IInv /\ [Next]_vars => IInv'
<1> SUFFICES ASSUME IInv, [Next]_vars
             PROVE  IInv'
  OBVIOUS
<1>1. ASSUME NEW a \in Arenas, NEW h \in HoldersOf(a), Alloc(a, h)
      PROVE  IInv'
  BY <1>1, AllocInv
<1>2. ASSUME NEW h \in CodeHolders, Realloc(h)
      PROVE  IInv'
  BY <1>2, ReallocInv
<1>3. CASE OutOfMemory
  BY <1>3, NothingMoves DEF OutOfMemory
<1>4. ASSUME NEW a \in Arenas, FreeNode(a)
      PROVE  IInv'
  BY <1>4, FreeNodeInv
<1>5. CASE Proceed
  BY <1>5, ProceedInv
<1>6. CASE UNCHANGED vars
  BY <1>6, NothingMoves DEF vars, IInv, Typed
<1> QED
  BY <1>1, <1>2, <1>3, <1>4, <1>5, <1>6 DEF Next, Rest

-----------------------------------------------------------------------------
LEMMA OwnedFollows == IInv => Owned
<1> SUFFICES ASSUME IInv
             PROVE  Owned
  OBVIOUS
<1>1. \A e \in Entries : e[1] \in Arenas /\ e[2] \in Live(e[1]) /\ e = <<e[1], e[2]>>
  BY DEF Entries, Live
<1>2. \A a \in Arenas : \A i \in Live(a) : <<a, i>> \in Entries
  BY DEF Entries, Live
<1>3. heap = {nodes[e[1]][e[2]] : e \in Entries}
  <2>1. ASSUME NEW p \in heap
        PROVE  \E e \in Entries : p = nodes[e[1]][e[2]]
    <3>1. PICK a \in Arenas : \E i \in Live(a) : nodes[a][i] = p
      BY DEF IInv, Exact
    <3>2. PICK i \in Live(a) : nodes[a][i] = p
      BY <3>1
    <3>3. <<a, i>> \in Entries /\ p = nodes[<<a, i>>[1]][<<a, i>>[2]]
      BY <1>2, <3>2
    <3> QED
      BY <3>3
  <2>2. ASSUME NEW e \in Entries
        PROVE  nodes[e[1]][e[2]] \in heap
    BY <1>1 DEF IInv, Exact
  <2> QED
    BY <2>1, <2>2
<1>4. \A e, f \in Entries : nodes[e[1]][e[2]] = nodes[f[1]][f[2]] => e = f
  <2> SUFFICES ASSUME NEW e \in Entries, NEW f \in Entries,
                      nodes[e[1]][e[2]] = nodes[f[1]][f[2]]
               PROVE  e = f
    OBVIOUS
  <2>1. e[1] = f[1] /\ e[2] = f[2]
    BY <1>1 DEF IInv, Once
  <2> QED
    BY <1>1, <2>1
<1>5. \A a \in Arenas : Len(nodes[a]) <= capacity[a]
  BY DEF IInv, Sized
<1>6. status # "fault"
  BY DEF IInv, Typed
<1> QED
  BY <1>3, <1>4, <1>5, <1>6 DEF Owned

LEMMA KeptLiveFollows == IInv => KeptLive
<1> SUFFICES ASSUME IInv
             PROVE  KeptLive
  OBVIOUS
<1>1. status # "lost"
  BY DEF IInv, Typed
<1>2. ASSUME NEW a \in Used, NEW h \in HoldersOf(a), kept[h] # Null
      PROVE  /\ kept[h] \in heap
             /\ Found(a, kept[h]) # {}
             /\ \A g \in Holders : kept[g] = kept[h] /\ g # h => g \notin HoldersOf(a)
  <2>1. a \in Arenas /\ freed[a] = 0
    BY UsedWhole
  <2>2. PICK i \in DOMAIN nodes[a] : nodes[a][i] = kept[h]
    BY <1>2, <2>1 DEF IInv, KeptIn
  <2>3. Found(a, kept[h]) = {i}
    BY <2>1, <2>2, FoundOnce
  <2>4. i \in Live(a)
    BY <2>1, <2>2 DEF Live, IInv, Typed
  <2>5. kept[h] \in heap
    BY <2>1, <2>2, <2>4 DEF IInv, Exact
  <2> QED
    BY <1>2, <2>1, <2>3, <2>5 DEF IInv, KeptIn
<1> QED
  BY <1>1, <1>2 DEF KeptLive

\* What every run keeps, for every set of addresses: the tables hold what is
\* allocated, once, and every holder has a node of its own arena (arena.c).
THEOREM Invariance == Spec => []IInv
<1>1. Init => IInv
  BY InitInv
<1>2. IInv /\ [Next]_vars => IInv'
  BY StepInv
<1> QED
  BY <1>1, <1>2, PTL DEF Spec

\* Wherever realloc moves nodes and whatever address the heap gives out again:
\* arena_free frees what is allocated, once (arena.c:23-26, 45, 55).
THEOREM OwnedAlways == Spec => []Owned
<1> QED
  BY Invariance, OwnedFollows, PTL

\* No part of main() keeps a pointer that was freed or has moved, and
\* arena_realloc finds what it is given (arena.c:60, knight.c:72).
THEOREM KeptLiveAlways == Spec => []KeptLive
<1> QED
  BY Invariance, KeptLiveFollows, PTL
=============================================================================
