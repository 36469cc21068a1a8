---------------------------- MODULE SharedLemmas ----------------------------
(***************************************************************************)
(* Facts that the proofs about several components share: about the         *)
(* definitions of Parser, and about numbers.                               *)
(***************************************************************************)
EXTENDS Parser, FiniteSetTheorems, TLAPS

\* How many expressions follow a token of each class.
LEMMA Arities ==
    /\ \A k \in UnaryKinds : Arity(k) = 1
    /\ \A k \in BinaryKinds : Arity(k) = 2
    /\ \A k \in TernaryKinds : Arity(k) = 3
    /\ \A k \in QuaternaryKinds : Arity(k) = 4
    /\ \A k \in LeafKinds : Arity(k) = 0
<1>. USE DEF UnaryKinds, BinaryKinds, TernaryKinds, QuaternaryKinds, LeafKinds,
         LiteralKinds, NullaryKinds
<1>1. \A k \in LeafKinds : Arity(k) = 0
    BY DEF Arity
<1>2. \A k \in UnaryKinds : Arity(k) = 1
    BY DEF Arity
<1>3. \A k \in BinaryKinds : Arity(k) = 2
    BY DEF Arity
<1>4. \A k \in TernaryKinds : Arity(k) = 3
    BY DEF Arity
<1>5. \A k \in QuaternaryKinds : Arity(k) = 4
    BY DEF Arity
<1>. QED
    BY <1>1, <1>2, <1>3, <1>4, <1>5

\* Every kind but those of the leaves waits for at least one expression.
LEMMA ArityBounds ==
    ASSUME NEW k \in Kinds
    PROVE  /\ Arity(k) \in 0..4
           /\ Arity(k) = 0 <=> k \in LeafKinds
BY Arities DEF Kinds

-----------------------------------------------------------------------------
(* Numbers.                                                                  *)

\* A set of numbers has a least element: of the sets of smaller numbers, one
\* is included in all of the others.
LEMMA LeastNumber ==
    ASSUME NEW N, N \subseteq Nat, N # {}
    PROVE  \E x \in N : \A y \in N : x <= y
<1>. DEFINE Under(x) == 0..(x - 1)
            U == {Under(x) : x \in N}
            S == FiniteSubsetsOf(Nat)
            R == StrictSubsetOrdering(Nat)
<1>1. IsWellFoundedOn(R, S)
    BY FS_StrictSubsetOrderingWellFounded
<1>2. U \subseteq S
    <2>1. ASSUME NEW x \in N
          PROVE  Under(x) \in S
        <3>1. IsFiniteSet(0..(x - 1))
            <4>1. 0 \in Int /\ x - 1 \in Int
                OBVIOUS
            <4>. QED
                BY <4>1, FS_Interval
        <3>2. 0..(x - 1) \in SUBSET Nat
            OBVIOUS
        <3>. QED
            BY <3>1, <3>2 DEF FiniteSubsetsOf
    <2>. QED
        BY <2>1
<1>3. U # {}
    OBVIOUS
<1>4. PICK u \in U : \A v \in U : ~(<<v, u>> \in R)
    <2>. HIDE DEF U, S, R
    <2>. QED
        BY <1>1, <1>2, <1>3, WFMin
<1>5. PICK x \in N : u = Under(x)
    OBVIOUS
<1>6. ASSUME NEW y \in N, y < x
      PROVE  FALSE
    <2>1. /\ Under(y) \in U
          /\ Under(y) \subseteq Nat /\ Under(x) \subseteq Nat
          /\ Under(y) \subseteq Under(x)
          /\ y \in Under(x) /\ y \notin Under(y)
        BY <1>6
    <2>. HIDE DEF Under
    <2>2. <<Under(y), Under(x)>> \in R
        BY <2>1 DEF StrictSubsetOrdering
    <2>. QED
        BY <1>4, <1>5, <2>1, <2>2
<1>. QED
    BY <1>6

\* Induction up to n, for a set of numbers.
LEMMA UpTo ==
    ASSUME NEW n \in Nat, NEW N, 0 \in N, \A k \in 1..n : k - 1 \in N => k \in N
    PROVE  0..n \subseteq N
<1>. DEFINE D == 0..n \ N
<1>1. D \subseteq Nat
    OBVIOUS
<1>. SUFFICES ASSUME D # {} PROVE FALSE
    OBVIOUS
<1>2. PICK x \in D : \A y \in D : x <= y
    <2>. HIDE DEF D
    <2>. QED
        BY LeastNumber, <1>1
<1>3. x # 0 /\ x \in 1..n /\ x - 1 \in 0..n
    OBVIOUS
<1>. QED
    BY <1>2, <1>3

=============================================================================
