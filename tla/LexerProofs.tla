----------------------------- MODULE LexerProofs -----------------------------
(***************************************************************************)
(* Proofs about the lexer, for every text: the tokens are those that the   *)
(* characters spell, the line is counted, and a blank may be left out      *)
(* where it is not needed.                                                 *)
(*                                                                         *)
(* Between two steps the lexer is where something new is read (Opens): the *)
(* character does not go on with what is open before it.  A step goes from *)
(* there over a run of characters, all of which go on with what the first  *)
(* one opens, to the first that does not.  So nothing begins inside of a   *)
(* run, and what begins at its first character ends with it.               *)
(*                                                                         *)
(* A text without one of its blanks is compared with the text (LeavesOut): *)
(* what is open is the same before the blank and, one place earlier,       *)
(* behind it, unless the next character goes on with what the blank ended. *)
(***************************************************************************)
EXTENDS Lexer, FiniteSetTheorems, SequenceTheorems, TLAPS

Shared == INSTANCE SharedLemmas

Chars == STRING \cup {Nul}

\* What can be open.
ModeNames == {"free", "comment", "number", "name", "word"} \cup Quotes

\* What is read at i is not part of what is before it.
Opens(t, i) == ~GoesOn(Modes(t)[i], t[i + 1]) /\ Modes(t)[i] \notin Quotes

\* The characters behind i and before j go on with what is read at i.
Runs(t, i, j) == \A k \in (i + 1)..(j - 1) : GoesOn(Enter(t[i + 1]), t[k + 1])

\* The one at j does not.
Stays(t, i, j) == j = Len(t) \/ ~GoesOn(Enter(t[i + 1]), t[j + 1])

-----------------------------------------------------------------------------
(* What is open.                                                             *)

\* r is the function that Modes defines.
IsModes(r, t, n) ==
    r = [i \in 0..n |->
            IF i = 0 THEN "free"
            ELSE LET m == r[i - 1]
                 IN  IF GoesOn(m, t[i]) THEN m
                     ELSE IF m \in Quotes THEN "free" ELSE Enter(t[i])]

\* There is one for each length: one more character gives the next function.
LEMMA ModesExist ==
    ASSUME NEW n \in Nat, NEW t
    PROVE  \E r : IsModes(r, t, n)
<1>. DEFINE F(r, i) ==
                IF i = 0 THEN "free"
                ELSE IF GoesOn(r[i - 1], t[i]) THEN r[i - 1]
                ELSE IF r[i - 1] \in Quotes THEN "free" ELSE Enter(t[i])
            Good(r, m) == r = [i \in 0..m |-> F(r, i)]
            N == {m \in Nat : \E r : Good(r, m)}
<1>1. 0 \in N
  <2>. DEFINE r == [i \in {0} |-> "free"]
  <2>1. 0..0 = {0}
    OBVIOUS
  <2>2. r = [i \in 0..0 |-> F(r, i)]
    BY <2>1
  <2> QED
    BY <2>2
<1>2. ASSUME NEW m \in 1..n, m - 1 \in N
      PROVE  m \in N
  <2>1. PICK r : r = [i \in 0..(m - 1) |-> F(r, i)]
    BY <1>2
  <2>. DEFINE q == [i \in 0..m |-> IF i = m THEN F(r, m) ELSE r[i]]
  <2>2. ASSUME NEW i \in 0..m
        PROVE  F(q, i) = F(r, i)
    <3>1. CASE i = 0
      BY <3>1
    <3>2. CASE i # 0
      <4>1. i - 1 \in 0..m /\ i - 1 # m
        BY <3>2
      <4>2. q[i - 1] = r[i - 1]
        BY <4>1
      <4>. HIDE DEF q
      <4> QED
        BY <4>2
    <3> QED
      BY <3>1, <3>2
  <2>3. ASSUME NEW i \in 0..m
        PROVE  q[i] = F(q, i)
    <3>1. CASE i = m
      <4>1. q[i] = F(r, i)
        <5>. HIDE DEF F
        <5> QED
          BY <3>1
      <4>. HIDE DEF F, q
      <4> QED
        BY <4>1, <2>2
    <3>2. CASE i # m
      <4>1. i \in 0..(m - 1)
        BY <3>2
      <4>2. r[i] = F(r, i)
        <5>. HIDE DEF F
        <5> QED
          BY <2>1, <4>1
      <4>. HIDE DEF F
      <4> QED
        BY <4>2, <3>2, <2>2
    <3> QED
      BY <3>1, <3>2
  <2>. HIDE DEF F
  <2>4. q = [i \in 0..m |-> F(q, i)]
    <3>1. q = [i \in 0..m |-> q[i]]
      OBVIOUS
    <3>. HIDE DEF q
    <3> QED
      BY <2>3, <3>1
  <2>5. Good(q, m) /\ m \in Nat
    BY <2>4
  <2>. HIDE DEF Good, q
  <2> QED
    BY <2>5
<1>3. n \in N
  <2>. HIDE DEF N
  <2>1. 0..n \subseteq N
    BY <1>1, <1>2, Shared!UpTo
  <2> QED
    BY <2>1
<1>4. PICK r : Good(r, n)
  BY <1>3
<1> QED
  BY <1>4 DEF IsModes

\* What is open before a character follows from the one before it.
LEMMA ModesStep ==
    ASSUME NEW t \in Seq(Chars)
    PROVE  /\ Modes(t)[0] = "free"
           /\ \A i \in 1..Len(t) :
                 Modes(t)[i] = IF GoesOn(Modes(t)[i - 1], t[i]) THEN Modes(t)[i - 1]
                               ELSE IF Modes(t)[i - 1] \in Quotes THEN "free"
                               ELSE Enter(t[i])
<1>. DEFINE P(r) == IsModes(r, t, Len(t))
<1>1. \E r : P(r)
  BY ModesExist
<1>2. Modes(t) = CHOOSE r : P(r)
  BY DEF Modes, IsModes
<1>. HIDE DEF P
<1>3. P(Modes(t))
  BY <1>1, <1>2, Zenon
<1>4. PICK r : r = Modes(t)
  OBVIOUS
<1>5. IsModes(r, t, Len(t))
  BY <1>3, <1>4 DEF P
<1>6. /\ r[0] = "free"
      /\ \A i \in 1..Len(t) :
            r[i] = IF GoesOn(r[i - 1], t[i]) THEN r[i - 1]
                   ELSE IF r[i - 1] \in Quotes THEN "free" ELSE Enter(t[i])
  BY <1>5 DEF IsModes
<1> QED
  BY <1>4, <1>6

\* What each character opens.
LEMMA EnterTable ==
    ASSUME NEW c \in Chars
    PROVE  /\ c = "#" => Enter(c) = "comment"
           /\ c \in Quotes => Enter(c) = c
           /\ c \in Digits => Enter(c) = "number"
           /\ c \in Lowers \cup {"_"} => Enter(c) = "name"
           /\ c \in Uppers => Enter(c) = "word"
           /\ c \in Blank \cup {"\n", Nul} \cup Symbols => Enter(c) = "free"
<1>. USE NulAssumption DEF Enter, Chars
<1>1. c = "#" => Enter(c) = "comment"
  BY DEF Quotes, Digits, Lowers, Uppers, WordFunction
<1>2. c \in Quotes => Enter(c) = c
  BY DEF Quotes, Digits, Lowers, Uppers, WordFunction
<1>3. c \in Digits => Enter(c) = "number"
  BY DEF Quotes, Digits, Lowers, Uppers, WordFunction
<1>4. c \in Lowers \cup {"_"} => Enter(c) = "name"
  BY DEF Quotes, Digits, Lowers, Uppers, WordFunction
<1>5. c \in Uppers => Enter(c) = "word"
  BY DEF Quotes, Digits, Lowers, Uppers, WordFunction
<1>6. ASSUME c \in Blank \cup {"\n", Nul} \cup Symbols
      PROVE  Enter(c) = "free"
  <2>1. c \notin Quotes \cup {"#"}
    BY <1>6 DEF Quotes, Blank, Symbols
  <2>2. c \notin Digits
    BY <1>6 DEF Digits, Blank, Symbols
  <2>3. c \notin Lowers \cup {"_"}
    BY <1>6 DEF Lowers, Blank, Symbols
  <2>4. c \notin Uppers
    BY <1>6 DEF Uppers, WordFunction, Blank, Symbols
  <2> QED
    BY <2>1, <2>2, <2>3, <2>4
<1> QED
  BY <1>1, <1>2, <1>3, <1>4, <1>5, <1>6

\* And what goes on with it.
LEMMA GoesOnTable ==
    ASSUME NEW c
    PROVE  /\ ~GoesOn("free", c)
           /\ GoesOn("comment", c) <=> c # "\n"
           /\ GoesOn("number", c) <=> c \in Digits
           /\ GoesOn("name", c) <=> c \in NameChars
           /\ GoesOn("word", c) <=> c \in WordChars
           /\ \A m \in Quotes : GoesOn(m, c) <=> c # m
BY DEF GoesOn, Quotes, NameChars, WordChars

-----------------------------------------------------------------------------
(* Runs.                                                                     *)

\* What the first character of a run opens is open up to its end.
LEMMA RunModes ==
    ASSUME NEW t \in Seq(Chars), NEW i \in 0..(Len(t) - 1), Opens(t, i),
           NEW j \in (i + 1)..Len(t), Runs(t, i, j)
    PROVE  \A k \in (i + 1)..j : Modes(t)[k] = Enter(t[i + 1])
<1>. DEFINE N == {d \in Nat : Modes(t)[i + 1 + d] = Enter(t[i + 1])}
<1>1. 0 \in N
  <2>1. i + 1 \in 1..Len(t) /\ (i + 1) - 1 = i /\ i + 1 + 0 = i + 1
    OBVIOUS
  <2>2. Modes(t)[i + 1] = Enter(t[i + 1])
    BY <2>1, ModesStep DEF Opens
  <2> QED
    BY <2>1, <2>2
<1>2. ASSUME NEW d \in 1..(j - i - 1), d - 1 \in N
      PROVE  d \in N
  <2>1. PICK k \in Int : k = i + 1 + d
    OBVIOUS
  <2>2. /\ k \in 1..Len(t) /\ k - 1 \in (i + 1)..(j - 1)
        /\ k - 1 = i + 1 + (d - 1) /\ (k - 1) + 1 = k
    BY <2>1
  <2>3. Modes(t)[k - 1] = Enter(t[i + 1])
    BY <1>2, <2>2
  <2>4. GoesOn(Enter(t[i + 1]), t[k])
    BY <2>2 DEF Runs
  <2>5. Modes(t)[k] = Enter(t[i + 1])
    BY <2>2, <2>3, <2>4, ModesStep
  <2>6. d \in Nat
    OBVIOUS
  <2> QED
    BY <2>1, <2>5, <2>6
<1>3. 0..(j - i - 1) \subseteq N
  <2>1. j - i - 1 \in Nat
    OBVIOUS
  <2>. HIDE DEF N
  <2> QED
    BY <1>1, <1>2, <2>1, Shared!UpTo
<1>4. ASSUME NEW k \in (i + 1)..j
      PROVE  Modes(t)[k] = Enter(t[i + 1])
  <2>1. k - i - 1 \in 0..(j - i - 1) /\ i + 1 + (k - i - 1) = k
    OBVIOUS
  <2> QED
    BY <1>3, <2>1
<1> QED
  BY <1>4

\* What begins with the run ends with it.
LEMMA RunEnd ==
    ASSUME NEW t \in Seq(Chars), NEW i \in 0..(Len(t) - 1), Opens(t, i),
           NEW j \in (i + 1)..Len(t), Runs(t, i, j), Stays(t, i, j)
    PROVE  EndOf(t, i) = j
<1>. DEFINE P(e) == /\ e = Len(t) \/ ~GoesOn(Modes(t)[e], t[e + 1])
                    /\ \A k \in (i + 1)..(e - 1) : GoesOn(Modes(t)[k], t[k + 1])
<1>1. \A k \in (i + 1)..j : Modes(t)[k] = Enter(t[i + 1])
  BY RunModes
<1>2. P(j)
  <2>1. j = Len(t) \/ ~GoesOn(Modes(t)[j], t[j + 1])
    BY <1>1 DEF Stays
  <2>2. ASSUME NEW k \in (i + 1)..(j - 1)
        PROVE  GoesOn(Modes(t)[k], t[k + 1])
    <3>1. k \in (i + 1)..j
      OBVIOUS
    <3> QED
      BY <1>1, <3>1 DEF Runs
  <2> QED
    BY <2>1, <2>2
<1>3. ASSUME NEW e \in (i + 1)..Len(t), P(e)
      PROVE  e = j
  <2>1. CASE e < j
    <3>1. e \in (i + 1)..(j - 1) /\ e # Len(t)
      BY <2>1
    <3> QED
      BY <1>2, <1>3, <3>1
  <2>2. CASE e > j
    <3>1. j \in (i + 1)..(e - 1) /\ j # Len(t)
      BY <2>2
    <3> QED
      BY <1>2, <1>3, <3>1
  <2> QED
    BY <2>1, <2>2
<1>4. EndOf(t, i) = CHOOSE e \in (i + 1)..Len(t) : P(e)
  BY DEF EndOf
<1>. HIDE DEF P
<1> QED
  BY <1>2, <1>3, <1>4

\* Only its first character can begin something.
LEMMA RunBegins ==
    ASSUME NEW t \in Seq(Chars), NEW i \in 0..(Len(t) - 1), Opens(t, i),
           NEW j \in (i + 1)..Len(t), Runs(t, i, j)
    PROVE  /\ \A b \in Beginnings(t) : b < j <=> b < i \/ b = i
           /\ i \in Beginnings(t) <=> t[i + 1] \notin Blank \cup {"\n", "#"}
<1>1. \A k \in (i + 1)..j : Modes(t)[k] = Enter(t[i + 1])
  BY RunModes
<1>2. ASSUME NEW k \in (i + 1)..(j - 1)
      PROVE  k \notin Beginnings(t)
  <2>1. k \in (i + 1)..j
    OBVIOUS
  <2>2. GoesOn(Modes(t)[k], t[k + 1])
    BY <1>1, <2>1 DEF Runs
  <2> QED
    BY <2>2 DEF Beginnings
<1>3. ASSUME NEW b \in Beginnings(t)
      PROVE  b < j <=> b < i \/ b = i
  <2>1. b \in Int
    BY DEF Beginnings
  <2> QED
    BY <1>2, <2>1
<1> QED
  BY <1>3 DEF Beginnings, Opens

\* A string is closed by its quote, with which nothing begins.
LEMMA QuoteCloses ==
    ASSUME NEW t \in Seq(Chars), NEW i \in 0..(Len(t) - 1), Opens(t, i),
           t[i + 1] \in Quotes,
           NEW j \in (i + 1)..(Len(t) - 1), Runs(t, i, j), Stays(t, i, j)
    PROVE  /\ j \notin Beginnings(t)
           /\ Modes(t)[j] = t[i + 1] /\ t[j + 1] = t[i + 1]
           /\ Modes(t)[j + 1] = "free"
<1>1. t[i + 1] \in Chars /\ t[j + 1] \in Chars
  OBVIOUS
<1>2. Enter(t[i + 1]) = t[i + 1]
  BY <1>1, EnterTable
<1>3. Modes(t)[j] = t[i + 1]
  BY <1>2, RunModes
<1>4. ~GoesOn(t[i + 1], t[j + 1])
  BY <1>2 DEF Stays
<1>5. t[j + 1] = t[i + 1]
  BY <1>4, GoesOnTable
<1>6. Modes(t)[j + 1] = "free"
  <2>1. j + 1 \in 1..Len(t) /\ (j + 1) - 1 = j
    OBVIOUS
  <2> QED
    BY <1>3, <1>4, <2>1, ModesStep
<1>7. j \notin Beginnings(t)
  BY <1>3 DEF Beginnings
<1> QED
  BY <1>3, <1>5, <1>6, <1>7

-----------------------------------------------------------------------------
(* The invariant.                                                            *)

TokenKinds == {"NUMBER", "STRING", "IDENTIFIER"}
                \cup {WordFunction[c] : c \in DOMAIN WordFunction}
                \cup {SymbolFunction[c] : c \in Symbols}

\* The position is where something is read, and nothing before it stops
\* the lexer.
WhereInv ==
    /\ text \in Texts
    /\ current \in 0..Len(text)
    /\ current < Len(text) => Opens(text, current)
    /\ \A b \in Beginnings(text) : b < current => text[b + 1] \in Known \ {Nul}

\* What is written at b, without its quotes.
From(t, b) == IF t[b + 1] \in Quotes THEN b + 1 ELSE b
PlaceOf(t, b) == [from |-> From(t, b), length |-> EndOf(t, b) - From(t, b)]

\* s has the beginnings before the position, in order.
Starts(s) ==
    /\ s \in Seq(Nat)
    /\ \A j, k \in DOMAIN s : j < k => s[j] < s[k]
    /\ {s[k] : k \in DOMAIN s} = {b \in Beginnings(text) : b < current}

\* There is a token for each.
WordsInv ==
    /\ tokens \in Seq([kind : TokenKinds, from : Nat, length : Int])
    /\ \E s \in Seq(Nat) :
          /\ Starts(s)
          /\ Places(tokens) = [k \in DOMAIN s |-> PlaceOf(text, s[k])]

LexInv ==
    /\ WhereInv
    /\ WordsInv
    /\ linenumber \in Nat /\ LinesCounted
    /\ status = "end" => Char = Nul
    /\ status = "panic" => Char \notin Known

\* A text is made of characters.
LEMMA TextTyped == ASSUME WhereInv PROVE text \in Seq(Chars)
BY TextsAssumption DEF WhereInv, Chars

-----------------------------------------------------------------------------
(* Sequences in order.                                                       *)

\* In a sequence in order, the number of smaller elements is the place of each.
LEMMA Ranked ==
    ASSUME NEW s \in Seq(Nat), \A j, k \in DOMAIN s : j < k => s[j] < s[k],
           NEW S, S = {s[k] : k \in DOMAIN s}
    PROVE  /\ IsFiniteSet(S) /\ Cardinality(S) = Len(s)
           /\ \A k \in DOMAIN s : Cardinality({x \in S : x < s[k]}) = k - 1
<1>1. DOMAIN s = 1..Len(s) /\ Len(s) \in Nat
  OBVIOUS
<1>2. ASSUME NEW k \in 0..Len(s), NEW T, T = {s[j] : j \in 1..k}
      PROVE  IsFiniteSet(T) /\ Cardinality(T) = k
  <2>. DEFINE f == [j \in 1..k |-> s[j]]
  <2>1. f \in Bijection(1..k, T)
    <3>1. ASSUME NEW i \in 1..k, NEW j \in 1..k, f[i] = f[j]
          PROVE  i = j
      <4>1. i \in DOMAIN s /\ j \in DOMAIN s /\ s[i] \in Nat /\ s[j] \in Nat
        BY <1>1
      <4>2. s[i] = s[j]
        BY <3>1
      <4>3. ~(i < j) /\ ~(j < i)
        BY <4>1, <4>2
      <4> QED
        BY <4>3
    <3>2. f \in [1..k -> T] /\ \A x \in T : \E j \in 1..k : f[j] = x
      BY <1>2
    <3>. HIDE DEF f
    <3> QED
      BY <3>1, <3>2 DEF Bijection, Injection, Surjection, IsInjective
  <2>2. 1 \in Int /\ k \in Int
    OBVIOUS
  <2>3. IsFiniteSet(1..k) /\ Cardinality(1..k) = k
    BY <2>2, FS_Interval
  <2>4. ExistsBijection(1..k, T)
    BY <2>1 DEF ExistsBijection
  <2> QED
    BY <2>3, <2>4, FS_Bijection
<1>3. ASSUME NEW k \in 1..Len(s)
      PROVE  Cardinality({x \in S : x < s[k]}) = k - 1
  <2>1. {x \in S : x < s[k]} = {s[j] : j \in 1..(k - 1)}
    <3>1. \A j \in 1..Len(s) : s[j] < s[k] <=> j < k
      BY <1>1
    <3>2. \A j \in 1..(k - 1) : j \in 1..Len(s) /\ j < k
      OBVIOUS
    <3>3. \A j \in 1..Len(s) : j < k => j \in 1..(k - 1)
      OBVIOUS
    <3>4. S = {s[j] : j \in 1..Len(s)}
      BY <1>1
    <3> QED
      BY <3>1, <3>2, <3>3, <3>4
  <2>2. k - 1 \in 0..Len(s)
    OBVIOUS
  <2> QED
    BY <2>1, <2>2, <1>2
<1>4. IsFiniteSet(S) /\ Cardinality(S) = Len(s)
  <2>1. Len(s) \in 0..Len(s)
    OBVIOUS
  <2> QED
    BY <1>1, <1>2, <2>1
<1> QED
  BY <1>1, <1>3, <1>4

\* So it is the order of its elements.
LEMMA Ordered ==
    ASSUME NEW s \in Seq(Nat), \A j, k \in DOMAIN s : j < k => s[j] < s[k],
           NEW S, S = {s[k] : k \in DOMAIN s}
    PROVE  InOrder(S) = s
<1>1. DOMAIN s = 1..Len(s) /\ Len(s) \in Nat
  OBVIOUS
<1>2. Cardinality(S) = Len(s)
  BY Ranked
<1>3. \A k \in 1..Len(s) : Cardinality({x \in S : x < s[k]}) = k - 1
  BY <1>1, Ranked
<1>4. ASSUME NEW k \in 1..Len(s)
      PROVE  s[k] = CHOOSE x \in S : Cardinality({y \in S : y < x}) = k - 1
  <2>1. s[k] \in S
    BY <1>1
  <2>2. ASSUME NEW x \in S, Cardinality({y \in S : y < x}) = k - 1
        PROVE  x = s[k]
    <3>1. PICK j \in 1..Len(s) : x = s[j]
      BY <1>1
    <3>2. j - 1 = k - 1
      BY <3>1, <2>2, <1>3
    <3> QED
      BY <3>1, <3>2
  <2> QED
    BY <1>3, <2>1, <2>2
<1>5. s = [k \in 1..Len(s) |-> s[k]]
  BY <1>1
<1> QED
  BY <1>2, <1>4, <1>5 DEF InOrder

\* In the order of a set the place of an element is given by the number of
\* smaller ones.
LEMMA OrderedAt ==
    ASSUME NEW S \in SUBSET Nat, IsFiniteSet(S), NEW b \in S, NEW k \in Nat,
           Cardinality({x \in S : x < b}) = k - 1
    PROVE  k \in DOMAIN InOrder(S) /\ InOrder(S)[k] = b
<1>. DEFINE T(x) == {y \in S : y < x}
<1>1. \A x \in S : T(x) \in SUBSET S /\ IsFiniteSet(T(x))
  <2>1. \A x \in S : T(x) \in SUBSET S
    OBVIOUS
  <2> QED
    BY <2>1, FS_Subset
<1>2. ASSUME NEW x \in S, NEW y \in S, x < y
      PROVE  Cardinality(T(x)) # Cardinality(T(y))
  <2>0. x \in Nat /\ y \in Nat /\ \A z \in S : z \in Nat
    OBVIOUS
  <2>1. T(x) \in SUBSET T(y) /\ x \in T(y) /\ x \notin T(x)
    <3>1. \A z \in S : z < x => z < y
      BY <1>2, <2>0
    <3>2. x \in T(y) /\ ~(x < x)
      BY <1>2, <2>0
    <3> QED
      BY <3>1, <3>2
  <2>2. IsFiniteSet(T(y))
    BY <1>1
  <2>. HIDE DEF T
  <2> QED
    BY <2>1, <2>2, FS_Subset
<1>3. k \in 1..Cardinality(S)
  <2>1. b \notin T(b)
    OBVIOUS
  <2>2. Cardinality(T(b)) = k - 1
    OBVIOUS
  <2>3. Cardinality(T(b)) <= Cardinality(S) /\ Cardinality(T(b)) # Cardinality(S)
    <3>1. T(b) \in SUBSET S
      OBVIOUS
    <3>. HIDE DEF T
    <3> QED
      BY <2>1, <3>1, FS_Subset
  <2>4. Cardinality(S) \in Nat /\ Cardinality(T(b)) \in Nat
    <3>1. IsFiniteSet(T(b))
      BY <1>1
    <3>. HIDE DEF T
    <3> QED
      BY <3>1, FS_CardinalityType
  <2>. HIDE DEF T
  <2> QED
    BY <2>2, <2>3, <2>4
<1>4. ASSUME NEW x \in S, Cardinality(T(x)) = k - 1
      PROVE  x = b
  <2>1. Cardinality(T(b)) = k - 1
    OBVIOUS
  <2>. HIDE DEF T
  <2>2. ~(x < b) /\ ~(b < x)
    BY <1>2, <1>4, <2>1
  <2>3. x \in Nat /\ b \in Nat
    OBVIOUS
  <2> QED
    BY <2>2, <2>3
<1>5. b = CHOOSE x \in S : Cardinality({y \in S : y < x}) = k - 1
  BY <1>4
<1> QED
  BY <1>3, <1>5 DEF InOrder

\* What was read is what the characters before the position spell.
LEMMA WordsRead ==
    ASSUME WordsInv
    PROVE  Places(tokens) = WordsTo(text, current)
<1>1. PICK s \in Seq(Nat) : /\ Starts(s)
                            /\ Places(tokens) = [k \in DOMAIN s |-> PlaceOf(text, s[k])]
  BY DEF WordsInv
<1>2. s = InOrder({b \in Beginnings(text) : b < current})
  BY <1>1, Ordered DEF Starts
<1> QED
  BY <1>1, <1>2 DEF WordsTo, PlaceOf, From

\* Where nothing begins, nothing need be read.
LEMMA SkipWords ==
    ASSUME WordsInv, text' = text, tokens' = tokens,
           \A b \in Beginnings(text) : b < current' <=> b < current
    PROVE  WordsInv'
<1>1. PICK s \in Seq(Nat) : /\ Starts(s)
                            /\ Places(tokens) = [k \in DOMAIN s |-> PlaceOf(text, s[k])]
  BY DEF WordsInv
<1>2. {b \in Beginnings(text) : b < current'} = {b \in Beginnings(text) : b < current}
  OBVIOUS
<1>3. Starts(s)'
  BY <1>1, <1>2 DEF Starts
<1> QED
  BY <1>1, <1>3 DEF WordsInv

\* Where something begins, the token for it is read.
LEMMA ReadWords ==
    ASSUME WordsInv, WhereInv, text' = text, current \in Beginnings(text),
           \A b \in Beginnings(text) : b < current' <=> b < current \/ b = current,
           NEW kind \in TokenKinds, EndOf(text, current) \in Nat,
           tokens' = Append(tokens, [kind |-> kind, from |-> From(text, current),
                                     length |-> EndOf(text, current) - From(text, current)])
    PROVE  WordsInv'
<1>1. PICK s \in Seq(Nat) : /\ Starts(s)
                            /\ Places(tokens) = [k \in DOMAIN s |-> PlaceOf(text, s[k])]
  BY DEF WordsInv
<1>2. PICK c \in Nat : c = current
  BY DEF WhereInv
<1>3. PICK r \in Seq(Nat) : r = Append(s, c)
  <2>1. Append(s, c) \in Seq(Nat)
    OBVIOUS
  <2> QED
    BY <2>1
<1>0. /\ \A k \in 1..(Len(s) + 1) : k \in 1..Len(s) \/ k = Len(s) + 1
      /\ \A k \in 1..Len(s) : k \in 1..(Len(s) + 1)
      /\ Len(s) + 1 \in 1..(Len(s) + 1)
  <2>1. Len(s) \in Nat
    OBVIOUS
  <2> QED
    BY <2>1
<1>4. /\ Len(r) = Len(s) + 1 /\ r[Len(s) + 1] = c
      /\ \A k \in 1..Len(s) : r[k] = s[k]
      /\ DOMAIN r = 1..(Len(s) + 1) /\ DOMAIN s = 1..Len(s) /\ Len(s) \in Nat
  BY <1>3
<1>5. \A k \in 1..Len(s) : s[k] < c
  BY <1>1, <1>2, <1>4 DEF Starts
<1>6. Starts(r)'
  <2>1. ASSUME NEW j \in DOMAIN r, NEW k \in DOMAIN r, j < k
        PROVE  r[j] < r[k]
    <3>1. j \in 1..Len(s)
      BY <1>4, <2>1
    <3>2. CASE k = Len(s) + 1
      BY <1>4, <1>5, <3>1, <3>2
    <3>3. CASE k \in 1..Len(s)
      BY <1>1, <1>4, <2>1, <3>1, <3>3 DEF Starts
    <3> QED
      BY <1>4, <3>2, <3>3
  <2>2. {r[k] : k \in DOMAIN r} = {s[k] : k \in DOMAIN s} \cup {c}
    BY <1>0, <1>4
  <2>3. {b \in Beginnings(text) : b < current'} = {b \in Beginnings(text) : b < current} \cup {c}
    BY <1>2
  <2>4. {r[k] : k \in DOMAIN r} = {b \in Beginnings(text) : b < current'}
    BY <1>1, <2>2, <2>3 DEF Starts
  <2> QED
    BY <1>3, <2>1, <2>4 DEF Starts
<1>7. PICK token : token = [kind |-> kind, from |-> From(text, current),
                            length |-> EndOf(text, current) - From(text, current)]
  OBVIOUS
<1>8. /\ token \in [kind : TokenKinds, from : Nat, length : Int]
      /\ [from |-> token.from, length |-> token.length] = PlaceOf(text, c)
  <2>1. From(text, current) \in Nat
    BY <1>2 DEF From
  <2> QED
    BY <1>2, <1>7, <2>1 DEF PlaceOf
<1>9. PICK ts \in Seq([kind : TokenKinds, from : Nat, length : Int]) : ts = tokens
  BY DEF WordsInv
<1>10. /\ tokens' = Append(ts, token)
       /\ tokens' \in Seq([kind : TokenKinds, from : Nat, length : Int])
  BY <1>7, <1>8, <1>9
<1>11. Places(tokens') = [k \in DOMAIN r |-> PlaceOf(text, r[k])]
  <2>1. /\ DOMAIN Places(tokens) = DOMAIN s
        /\ \A k \in DOMAIN s : Places(tokens)[k] = PlaceOf(text, s[k])
    BY <1>1
  <2>2. /\ DOMAIN ts = DOMAIN s
        /\ \A k \in DOMAIN s : [from |-> ts[k].from, length |-> ts[k].length]
                                  = PlaceOf(text, s[k])
    BY <2>1, <1>9 DEF Places
  <2>3. Len(ts) = Len(s)
    BY <2>2, <1>4, <1>9
  <2>4. /\ DOMAIN Append(ts, token) = 1..(Len(s) + 1)
        /\ Append(ts, token)[Len(s) + 1] = token
        /\ \A k \in 1..Len(s) : Append(ts, token)[k] = ts[k]
    BY <2>3, <1>8, <1>9
  <2>5. ASSUME NEW k \in DOMAIN r
        PROVE  [from |-> Append(ts, token)[k].from, length |-> Append(ts, token)[k].length]
                  = PlaceOf(text, r[k])
    <3>1. CASE k = Len(s) + 1
      BY <3>1, <2>4, <1>4, <1>8
    <3>2. CASE k \in 1..Len(s)
      BY <3>2, <2>2, <2>4, <1>4
    <3> QED
      BY <3>1, <3>2, <1>0, <1>4
  <2>6. Places(tokens') = [k \in DOMAIN Append(ts, token) |->
            [from |-> Append(ts, token)[k].from, length |-> Append(ts, token)[k].length]]
    BY <1>10 DEF Places
  <2> QED
    BY <2>4, <2>5, <2>6, <1>4
<1> QED
  BY <1>3, <1>6, <1>10, <1>11 DEF WordsInv

-----------------------------------------------------------------------------
(* Lines.                                                                    *)

\* Where a newline counts.
Breaks(n) == {i \in 0..(n - 1) : At(i) = "\n" /\ Modes(text)[i] \notin Quotes}

\* There are finitely many.
LEMMA BreaksFinite ==
    ASSUME NEW n \in Nat
    PROVE  IsFiniteSet(Breaks(n)) /\ Cardinality(Breaks(n)) \in Nat
<1>1. 0 \in Int /\ n - 1 \in Int
  OBVIOUS
<1>2. IsFiniteSet(0..(n - 1))
  BY <1>1, FS_Interval
<1>3. Breaks(n) \in SUBSET (0..(n - 1))
  BY DEF Breaks
<1>4. IsFiniteSet(Breaks(n))
  BY <1>2, <1>3, FS_Subset
<1> QED
  BY <1>4, FS_CardinalityType

\* The line stays the same over characters that are no newlines, or quoted.
LEMMA SameLine ==
    ASSUME WhereInv, LinesCounted, text' = text, linenumber' = linenumber,
           current' \in Nat, current <= current',
           \A i \in current..(current' - 1) : At(i) # "\n" \/ Modes(text)[i] \in Quotes
    PROVE  LinesCounted'
<1>1. PICK n \in Nat, m \in Nat : n = current /\ m = current'
  BY DEF WhereInv
<1>0. n <= m
  BY <1>1
<1>2. Breaks(m) = Breaks(n)
  <2>1. \A i \in 0..(m - 1) : i \in 0..(n - 1) \/ i \in n..(m - 1)
    BY <1>0
  <2>2. \A i \in 0..(n - 1) : i \in 0..(m - 1)
    BY <1>0
  <2>3. \A i \in n..(m - 1) : At(i) # "\n" \/ Modes(text)[i] \in Quotes
    BY <1>1
  <2> QED
    BY <2>1, <2>2, <2>3 DEF Breaks
<1>3. linenumber' = 1 + Cardinality(Breaks(m))
  BY <1>1, <1>2 DEF LinesCounted, Breaks
<1>4. LinesCounted' <=> linenumber' = 1 + Cardinality(Breaks(m))
  BY <1>1 DEF LinesCounted, Breaks, At
<1> QED
  BY <1>3, <1>4

\* It is the next one after a newline.
LEMMA NextLine ==
    ASSUME WhereInv, LinesCounted, text' = text, linenumber' = linenumber + 1,
           current' = current + 1, At(current) = "\n",
           Modes(text)[current] \notin Quotes
    PROVE  LinesCounted'
<1>1. PICK n \in Nat : n = current
  BY DEF WhereInv
<1>2. Breaks(n + 1) = Breaks(n) \cup {n}
  <2>1. \A i : i \in 0..((n + 1) - 1) <=> i \in 0..(n - 1) \/ i = n
    BY <1>1
  <2>2. At(n) = "\n" /\ Modes(text)[n] \notin Quotes
    BY <1>1
  <2> QED
    BY <2>1, <2>2 DEF Breaks
<1>3. n \notin Breaks(n)
  BY DEF Breaks
<1>4. Cardinality(Breaks(n + 1)) = Cardinality(Breaks(n)) + 1
  BY <1>2, <1>3, BreaksFinite, FS_AddElement
<1>5. linenumber = 1 + Cardinality(Breaks(n))
  BY <1>1 DEF LinesCounted, Breaks
<1>6. linenumber' = 1 + Cardinality(Breaks(n + 1))
  BY <1>4, <1>5, BreaksFinite
<1>7. LinesCounted' <=> linenumber' = 1 + Cardinality(Breaks(n + 1))
  BY <1>1 DEF LinesCounted, Breaks, At
<1> QED
  BY <1>6, <1>7

\* No run has a newline but behind a quote.
LEMMA RunLine ==
    ASSUME WhereInv, current < Len(text), NEW j \in (current + 1)..Len(text),
           Runs(text, current, j), Char # "\n",
           NEW k \in current..(j - 1)
    PROVE  At(k) # "\n" \/ Modes(text)[k] \in Quotes
<1>1. current \in 0..(Len(text) - 1) /\ Opens(text, current) /\ text \in Seq(Chars)
  BY TextTyped DEF WhereInv
<1>2. k \in Nat /\ k < Len(text) /\ At(k) = text[k + 1]
  BY <1>1 DEF At
<1>3. CASE k = current
  BY <1>3 DEF Char
<1>4. CASE k # current
  <2>1. k \in (current + 1)..(j - 1) /\ k \in (current + 1)..j
    BY <1>1, <1>4
  <2>2. Modes(text)[k] = Enter(text[current + 1])
    BY <1>1, <2>1, RunModes
  <2>3. GoesOn(Enter(text[current + 1]), text[k + 1])
    BY <2>1 DEF Runs
  <2>4. PICK m : m = Enter(text[current + 1])
    OBVIOUS
  <2>5. m \in ModeNames
    BY <2>4 DEF Enter, ModeNames
  <2>6. "\n" \notin Digits /\ "\n" \notin NameChars /\ "\n" \notin WordChars
    <3>1. "\n" \notin Digits /\ "\n" \notin Lowers
      BY DEF Digits, Lowers
    <3>2. "\n" \notin Uppers
      BY DEF Uppers, WordFunction
    <3> QED
      BY <3>1, <3>2 DEF NameChars, WordChars
  <2>7. ~(m \in Quotes) => ~GoesOn(m, "\n")
    BY <2>5, <2>6, GoesOnTable DEF ModeNames
  <2> QED
    BY <1>2, <2>2, <2>3, <2>4, <2>7
<1> QED
  BY <1>3, <1>4

-----------------------------------------------------------------------------
(* Where runs end.                                                           *)

\* First finds the first place, or the end.
LEMMA FirstPlace ==
    ASSUME Len(text) \in Nat, NEW i \in 0..Len(text),
           NEW places \in SUBSET (0..(Len(text) - 1))
    PROVE  /\ First(i, places) \in i..Len(text)
           /\ First(i, places) < Len(text) => First(i, places) \in places
           /\ \A k \in i..(First(i, places) - 1) : k \notin places
<1>. DEFINE S == {j \in places : j >= i} \cup {Len(text)}
<1>0. PICK n \in Nat : n = Len(text)
  OBVIOUS
<1>1. S \subseteq Nat /\ S # {} /\ \A x \in S : i <= x /\ x <= Len(text)
  <2>1. i \in 0..n /\ places \subseteq 0..(n - 1) /\ S = {j \in places : j >= i} \cup {n}
    BY <1>0
  <2>. HIDE DEF S
  <2>2. \A x \in S : (x \in 0..(n - 1) /\ x >= i) \/ x = n
    BY <2>1
  <2>3. \A x \in S : x \in Nat /\ i <= x /\ x <= n
    BY <2>1, <2>2
  <2>4. n \in S
    BY <2>1
  <2> QED
    BY <1>0, <2>3, <2>4
<1>2. \E x \in S : \A y \in S : x <= y
  <2>. HIDE DEF S
  <2> QED
    BY <1>1, Shared!LeastNumber
<1>3. First(i, places) = CHOOSE x \in S : \A y \in S : x <= y
  BY DEF First, Min
<1>4. PICK x \in S : x = First(i, places) /\ \A y \in S : x <= y
  BY <1>2, <1>3
<1>5. ASSUME NEW k \in i..(x - 1), k \in places
      PROVE  FALSE
  <2>1. k \in S /\ k < x
    BY <1>1, <1>5
  <2> QED
    BY <1>1, <1>4, <2>1
<1> QED
  BY <1>1, <1>4, <1>5

\* A run of some characters goes on until there is another one.
LEMMA RunPlace ==
    ASSUME WhereInv, current < Len(text), NEW chars, Char \in chars
    PROVE  /\ EndOfRun(chars) \in (current + 1)..Len(text)
           /\ EndOfRun(chars) < Len(text) => text[EndOfRun(chars) + 1] \notin chars
           /\ \A k \in (current + 1)..(EndOfRun(chars) - 1) : text[k + 1] \in chars
<1>1. text \in Seq(Chars) /\ current \in 0..Len(text) /\ Len(text) \in Nat
  BY TextTyped DEF WhereInv
<1>. DEFINE P == {j \in 0..(Len(text) - 1) : At(j) \notin chars}
<1>2. PICK e : e = EndOfRun(chars)
  OBVIOUS
<1>3. P \in SUBSET (0..(Len(text) - 1)) /\ e = First(current, P)
  BY <1>2 DEF EndOfRun
<1>4. /\ e \in current..Len(text)
      /\ e < Len(text) => e \in P
      /\ \A k \in current..(e - 1) : k \notin P
  <2>. HIDE DEF P
  <2> QED
    BY <1>1, <1>3, FirstPlace
<1>5. e # current
  BY <1>1, <1>4 DEF Char
<1>6. e \in (current + 1)..Len(text)
  BY <1>1, <1>4, <1>5
<1>7. e < Len(text) => text[e + 1] \notin chars
  BY <1>4 DEF At
<1>8. ASSUME NEW k \in (current + 1)..(e - 1)
      PROVE  text[k + 1] \in chars
  <2>1. k \in current..(e - 1) /\ k \in 0..(Len(text) - 1) /\ k < Len(text)
    BY <1>1, <1>6
  <2>2. At(k) = text[k + 1]
    BY <2>1 DEF At
  <2>3. k \notin P
    BY <1>4, <2>1
  <2> QED
    BY <2>1, <2>2, <2>3
<1> QED
  BY <1>2, <1>6, <1>7, <1>8

-----------------------------------------------------------------------------
(* Steps over a run.                                                         *)

\* What the steps over a run have in common, for one from the position to j.
RunTo(j) ==
    /\ LexInv /\ status = "run"
    /\ current < Len(text) /\ j \in (current + 1)..Len(text)
    /\ Runs(text, current, j) /\ Stays(text, current, j)
    /\ text' = text /\ status' = status

\* What follows from it at once.
LEMMA RunFacts ==
    ASSUME NEW j, RunTo(j)
    PROVE  /\ text \in Seq(Chars) /\ Len(text) \in Nat
           /\ current \in 0..(Len(text) - 1) /\ Opens(text, current)
           /\ Char = text[current + 1] /\ Char \in Chars
           /\ j \in (current + 1)..Len(text)
           /\ EndOf(text, current) = j
<1>1. /\ text \in Seq(Chars) /\ current \in 0..Len(text) /\ current < Len(text)
      /\ Opens(text, current) /\ j \in (current + 1)..Len(text)
      /\ Runs(text, current, j) /\ Stays(text, current, j)
  BY TextTyped DEF RunTo, LexInv, WhereInv
<1>2. Len(text) \in Nat /\ current \in 0..(Len(text) - 1)
  BY <1>1
<1>3. Char = text[current + 1] /\ Char \in Chars
  BY <1>1, <1>2 DEF Char, At
<1>4. EndOf(text, current) = j
  BY <1>1, <1>2, RunEnd
<1> QED
  BY <1>1, <1>2, <1>3, <1>4

\* Such a step leads to where something is read again.
LEMMA RunWhere ==
    ASSUME NEW j, RunTo(j), Char \in Known \ ({Nul} \cup Quotes), current' = j
    PROVE  WhereInv'
<1>1. /\ text \in Seq(Chars) /\ current \in 0..(Len(text) - 1) /\ Opens(text, current)
      /\ Char = text[current + 1] /\ Char \in Chars /\ j \in (current + 1)..Len(text)
  BY RunFacts
<1>2. Runs(text, current, j) /\ Stays(text, current, j) /\ text' = text /\ WhereInv
  BY DEF RunTo, LexInv
<1>3. Modes(text)[j] = Enter(Char)
  BY <1>1, <1>2, RunModes
<1>4. Enter(Char) \notin Quotes
  BY <1>1, EnterTable DEF Known, Quotes, Enter
<1>5. j < Len(text) => Opens(text, j)
  BY <1>1, <1>2, <1>3, <1>4 DEF Stays, Opens
<1>6. \A b \in Beginnings(text) : b < j <=> b < current \/ b = current
  BY <1>1, <1>2, RunBegins
<1>7. \A b \in Beginnings(text) : b < j => text[b + 1] \in Known \ {Nul}
  BY <1>1, <1>2, <1>6 DEF WhereInv
<1>8. j \in 0..Len(text)
  BY <1>1
<1> QED
  BY <1>2, <1>5, <1>7, <1>8 DEF WhereInv

\* White space and comments are skipped.
LEMMA SkipRun ==
    ASSUME NEW j, RunTo(j), Char \in Blank \cup {"\n", "#"},
           current' = j, tokens' = tokens,
           \/ Char = "\n" /\ j = current + 1 /\ linenumber' = linenumber + 1
           \/ Char # "\n" /\ linenumber' = linenumber
    PROVE  LexInv'
<1>1. /\ text \in Seq(Chars) /\ current \in 0..(Len(text) - 1) /\ Opens(text, current)
      /\ Char = text[current + 1] /\ Char \in Chars /\ j \in (current + 1)..Len(text)
  BY RunFacts
<1>2. /\ Runs(text, current, j) /\ Stays(text, current, j) /\ text' = text
      /\ WhereInv /\ WordsInv /\ linenumber \in Nat /\ LinesCounted
      /\ status' = "run" /\ current < Len(text)
  BY DEF RunTo, LexInv
<1>3. Char \in Known \ ({Nul} \cup Quotes)
  <2>1. Char \in Known /\ Char # Nul
    BY NulAssumption DEF Known
  <2>2. Char \notin Quotes
    BY DEF Blank, Quotes
  <2> QED
    BY <2>1, <2>2
<1>4. WhereInv'
  BY <1>3, RunWhere
<1>5. \A b \in Beginnings(text) : b < j <=> b < current
  <2>1. /\ \A b \in Beginnings(text) : b < j <=> b < current \/ b = current
        /\ current \notin Beginnings(text)
    BY <1>1, <1>2, RunBegins
  <2> QED
    BY <2>1
<1>6. WordsInv'
  BY <1>2, <1>5, SkipWords
<1>7. linenumber' \in Nat /\ LinesCounted'
  <2>1. CASE Char = "\n"
    <3>1. Modes(text)[current] \notin Quotes
      BY <1>1 DEF Opens
    <3> QED
      BY <1>2, <2>1, <3>1, NextLine DEF Char
  <2>2. CASE Char # "\n"
    <3>1. \A k \in current..(j - 1) : At(k) # "\n" \/ Modes(text)[k] \in Quotes
      BY <1>1, <1>2, <2>2, RunLine
    <3>2. current <= j /\ j \in Nat
      BY <1>1
    <3> QED
      BY <1>2, <2>2, <3>1, <3>2, SameLine
  <2> QED
    BY <2>1, <2>2
<1> QED
  BY <1>2, <1>4, <1>6, <1>7 DEF LexInv

\* Everything else is read.
LEMMA ReadRun ==
    ASSUME NEW j, RunTo(j), NEW kind \in TokenKinds,
           Char \in Known \ ({Nul, "\n", "#"} \cup Blank \cup Quotes),
           current' = j, linenumber' = linenumber,
           tokens' = Append(tokens, [kind |-> kind, from |-> current,
                                     length |-> j - current])
    PROVE  LexInv'
<1>1. /\ text \in Seq(Chars) /\ current \in 0..(Len(text) - 1) /\ Opens(text, current)
      /\ Char = text[current + 1] /\ Char \in Chars /\ j \in (current + 1)..Len(text)
      /\ EndOf(text, current) = j
  BY RunFacts
<1>2. /\ Runs(text, current, j) /\ Stays(text, current, j) /\ text' = text
      /\ WhereInv /\ WordsInv /\ linenumber \in Nat /\ LinesCounted
      /\ status' = "run" /\ current < Len(text)
  BY DEF RunTo, LexInv
<1>3. WhereInv'
  BY RunWhere
<1>4. /\ \A b \in Beginnings(text) : b < j <=> b < current \/ b = current
      /\ current \in Beginnings(text)
  BY <1>1, <1>2, RunBegins
<1>5. From(text, current) = current /\ EndOf(text, current) \in Nat
  BY <1>1 DEF From
<1>6. WordsInv'
  BY <1>1, <1>2, <1>4, <1>5, ReadWords
<1>7. \A k \in current..(j - 1) : At(k) # "\n" \/ Modes(text)[k] \in Quotes
  BY <1>1, <1>2, RunLine
<1>8. current <= j /\ j \in Nat
  BY <1>1
<1>9. LinesCounted'
  BY <1>2, <1>7, <1>8, SameLine
<1> QED
  BY <1>2, <1>3, <1>6, <1>9 DEF LexInv

\* So is a string, with the quote that closes it.
LEMMA ReadString ==
    ASSUME NEW j, RunTo(j), Char \in Quotes, linenumber' = linenumber,
           current' = IF j < Len(text) THEN j + 1 ELSE j,
           tokens' = Append(tokens, [kind |-> "STRING", from |-> current + 1,
                                     length |-> j - (current + 1)])
    PROVE  LexInv'
<1>1. /\ text \in Seq(Chars) /\ current \in 0..(Len(text) - 1) /\ Opens(text, current)
      /\ Char = text[current + 1] /\ Char \in Chars /\ j \in (current + 1)..Len(text)
      /\ EndOf(text, current) = j /\ Len(text) \in Nat
  BY RunFacts
<1>2. /\ Runs(text, current, j) /\ Stays(text, current, j) /\ text' = text
      /\ WhereInv /\ WordsInv /\ linenumber \in Nat /\ LinesCounted
      /\ status' = "run" /\ current < Len(text)
  BY DEF RunTo, LexInv
<1>3. /\ \A b \in Beginnings(text) : b < j <=> b < current \/ b = current
      /\ current \in Beginnings(text)
  <2>1. Char \notin Blank \cup {"\n", "#"}
    BY DEF Quotes, Blank
  <2> QED
    BY <1>1, <1>2, <2>1, RunBegins
<1>4. j < Len(text) => /\ j \notin Beginnings(text)
                       /\ Modes(text)[j] = Char /\ text[j + 1] = Char
                       /\ Modes(text)[j + 1] = "free"
  <2>1. j < Len(text) => j \in (current + 1)..(Len(text) - 1)
    BY <1>1
  <2> QED
    BY <1>1, <1>2, <2>1, QuoteCloses
<1>5. /\ current' \in 0..Len(text) /\ current <= current' /\ j <= current'
      /\ \/ current' = j /\ j = Len(text)
         \/ current' = j + 1 /\ j < Len(text)
  <2>1. PICK n \in Nat, c \in Nat : n = Len(text) /\ c = current
    BY <1>1
  <2>2. c \in 0..(n - 1) /\ j \in (c + 1)..n
    BY <1>1, <2>1
  <2>3. CASE j < n
    BY <2>1, <2>2, <2>3
  <2>4. CASE ~(j < n)
    BY <2>1, <2>2, <2>4
  <2> QED
    BY <2>3, <2>4
<1>6. \A b \in Beginnings(text) : b < current' <=> b < current \/ b = current
  <2>1. \A b \in Beginnings(text) : b \in Int
    BY DEF Beginnings
  <2>2. CASE current' = j
    BY <1>3, <2>2
  <2>3. CASE current' = j + 1 /\ j < Len(text)
    <3>1. \A b \in Beginnings(text) : b < current' <=> b < j
      BY <1>1, <1>4, <2>1, <2>3
    <3> QED
      BY <1>3, <3>1
  <2> QED
    BY <1>5, <2>2, <2>3
<1>7. current' < Len(text) => Opens(text, current')
  <2>1. ASSUME current' < Len(text)
        PROVE  Opens(text, current')
    <3>1. current' = j + 1 /\ j < Len(text)
      BY <1>1, <1>5, <2>1
    <3>2. Modes(text)[current'] = "free"
      BY <1>4, <3>1
    <3> QED
      BY <3>2, GoesOnTable DEF Opens, Quotes
  <2> QED
    BY <2>1
<1>8. WhereInv'
  <2>1. Char \in Known \ {Nul}
    BY NulAssumption DEF Known
  <2>2. \A b \in Beginnings(text) : b < current' => text[b + 1] \in Known \ {Nul}
    BY <1>1, <1>2, <1>6, <2>1 DEF WhereInv
  <2> QED
    BY <1>2, <1>5, <1>7, <2>2 DEF WhereInv
<1>9. WordsInv'
  <2>1. From(text, current) = current + 1 /\ EndOf(text, current) \in Nat
    BY <1>1 DEF From
  <2>2. "STRING" \in TokenKinds
    BY DEF TokenKinds
  <2> QED
    BY <1>1, <1>2, <1>3, <1>6, <2>1, <2>2, ReadWords
<1>10. \A k \in current..(current' - 1) : At(k) # "\n" \/ Modes(text)[k] \in Quotes
  <2>1. Char # "\n"
    BY DEF Quotes
  <2>2. \A k \in current..(j - 1) : At(k) # "\n" \/ Modes(text)[k] \in Quotes
    BY <1>1, <1>2, <2>1, RunLine
  <2>3. ASSUME NEW k \in current..(current' - 1), k \notin current..(j - 1)
        PROVE  Modes(text)[k] \in Quotes
    <3>1. k = j /\ j < Len(text)
      BY <1>1, <1>5, <2>3
    <3> QED
      BY <1>4, <3>1
  <2> QED
    BY <2>2, <2>3
<1>11. LinesCounted'
  <2>1. current' \in Nat
    BY <1>5
  <2> QED
    BY <1>2, <1>5, <1>10, <2>1, SameLine
<1> QED
  BY <1>2, <1>8, <1>9, <1>11 DEF LexInv

-----------------------------------------------------------------------------
(* The actions.                                                              *)

\* A character of the program is in the text.
LEMMA Inside ==
    ASSUME LexInv, Char # Nul
    PROVE  /\ current < Len(text) /\ current \in 0..(Len(text) - 1)
           /\ Char \in Chars
<1>1. current < Len(text)
  BY DEF Char, At
<1>2. text \in Seq(Chars) /\ current \in 0..(Len(text) - 1)
  BY <1>1, TextTyped DEF LexInv, WhereInv
<1> QED
  BY <1>1, <1>2 DEF Char, At

\* One character that nothing goes on with.
LEMMA FreeRun ==
    ASSUME LexInv, status = "run", Char \in Blank \cup {"\n"} \cup Symbols,
           text' = text, status' = status
    PROVE  RunTo(current + 1)
<1>1. Char # Nul
  BY NulAssumption
<1>2. current < Len(text) /\ current \in 0..(Len(text) - 1)
  BY <1>1, Inside
<1>3. text \in Seq(Chars)
  BY TextTyped DEF LexInv
<1>4. text[current + 1] = Char /\ Char \in Chars
  BY <1>2, <1>3 DEF Char, At
<1>5. Enter(text[current + 1]) = "free"
  BY <1>4, EnterTable
<1>6. Stays(text, current, current + 1)
  BY <1>5, GoesOnTable DEF Stays
<1>7. Runs(text, current, current + 1)
  BY <1>2 DEF Runs
<1>8. current + 1 \in (current + 1)..Len(text)
  BY <1>2, <1>3
<1> QED
  BY <1>2, <1>6, <1>7, <1>8 DEF RunTo

\* A newline is skipped, and counted.
LEMMA NewlineStep == LexInv /\ Newline => LexInv'
<1>. SUFFICES ASSUME LexInv, Newline PROVE LexInv'
  OBVIOUS
<1>1. RunTo(current + 1)
  BY FreeRun DEF Newline, Skip
<1> QED
  BY <1>1, SkipRun DEF Newline, Skip

\* Other white space is skipped.
LEMMA SpaceStep == LexInv /\ Space => LexInv'
<1>. SUFFICES ASSUME LexInv, Space PROVE LexInv'
  OBVIOUS
<1>1. RunTo(current + 1)
  BY FreeRun DEF Space, Skip
<1>2. Char # "\n"
  BY DEF Space, Blank
<1> QED
  BY <1>1, <1>2, SkipRun DEF Space, Skip

\* A symbol is a token of one character.
LEMMA SymbolStep == LexInv /\ Symbol => LexInv'
<1>. SUFFICES ASSUME LexInv, Symbol PROVE LexInv'
  OBVIOUS
<1>1. Char \in Symbols
  BY DEF Symbol, SymbolFunction
<1>2. RunTo(current + 1)
  BY <1>1, FreeRun DEF Symbol, Token
<1>3. Char \in Known \ ({Nul, "\n", "#"} \cup Blank \cup Quotes)
  <2>1. Char \in Known /\ Char # Nul
    BY <1>1, NulAssumption DEF Known, SymbolFunction
  <2>2. Char \notin {"\n", "#"} \cup Blank \cup Quotes
    BY <1>1 DEF Symbols, Blank, Quotes
  <2> QED
    BY <2>1, <2>2
<1>4. SymbolFunction[Char] \in TokenKinds
  BY <1>1 DEF TokenKinds
<1> QED
  BY <1>2, <1>3, <1>4, ReadRun DEF Symbol, Token

\* A comment is skipped up to its newline.
LEMMA CommentStep == LexInv /\ Comment => LexInv'
<1>. SUFFICES ASSUME LexInv, Comment PROVE LexInv'
  OBVIOUS
<1>1. Char = "#" /\ Char # Nul
  BY NulAssumption DEF Comment
<1>2. current < Len(text) /\ current \in 0..(Len(text) - 1)
  BY <1>1, Inside
<1>3. text \in Seq(Chars) /\ Len(text) \in Nat
  BY TextTyped DEF LexInv
<1>4. text[current + 1] = "#" /\ "#" \in Chars
  BY <1>1, <1>2, <1>3 DEF Char, At
<1>5. Enter(text[current + 1]) = "comment"
  BY <1>4, EnterTable
<1>6. PICK j : j = First(current, PlacesOf("\n"))
  OBVIOUS
<1>7. /\ j \in current..Len(text)
      /\ j < Len(text) => j \in PlacesOf("\n")
      /\ \A k \in current..(j - 1) : k \notin PlacesOf("\n")
  <2>1. PlacesOf("\n") \in SUBSET (0..(Len(text) - 1)) /\ current \in 0..Len(text)
    BY <1>2, <1>3 DEF PlacesOf
  <2> QED
    BY <1>3, <1>6, <2>1, FirstPlace
<1>8. j \in (current + 1)..Len(text)
  <2>1. current \notin PlacesOf("\n")
    BY <1>1 DEF PlacesOf, Char
  <2> QED
    BY <1>2, <1>3, <1>7, <2>1
<1>9. Runs(text, current, j)
  <2>1. ASSUME NEW k \in (current + 1)..(j - 1)
        PROVE  text[k + 1] # "\n"
    <3>1. k \in current..(j - 1) /\ k \in 0..(Len(text) - 1) /\ k < Len(text)
      BY <1>2, <1>3, <1>8
    <3> QED
      BY <1>7, <3>1 DEF PlacesOf, At
  <2> QED
    BY <1>5, <2>1, GoesOnTable DEF Runs
<1>10. Stays(text, current, j)
  <2>1. j < Len(text) => text[j + 1] = "\n"
    BY <1>7 DEF PlacesOf, At
  <2> QED
    BY <1>3, <1>5, <1>8, <2>1, GoesOnTable DEF Stays
<1>11. RunTo(j)
  BY <1>2, <1>8, <1>9, <1>10 DEF RunTo, Comment, Skip
<1>12. Char # "\n"
  BY <1>1
<1> QED
  BY <1>1, <1>6, <1>11, <1>12, SkipRun DEF Comment, Skip

\* A run of the characters that go on with what the first one opens.
LEMMA CharsRun ==
    ASSUME LexInv, status = "run", Char # Nul, NEW chars, Char \in chars,
           \A c \in Chars : GoesOn(Enter(Char), c) <=> c \in chars,
           text' = text, status' = status
    PROVE  RunTo(EndOfRun(chars))
<1>1. current < Len(text) /\ current \in 0..(Len(text) - 1)
  BY Inside
<1>2. text \in Seq(Chars) /\ Len(text) \in Nat
  BY TextTyped DEF LexInv
<1>3. text[current + 1] = Char
  BY <1>1 DEF Char, At
<1>4. PICK j : j = EndOfRun(chars)
  OBVIOUS
<1>5. /\ j \in (current + 1)..Len(text)
      /\ j < Len(text) => text[j + 1] \notin chars
      /\ \A k \in (current + 1)..(j - 1) : text[k + 1] \in chars
  BY <1>1, <1>4, RunPlace DEF LexInv
<1>6. \A k \in (current + 1)..Len(text) : k < Len(text) => text[k + 1] \in Chars
  BY <1>1, <1>2
<1>7. Runs(text, current, j)
  <2>1. \A k \in (current + 1)..(j - 1) : k \in (current + 1)..Len(text) /\ k < Len(text)
    BY <1>1, <1>2, <1>5
  <2> QED
    BY <1>3, <1>5, <1>6, <2>1 DEF Runs
<1>8. Stays(text, current, j)
  BY <1>2, <1>3, <1>5, <1>6 DEF Stays
<1> QED
  BY <1>1, <1>4, <1>5, <1>7, <1>8 DEF RunTo

\* A number goes on over digits.
LEMMA NumberStep == LexInv /\ Number => LexInv'
<1>. SUFFICES ASSUME LexInv, Number PROVE LexInv'
  OBVIOUS
<1>1. Char \in Digits /\ Char # Nul /\ Char \in Chars
  BY NulAssumption, Inside DEF Number
<1>2. \A c \in Chars : GoesOn(Enter(Char), c) <=> c \in Digits
  BY <1>1, EnterTable, GoesOnTable
<1>3. RunTo(EndOfRun(Digits))
  BY <1>1, <1>2, CharsRun DEF Number, Token
<1>4. Char \in Known \ ({Nul, "\n", "#"} \cup Blank \cup Quotes)
  <2>1. Char \notin {"\n", "#"} \cup Blank \cup Quotes
    BY <1>1 DEF Digits, Blank, Quotes
  <2> QED
    BY <1>1, <2>1 DEF Known
<1>5. "NUMBER" \in TokenKinds
  BY DEF TokenKinds
<1> QED
  BY <1>3, <1>4, <1>5, ReadRun DEF Number, Token

\* A name goes on over letters, digits and _.
LEMMA IdentifierStep == LexInv /\ Identifier => LexInv'
<1>. SUFFICES ASSUME LexInv, Identifier PROVE LexInv'
  OBVIOUS
<1>1. Char \in Lowers \cup {"_"} /\ Char # Nul /\ Char \in Chars
  BY NulAssumption, Inside DEF Identifier
<1>2. \A c \in Chars : GoesOn(Enter(Char), c) <=> c \in NameChars
  BY <1>1, EnterTable, GoesOnTable
<1>3. RunTo(EndOfRun(NameChars))
  BY <1>1, <1>2, CharsRun DEF Identifier, Token, NameChars
<1>4. Char \in Known \ ({Nul, "\n", "#"} \cup Blank \cup Quotes)
  <2>1. Char \notin {"\n", "#"} \cup Blank \cup Quotes
    BY <1>1 DEF Lowers, Blank, Quotes
  <2> QED
    BY <1>1, <2>1 DEF Known
<1>5. "IDENTIFIER" \in TokenKinds
  BY DEF TokenKinds
<1> QED
  BY <1>3, <1>4, <1>5, ReadRun DEF Identifier, Token

\* A word goes on over capitals and _.
LEMMA WordStep == LexInv /\ Word => LexInv'
<1>. SUFFICES ASSUME LexInv, Word PROVE LexInv'
  OBVIOUS
<1>1. Char \in DOMAIN WordFunction /\ Char \in Uppers
  BY DEF Word, Uppers
<1>2. Char # Nul /\ Char \in Chars
  BY <1>1, NulAssumption, Inside
<1>3. \A c \in Chars : GoesOn(Enter(Char), c) <=> c \in WordChars
  BY <1>1, <1>2, EnterTable, GoesOnTable
<1>4. RunTo(EndOfRun(WordChars))
  BY <1>1, <1>2, <1>3, CharsRun DEF Word, Token, WordChars
<1>5. Char \in Known \ ({Nul, "\n", "#"} \cup Blank \cup Quotes)
  <2>1. Char \notin {"\n", "#"} \cup Blank \cup Quotes
    BY <1>1 DEF WordFunction, Blank, Quotes
  <2> QED
    BY <1>1, <1>2, <2>1 DEF Known
<1>6. WordFunction[Char] \in TokenKinds
  BY <1>1 DEF TokenKinds
<1> QED
  BY <1>4, <1>5, <1>6, ReadRun DEF Word, Token

\* A string goes on up to its quote, or to the end.
LEMMA StringStep == LexInv /\ String => LexInv'
<1>. SUFFICES ASSUME LexInv, String PROVE LexInv'
  OBVIOUS
<1>1. Char \in Quotes /\ Char # Nul
  BY NulAssumption DEF String
<1>2. current < Len(text) /\ current \in 0..(Len(text) - 1)
  BY <1>1, Inside
<1>3. text \in Seq(Chars) /\ Len(text) \in Nat
  BY TextTyped DEF LexInv
<1>4. text[current + 1] = Char /\ Char \in Chars
  BY <1>1, <1>2, <1>3 DEF Char, At
<1>5. Enter(text[current + 1]) = Char
  BY <1>1, <1>4, EnterTable
<1>6. PICK j : j = First(current + 1, PlacesOf(Char))
  OBVIOUS
<1>7. /\ j \in (current + 1)..Len(text)
      /\ j < Len(text) => j \in PlacesOf(Char)
      /\ \A k \in (current + 1)..(j - 1) : k \notin PlacesOf(Char)
  <2>1. PlacesOf(Char) \in SUBSET (0..(Len(text) - 1)) /\ current + 1 \in 0..Len(text)
    BY <1>2, <1>3 DEF PlacesOf
  <2> QED
    BY <1>3, <1>6, <2>1, FirstPlace
<1>8. Runs(text, current, j)
  <2>1. ASSUME NEW k \in (current + 1)..(j - 1)
        PROVE  text[k + 1] # Char
    <3>1. k \in 0..(Len(text) - 1) /\ k < Len(text)
      BY <1>2, <1>3, <1>7
    <3> QED
      BY <1>7, <3>1 DEF PlacesOf, At
  <2> QED
    BY <1>1, <1>5, <2>1, GoesOnTable DEF Runs
<1>9. Stays(text, current, j)
  <2>1. j < Len(text) => text[j + 1] = Char
    BY <1>7 DEF PlacesOf, At
  <2>2. ~GoesOn(Char, Char)
    BY <1>1, GoesOnTable
  <2>3. j < Len(text) \/ j = Len(text)
    BY <1>3, <1>7
  <2> QED
    BY <1>5, <2>1, <2>2, <2>3 DEF Stays
<1>10. RunTo(j)
  BY <1>2, <1>7, <1>8, <1>9 DEF RunTo, String, Token
<1> QED
  BY <1>1, <1>6, <1>10, ReadString DEF String, Token

\* Where the lexer stops, and at rest, nothing is read.
LEMMA StopStep == LexInv /\ (Unknown \/ End \/ UNCHANGED vars) => LexInv'
<1>. SUFFICES ASSUME LexInv, Unknown \/ End \/ UNCHANGED vars PROVE LexInv'
  OBVIOUS
<1>1. UNCHANGED <<text, current, linenumber, tokens>>
  BY DEF Unknown, End, vars
<1>2. WhereInv' /\ WordsInv'
  BY <1>1 DEF LexInv, WhereInv, WordsInv, Starts
<1>3. linenumber' \in Nat /\ LinesCounted' /\ Char' = Char
  BY <1>1 DEF LexInv, LinesCounted, Char, At
<1>4. /\ status' = "end" => Char = Nul
      /\ status' = "panic" => Char \notin Known
  <2>1. CASE Unknown
    BY <2>1 DEF Unknown
  <2>2. CASE End
    BY <2>2 DEF End
  <2>3. CASE UNCHANGED vars
    BY <2>3 DEF vars, LexInv
  <2> QED
    BY <2>1, <2>2, <2>3
<1> QED
  BY <1>2, <1>3, <1>4 DEF LexInv

\* Before the first step nothing is read.
LEMMA InitStep == Init => LexInv
<1>. SUFFICES ASSUME Init PROVE LexInv
  OBVIOUS
<1>1. /\ text \in Seq(Chars) /\ text \in Texts /\ current = 0 /\ linenumber = 1
      /\ tokens = <<>> /\ status = "run" /\ Len(text) \in Nat
  BY TextsAssumption DEF Init, Chars
<1>2. \A b \in Beginnings(text) : ~(b < current)
  BY <1>1 DEF Beginnings
<1>3. Opens(text, current)
  BY <1>1, ModesStep, GoesOnTable DEF Opens, Quotes
<1>4. WhereInv
  BY <1>1, <1>2, <1>3 DEF WhereInv
<1>5. WordsInv
  <2>1. Starts(<<>>)
    BY <1>2 DEF Starts
  <2>2. Places(tokens) = [k \in DOMAIN <<>> |-> PlaceOf(text, <<>>[k])]
    BY <1>1 DEF Places
  <2>3. <<>> \in Seq(Nat) /\ tokens \in Seq([kind : TokenKinds, from : Nat, length : Int])
    BY <1>1
  <2> QED
    BY <2>1, <2>2, <2>3 DEF WordsInv
<1>6. LinesCounted
  <2>1. {i \in 0..(current - 1) : At(i) = "\n" /\ Modes(text)[i] \notin Quotes} = {}
    BY <1>1
  <2> QED
    BY <1>1, <2>1, FS_EmptySet DEF LinesCounted
<1> QED
  BY <1>1, <1>4, <1>5, <1>6 DEF LexInv

\* Every step keeps the invariant.
LEMMA NextStep == LexInv /\ [Next]_vars => LexInv'
BY NewlineStep, CommentStep, SpaceStep, NumberStep, StringStep, IdentifierStep,
   WordStep, SymbolStep, StopStep DEF Next, Rest

-----------------------------------------------------------------------------
(* A text without one of its blanks.                                         *)

\* Nothing else is ever open.
LEMMA ModeKinds ==
    ASSUME NEW t \in Seq(Chars)
    PROVE  \A i \in 0..Len(t) : Modes(t)[i] \in ModeNames
<1>. DEFINE N == {i \in Nat : Modes(t)[i] \in ModeNames}
<1>1. 0 \in N
  BY ModesStep DEF ModeNames
<1>2. ASSUME NEW i \in 1..Len(t), i - 1 \in N
      PROVE  i \in N
  <2>1. PICK m : m = Modes(t)[i]
    OBVIOUS
  <2>2. PICK e : e = Enter(t[i])
    OBVIOUS
  <2>3. e \in ModeNames
    BY <2>2 DEF Enter, ModeNames
  <2>4. m = Modes(t)[i - 1] \/ m = "free" \/ m = e
    BY <2>1, <2>2, ModesStep
  <2>5. m \in ModeNames
    BY <1>2, <2>3, <2>4 DEF ModeNames
  <2> QED
    BY <2>1, <2>5
<1>3. 0..Len(t) \subseteq N
  <2>. HIDE DEF N
  <2>1. Len(t) \in Nat
    OBVIOUS
  <2> QED
    BY <1>1, <1>2, <2>1, Shared!UpTo
<1> QED
  BY <1>3

\* What is open was opened by a character, and all characters since then
\* went on with it.
LEMMA ModeOpened ==
    ASSUME NEW t \in Seq(Chars), NEW i \in 0..Len(t), Modes(t)[i] # "free"
    PROVE  \E b \in 0..(i - 1) :
              /\ Opens(t, b) /\ Enter(t[b + 1]) = Modes(t)[i]
              /\ \A k \in (b + 1)..(i - 1) : GoesOn(Modes(t)[k], t[k + 1])
<1>. DEFINE P(n, b) == /\ Opens(t, b) /\ Enter(t[b + 1]) = Modes(t)[n]
                       /\ \A k \in (b + 1)..(n - 1) : GoesOn(Modes(t)[k], t[k + 1])
            N == {n \in Nat : Modes(t)[n] # "free" => \E b \in 0..(n - 1) : P(n, b)}
<1>1. 0 \in N
  BY ModesStep
<1>2. ASSUME NEW n \in 1..Len(t), n - 1 \in N, Modes(t)[n] # "free"
      PROVE  \E b \in 0..(n - 1) : P(n, b)
  <2>0. (n - 1) + 1 = n /\ n - 1 \in 0..(n - 1)
    OBVIOUS
  <2>1. CASE GoesOn(Modes(t)[n - 1], t[n])
    <3>1. Modes(t)[n - 1] = Modes(t)[n]
      BY <2>1, ModesStep
    <3>2. PICK b \in 0..((n - 1) - 1) : P(n - 1, b)
      BY <1>2, <3>1
    <3>3. \A k \in (b + 1)..(n - 1) : k \in (b + 1)..((n - 1) - 1) \/ k = n - 1
      OBVIOUS
    <3>4. P(n, b) /\ b \in 0..(n - 1)
      BY <2>0, <2>1, <3>1, <3>2, <3>3
    <3>. HIDE DEF P
    <3> QED
      BY <3>4
  <2>2. CASE ~GoesOn(Modes(t)[n - 1], t[n])
    <3>1. Modes(t)[n - 1] \notin Quotes /\ Modes(t)[n] = Enter(t[n])
      BY <1>2, <2>2, ModesStep
    <3>2. Opens(t, n - 1)
      BY <2>0, <2>2, <3>1 DEF Opens
    <3>3. P(n, n - 1)
      BY <2>0, <3>1, <3>2
    <3>. HIDE DEF P
    <3> QED
      BY <2>0, <3>3
  <2> QED
    BY <2>1, <2>2
<1>3. 0..Len(t) \subseteq N
  <2>1. \A n \in 1..Len(t) : n - 1 \in N => n \in N
    BY <1>2
  <2>. HIDE DEF N
  <2>2. Len(t) \in Nat
    OBVIOUS
  <2> QED
    BY <1>1, <2>1, <2>2, Shared!UpTo
<1> QED
  BY <1>3

\* Where a token ends.
EndsAt(t, b, e) ==
    /\ e \in (b + 1)..Len(t)
    /\ e = Len(t) \/ ~GoesOn(Modes(t)[e], t[e + 1])
    /\ \A k \in (b + 1)..(e - 1) : GoesOn(Modes(t)[k], t[k + 1])

\* There is one such place, and EndOf is it.
LEMMA EndPlace ==
    ASSUME NEW t \in Seq(Chars), NEW b \in 0..(Len(t) - 1)
    PROVE  /\ EndsAt(t, b, EndOf(t, b))
           /\ \A e : EndsAt(t, b, e) => EndOf(t, b) = e
<1>. DEFINE Stop(e) == e = Len(t) \/ ~GoesOn(Modes(t)[e], t[e + 1])
            N == {e \in (b + 1)..Len(t) : Stop(e)}
<1>1. PICK e \in N : \A y \in N : e <= y
  <2>1. Len(t) \in N /\ N \subseteq Nat
    OBVIOUS
  <2>. HIDE DEF N
  <2> QED
    BY <2>1, Shared!LeastNumber
<1>2. EndsAt(t, b, e)
  <2>1. ASSUME NEW k \in (b + 1)..(e - 1)
        PROVE  GoesOn(Modes(t)[k], t[k + 1])
    <3>1. k \in (b + 1)..Len(t) /\ ~(e <= k)
      OBVIOUS
    <3> QED
      BY <1>1, <3>1
  <2> QED
    BY <2>1 DEF EndsAt
<1>3. ASSUME NEW x, NEW y, EndsAt(t, b, x), EndsAt(t, b, y)
      PROVE  ~(x < y)
  <2>1. x \in Int /\ y \in Int /\ Len(t) \in Int /\ y <= Len(t) /\ b + 1 <= x
    BY <1>3 DEF EndsAt
  <2>2. x < y => x \in (b + 1)..(y - 1) /\ x # Len(t)
    BY <2>1
  <2> QED
    BY <1>3, <2>2 DEF EndsAt
<1>4. ASSUME NEW x, EndsAt(t, b, x)
      PROVE  x = e
  <2>1. x \in Int /\ e \in Int
    BY <1>2, <1>4 DEF EndsAt
  <2>2. ~(x < e) /\ ~(e < x)
    BY <1>2, <1>3, <1>4
  <2> QED
    BY <2>1, <2>2
<1>5. EndOf(t, b) = CHOOSE x \in (b + 1)..Len(t) : EndsAt(t, b, x)
  BY DEF EndOf, EndsAt
<1>6. e \in (b + 1)..Len(t)
  BY <1>2 DEF EndsAt
<1>7. EndOf(t, b) = e
  BY <1>2, <1>4, <1>5, <1>6
<1> QED
  BY <1>2, <1>4, <1>7

\* Where reading stops.
StopsAt(t, n) ==
    /\ n \in 0..Len(t)
    /\ n = Len(t) \/ (n \in Beginnings(t) /\ t[n + 1] \notin Known \ {Nul})
    /\ \A i \in 0..(n - 1) : i \in Beginnings(t) => t[i + 1] \in Known \ {Nul}

\* There is one such place, and StopOf is it.
LEMMA StopAlways ==
    ASSUME NEW t \in Seq(Chars)
    PROVE  /\ StopsAt(t, StopOf(t))
           /\ \A n : StopsAt(t, n) => StopOf(t) = n
<1>. DEFINE Stop(n) == n = Len(t) \/ (n \in Beginnings(t) /\ t[n + 1] \notin Known \ {Nul})
            N == {n \in 0..Len(t) : Stop(n)}
<1>1. PICK e \in N : \A y \in N : e <= y
  <2>1. Len(t) \in N /\ N \subseteq Nat
    OBVIOUS
  <2>. HIDE DEF N
  <2> QED
    BY <2>1, Shared!LeastNumber
<1>2. StopsAt(t, e)
  <2>1. ASSUME NEW k \in 0..(e - 1), k \in Beginnings(t)
        PROVE  t[k + 1] \in Known \ {Nul}
    <3>1. k \in 0..Len(t) /\ ~(e <= k)
      OBVIOUS
    <3> QED
      BY <1>1, <2>1, <3>1
  <2> QED
    BY <2>1 DEF StopsAt
<1>3. ASSUME NEW x, NEW y, StopsAt(t, x), StopsAt(t, y)
      PROVE  ~(x < y)
  <2>1. x \in Int /\ y \in Int /\ Len(t) \in Int /\ y <= Len(t) /\ 0 <= x
    BY <1>3 DEF StopsAt
  <2>2. x < y => x \in 0..(y - 1) /\ x # Len(t)
    BY <2>1
  <2> QED
    BY <1>3, <2>2 DEF StopsAt
<1>4. ASSUME NEW x, StopsAt(t, x)
      PROVE  x = e
  <2>1. x \in Int /\ e \in Int
    BY <1>2, <1>4 DEF StopsAt
  <2>2. ~(x < e) /\ ~(e < x)
    BY <1>2, <1>3, <1>4
  <2> QED
    BY <2>1, <2>2
<1>5. StopOf(t) = CHOOSE x \in 0..Len(t) : StopsAt(t, x)
  BY DEF StopOf, StopsAt
<1>6. e \in 0..Len(t)
  BY <1>2 DEF StopsAt
<1>7. StopOf(t) = e
  BY <1>2, <1>4, <1>5, <1>6
<1> QED
  BY <1>2, <1>4, <1>7


\* q is t without the blank or newline at i, which is part of no string and of
\* no comment.
LeavesOut(t, q, i) ==
    /\ t \in Seq(Chars) /\ q \in Seq(Chars)
    /\ i \in 0..(Len(t) - 1) /\ Len(q) = Len(t) - 1
    /\ \A k \in 0..(i - 1) : q[k + 1] = t[k + 1]
    /\ \A k \in i..(Len(q) - 1) : q[k + 1] = t[k + 2]
    /\ t[i + 1] \in Blank \cup {"\n"}
    /\ Modes(t)[i] \notin Quotes \cup {"comment"}

\* What RemoveAt leaves.
LEMMA RemovedAt ==
    ASSUME NEW t \in Seq(Chars), NEW i \in 0..(Len(t) - 1),
           t[i + 1] \in Blank \cup {"\n"},
           Modes(t)[i] \notin Quotes \cup {"comment"}
    PROVE  LeavesOut(t, RemoveAt(t, i + 1), i)
<1>1. PICK n \in Nat : n = Len(t)
  OBVIOUS
<1>2. PICK u : u = SubSeq(t, 1, (i + 1) - 1)
  OBVIOUS
<1>3. PICK v : v = SubSeq(t, (i + 1) + 1, n)
  OBVIOUS
<1>4. u \in Seq(Chars) /\ Len(u) = i /\ \A k \in 1..i : u[k] = t[k]
  <2>1. (i + 1) - 1 = i /\ i \in Int /\ 1 \in Int /\ \A k \in 1..i : t[k] \in Chars
    BY <1>1
  <2>2. /\ u \in Seq(Chars) /\ Len(u) = (IF 1 <= i THEN i - 1 + 1 ELSE 0)
        /\ \A k \in 1..(i - 1 + 1) : u[k] = t[1 + k - 1]
    BY <1>2, <2>1, SubSeqProperties
  <2>3. \A k \in 1..i : 1 + k - 1 = k
    OBVIOUS
  <2>4. i - 1 + 1 = i /\ (~(1 <= i) => i = 0)
    BY <1>1
  <2> QED
    BY <2>2, <2>3, <2>4
<1>5. v \in Seq(Chars) /\ Len(v) = n - i - 1 /\ \A k \in 1..(n - i - 1) : v[k] = t[i + 1 + k]
  <2>1. (i + 1) + 1 = i + 2 /\ i + 2 \in Int /\ n \in Int /\ \A k \in (i + 2)..n : t[k] \in Chars
    BY <1>1
  <2>2. /\ v \in Seq(Chars) /\ Len(v) = (IF i + 2 <= n THEN n - (i + 2) + 1 ELSE 0)
        /\ \A k \in 1..(n - (i + 2) + 1) : v[k] = t[(i + 2) + k - 1]
    BY <1>3, <2>1, SubSeqProperties
  <2>3. \A k \in 1..(n - i - 1) : (i + 2) + k - 1 = i + 1 + k
    BY <1>1
  <2>4. n - (i + 2) + 1 = n - i - 1 /\ (~(i + 2 <= n) => n - i - 1 = 0)
    BY <1>1
  <2> QED
    BY <2>2, <2>3, <2>4
<1>6. PICK q : q = RemoveAt(t, i + 1)
  OBVIOUS
<1>7. q = u \o v
  BY <1>1, <1>2, <1>3, <1>6 DEF RemoveAt
<1>8. /\ q \in Seq(Chars) /\ Len(q) = n - 1
      /\ \A k \in 1..(n - 1) : q[k] = IF k <= i THEN u[k] ELSE v[k - i]
  <2>0. /\ q \in Seq(Chars) /\ Len(q) = Len(u) + Len(v)
        /\ \A k \in 1..(Len(u) + Len(v)) :
              q[k] = IF k <= Len(u) THEN u[k] ELSE v[k - Len(u)]
    <3>1. u \in Seq(Chars) /\ v \in Seq(Chars)
      BY <1>4, <1>5
    <3> QED
      BY <3>1, <1>7, ConcatProperties
  <2>1. /\ q \in Seq(Chars) /\ Len(q) = i + (n - i - 1)
        /\ \A k \in 1..(i + (n - i - 1)) : q[k] = IF k <= i THEN u[k] ELSE v[k - i]
    BY <2>0, <1>4, <1>5
  <2>2. i + (n - i - 1) = n - 1
    BY <1>1
  <2> QED
    BY <2>1, <2>2
<1>9. ASSUME NEW k \in 0..(i - 1)
      PROVE  q[k + 1] = t[k + 1]
  <2>1. k + 1 \in 1..(n - 1) /\ k + 1 <= i /\ k + 1 \in 1..i
    BY <1>1
  <2> QED
    BY <1>4, <1>8, <2>1
<1>10. ASSUME NEW k \in i..(n - 2)
      PROVE  q[k + 1] = t[k + 2]
  <2>1. k + 1 \in 1..(n - 1) /\ ~(k + 1 <= i) /\ (k + 1) - i \in 1..(n - i - 1)
    BY <1>1
  <2>2. i + 1 + ((k + 1) - i) = k + 2
    BY <1>1
  <2> QED
    BY <1>5, <1>8, <2>1, <2>2
<1>11. Len(q) - 1 = n - 2
  BY <1>1, <1>8
<1> QED
  BY <1>1, <1>6, <1>8, <1>9, <1>10, <1>11 DEF LeavesOut

\* It is needed where the character behind it goes on with what is open
\* before it.
LEMMA NeededTable ==
    ASSUME NEW m \in ModeNames, m \notin Quotes \cup {"comment"}, NEW c
    PROVE  Needed(m, c) <=> GoesOn(m, c)
<1>1. m \in {"free", "number", "name", "word"}
  BY DEF ModeNames
<1>2. Needed("free", c) <=> FALSE
  BY DEF Needed
<1>3. Needed("number", c) <=> c \in Digits
  BY DEF Needed
<1>4. Needed("name", c) <=> c \in NameChars
  BY DEF Needed, NameChars
<1>5. Needed("word", c) <=> c \in WordChars
  BY DEF Needed, WordChars
<1> QED
  BY <1>1, <1>2, <1>3, <1>4, <1>5, GoesOnTable

\* No character before it is read otherwise without it, and it ends what is
\* open.
LEMMA BeforeBlank ==
    ASSUME NEW t, NEW q, NEW i, LeavesOut(t, q, i)
    PROVE  /\ \A k \in 0..i : Modes(q)[k] = Modes(t)[k]
           /\ Modes(t)[i] \in ModeNames /\ ~GoesOn(Modes(t)[i], t[i + 1])
           /\ Modes(t)[i + 1] = "free" /\ i \notin Beginnings(t)
           /\ \A b \in 0..(i - 1) : b \in Beginnings(q) <=> b \in Beginnings(t)
<1>1. /\ t \in Seq(Chars) /\ q \in Seq(Chars) /\ i \in 0..(Len(t) - 1)
      /\ Len(q) = Len(t) - 1 /\ \A k \in 0..(i - 1) : q[k + 1] = t[k + 1]
      /\ t[i + 1] \in Blank \cup {"\n"} /\ Modes(t)[i] \notin Quotes \cup {"comment"}
  BY DEF LeavesOut
<1>. DEFINE N == {k \in Nat : Modes(q)[k] = Modes(t)[k]}
<1>2. 0 \in N
  BY <1>1, ModesStep
<1>3. ASSUME NEW k \in 1..i, k - 1 \in N
      PROVE  k \in N
  <2>1. k \in 1..Len(t) /\ k \in 1..Len(q) /\ k - 1 \in 0..(i - 1) /\ (k - 1) + 1 = k
    BY <1>1
  <2>2. q[k] = t[k]
    BY <1>1, <2>1
  <2>3. Modes(q)[k - 1] = Modes(t)[k - 1]
    BY <1>3
  <2>4. Modes(q)[k] = Modes(t)[k]
    BY <1>1, <2>1, <2>2, <2>3, ModesStep
  <2> QED
    BY <2>1, <2>4
<1>4. 0..i \subseteq N
  <2>. HIDE DEF N
  <2>1. i \in Nat
    BY <1>1
  <2> QED
    BY <1>2, <1>3, <2>1, Shared!UpTo
<1>5. Modes(t)[i] \in ModeNames
  <2>1. i \in 0..Len(t)
    BY <1>1
  <2> QED
    BY <1>1, <2>1, ModeKinds
<1>6. PICK x \in Blank \cup {"\n"} : x = t[i + 1]
  BY <1>1
<1>7. x \notin Digits /\ x \notin NameChars /\ x \notin WordChars
  <2>1. x \notin Digits
    BY DEF Digits, Blank
  <2>2. x \notin Lowers \cup {"_"}
    BY DEF Lowers, Blank
  <2>3. x \notin Uppers
    BY DEF Uppers, WordFunction, Blank
  <2> QED
    BY <2>1, <2>2, <2>3 DEF NameChars, WordChars, Blank
<1>8. ~GoesOn(Modes(t)[i], x)
  <2>1. Modes(t)[i] \in {"free", "number", "name", "word"}
    BY <1>1, <1>5 DEF ModeNames
  <2> QED
    BY <1>7, <2>1, GoesOnTable
<1>9. Modes(t)[i + 1] = "free"
  <2>1. i + 1 \in 1..Len(t) /\ (i + 1) - 1 = i /\ x \in Chars
    BY <1>1, <1>6
  <2>2. Enter(x) = "free"
    BY <2>1, EnterTable
  <2> QED
    BY <1>1, <1>6, <1>8, <2>1, <2>2, ModesStep
<1>10. i \notin Beginnings(t)
  BY <1>1 DEF Beginnings
<1>11. ASSUME NEW b \in 0..(i - 1)
       PROVE  b \in Beginnings(q) <=> b \in Beginnings(t)
  <2>1. b \in 0..(Len(q) - 1) /\ b \in 0..(Len(t) - 1) /\ b \in 0..i
    BY <1>1
  <2>2. q[b + 1] = t[b + 1] /\ Modes(q)[b] = Modes(t)[b]
    BY <1>1, <1>4, <2>1
  <2> QED
    BY <2>1, <2>2 DEF Beginnings
<1> QED
  BY <1>4, <1>5, <1>6, <1>8, <1>9, <1>10, <1>11


\* Where it is not needed, everything behind it is read as it was, one place
\* earlier.
LEMMA BehindBlank ==
    ASSUME NEW t, NEW q, NEW i, LeavesOut(t, q, i),
           i + 1 < Len(t) => ~GoesOn(Modes(t)[i], t[i + 2])
    PROVE  /\ \A k \in (i + 1)..Len(q) : Modes(q)[k] = Modes(t)[k + 1]
           /\ \A b \in i..(Len(q) - 1) : b \in Beginnings(q) <=> b + 1 \in Beginnings(t)
<1>1. /\ t \in Seq(Chars) /\ q \in Seq(Chars) /\ i \in 0..(Len(t) - 1)
      /\ Len(q) = Len(t) - 1 /\ Len(t) \in Nat
      /\ \A k \in 0..(i - 1) : q[k + 1] = t[k + 1]
      /\ \A k \in i..(Len(q) - 1) : q[k + 1] = t[k + 2]
      /\ Modes(t)[i] \notin Quotes
  BY DEF LeavesOut
<1>2. /\ \A k \in 0..i : Modes(q)[k] = Modes(t)[k]
      /\ Modes(t)[i + 1] = "free"
  BY BeforeBlank
<1>. DEFINE N == {d \in Nat : Modes(q)[i + 1 + d] = Modes(t)[i + 2 + d]}
<1>3. ASSUME i + 1 < Len(t)
      PROVE  0 \in N
  <2>1. /\ i + 1 \in 1..Len(q) /\ (i + 1) - 1 = i /\ i \in i..(Len(q) - 1) /\ i \in 0..i
        /\ i + 2 \in 1..Len(t) /\ (i + 2) - 1 = i + 1
        /\ i + 1 + 0 = i + 1 /\ i + 2 + 0 = i + 2
    BY <1>1, <1>3
  <2>2. q[i + 1] = t[i + 2] /\ Modes(q)[i] = Modes(t)[i]
    BY <1>1, <1>2, <2>1
  <2>3. Modes(q)[i + 1] = Enter(t[i + 2])
    BY <1>1, <1>3, <2>1, <2>2, ModesStep
  <2>4. ~GoesOn("free", t[i + 2]) /\ "free" \notin Quotes
    BY GoesOnTable DEF Quotes
  <2>5. Modes(t)[i + 2] = Enter(t[i + 2])
    BY <1>1, <1>2, <2>1, <2>4, ModesStep
  <2> QED
    BY <2>1, <2>3, <2>5
<1>4. ASSUME NEW d \in 1..(Len(q) - i - 1), d - 1 \in N
      PROVE  d \in N
  <2>1. PICK k \in Int : k = i + 1 + d
    BY <1>1
  <2>2. /\ k \in 1..Len(q) /\ k - 1 = i + 1 + (d - 1) /\ k - 1 \in i..(Len(q) - 1)
        /\ k + 1 \in 1..Len(t) /\ (k + 1) - 1 = k /\ i + 2 + (d - 1) = k /\ i + 2 + d = k + 1
        /\ (k - 1) + 1 = k /\ (k - 1) + 2 = k + 1
    BY <1>1, <2>1
  <2>3. Modes(q)[k - 1] = Modes(t)[k]
    BY <1>4, <2>2
  <2>4. q[k] = t[k + 1]
    BY <1>1, <2>2
  <2>5. Modes(q)[k] = Modes(t)[k + 1]
    BY <1>1, <2>2, <2>3, <2>4, ModesStep
  <2> QED
    BY <2>1, <2>2, <2>5
<1>5. ASSUME NEW k \in (i + 1)..Len(q)
      PROVE  Modes(q)[k] = Modes(t)[k + 1]
  <2>1. i + 1 < Len(t) /\ Len(q) - i - 1 \in Nat
    BY <1>1
  <2>2. 0..(Len(q) - i - 1) \subseteq N
    <3>1. \A d \in 1..(Len(q) - i - 1) : d - 1 \in N => d \in N
      BY <1>4
    <3>2. 0 \in N
      BY <1>3, <2>1
    <3>. HIDE DEF N
    <3> QED
      BY <2>1, <3>1, <3>2, Shared!UpTo
  <2>3. /\ k - i - 1 \in 0..(Len(q) - i - 1)
        /\ i + 1 + (k - i - 1) = k /\ i + 2 + (k - i - 1) = k + 1
    BY <1>1
  <2> QED
    BY <2>2, <2>3
<1>6. ASSUME NEW b \in i..(Len(q) - 1)
      PROVE  b \in Beginnings(q) <=> b + 1 \in Beginnings(t)
  <2>1. /\ b \in 0..(Len(q) - 1) /\ b + 1 \in 0..(Len(t) - 1) /\ i \in 0..i
        /\ (b + 1) + 1 = b + 2
    BY <1>1
  <2>2. q[b + 1] = t[b + 2]
    BY <1>1
  <2>3. CASE b = i
    <3>1. Modes(q)[b] = Modes(t)[i] /\ ~GoesOn(Modes(t)[i], t[b + 2])
      BY <1>1, <1>2, <2>1, <2>3
    <3>2. ~GoesOn("free", t[b + 2]) /\ "free" \notin Quotes
      BY GoesOnTable DEF Quotes
    <3>3. Modes(t)[b + 1] = "free"
      BY <1>2, <2>3
    <3> QED
      BY <1>1, <2>1, <2>2, <3>1, <3>2, <3>3 DEF Beginnings
  <2>4. CASE b # i
    <3>1. b \in (i + 1)..Len(q)
      BY <1>1, <2>4
    <3>2. Modes(q)[b] = Modes(t)[b + 1]
      BY <1>5, <3>1
    <3> QED
      BY <2>1, <2>2, <3>2 DEF Beginnings
  <2> QED
    BY <2>3, <2>4
<1> QED
  BY <1>5, <1>6

\* And what is read ends where it did.
LEMMA SameEnds ==
    ASSUME NEW t, NEW q, NEW i, LeavesOut(t, q, i),
           i + 1 < Len(t) => ~GoesOn(Modes(t)[i], t[i + 2])
    PROVE  /\ \A b \in 0..(i - 1) : EndOf(q, b) = EndOf(t, b) /\ EndOf(t, b) \in (b + 1)..i
           /\ \A b \in i..(Len(q) - 1) : /\ EndOf(t, b + 1) = EndOf(q, b) + 1
                                         /\ EndOf(q, b) \in (b + 1)..Len(q)
<1>1. /\ t \in Seq(Chars) /\ q \in Seq(Chars) /\ i \in 0..(Len(t) - 1)
      /\ Len(q) = Len(t) - 1 /\ Len(t) \in Nat
      /\ \A k \in 0..(i - 1) : q[k + 1] = t[k + 1]
      /\ \A k \in i..(Len(q) - 1) : q[k + 1] = t[k + 2]
  BY DEF LeavesOut
<1>2. /\ \A k \in 0..i : Modes(q)[k] = Modes(t)[k]
      /\ ~GoesOn(Modes(t)[i], t[i + 1])
  BY BeforeBlank
<1>3. \A k \in (i + 1)..Len(q) : Modes(q)[k] = Modes(t)[k + 1]
  BY BehindBlank
<1>4. ASSUME NEW b \in 0..(i - 1)
      PROVE  EndOf(q, b) = EndOf(t, b) /\ EndOf(t, b) \in (b + 1)..i
  <2>1. b \in 0..(Len(t) - 1) /\ b \in 0..(Len(q) - 1)
    BY <1>1
  <2>2. PICK e : e = EndOf(t, b) /\ EndsAt(t, b, e)
    BY <1>1, <2>1, EndPlace
  <2>3. e \in (b + 1)..i
    <3>1. e \in (b + 1)..Len(t) /\ ~(i \in (b + 1)..(e - 1))
      BY <1>2, <2>2 DEF EndsAt
    <3> QED
      BY <1>1, <3>1
  <2>4. \A k \in (b + 1)..(e - 1) : GoesOn(Modes(q)[k], q[k + 1])
    <3>1. \A k \in (b + 1)..(e - 1) : k \in 0..i /\ k \in 0..(i - 1)
      BY <1>1, <2>3
    <3> QED
      BY <1>1, <1>2, <2>2, <3>1 DEF EndsAt
  <2>5. e = Len(q) \/ ~GoesOn(Modes(q)[e], q[e + 1])
    <3>1. CASE e = i /\ i + 1 < Len(t)
      <4>1. i \in 0..i /\ i \in i..(Len(q) - 1)
        BY <1>1, <3>1
      <4> QED
        BY <1>1, <1>2, <3>1, <4>1
    <3>2. CASE e = i /\ ~(i + 1 < Len(t))
      BY <1>1, <3>2
    <3>3. CASE e # i
      <4>1. e \in 0..i /\ e \in 0..(i - 1) /\ e # Len(t)
        BY <1>1, <2>3, <3>3
      <4> QED
        BY <1>1, <1>2, <2>2, <4>1 DEF EndsAt
    <3> QED
      BY <3>1, <3>2, <3>3
  <2>6. e \in (b + 1)..Len(q)
    BY <1>1, <2>3
  <2>7. EndsAt(q, b, e)
    BY <2>4, <2>5, <2>6 DEF EndsAt
  <2> QED
    BY <1>1, <2>1, <2>2, <2>3, <2>7, EndPlace
<1>5. ASSUME NEW b \in i..(Len(q) - 1)
      PROVE  /\ EndOf(t, b + 1) = EndOf(q, b) + 1
             /\ EndOf(q, b) \in (b + 1)..Len(q)
  <2>1. b + 1 \in 0..(Len(t) - 1) /\ b \in 0..(Len(q) - 1)
    BY <1>1
  <2>2. PICK e : e = EndOf(q, b) /\ EndsAt(q, b, e)
    BY <1>1, <2>1, EndPlace
  <2>3. e \in (b + 1)..Len(q) /\ e \in Int
    BY <2>2 DEF EndsAt
  <2>4. \A k \in ((b + 1) + 1)..((e + 1) - 1) : GoesOn(Modes(t)[k], t[k + 1])
    <3>1. ASSUME NEW k \in ((b + 1) + 1)..((e + 1) - 1)
          PROVE  GoesOn(Modes(t)[k], t[k + 1])
      <4>1. PICK j \in Int : j = k - 1
        OBVIOUS
      <4>2. /\ j \in (b + 1)..(e - 1) /\ j \in (i + 1)..Len(q) /\ j \in i..(Len(q) - 1)
            /\ k = j + 1 /\ k + 1 = j + 2
        BY <1>1, <2>3, <4>1
      <4>3. GoesOn(Modes(q)[j], q[j + 1])
        BY <2>2, <4>2 DEF EndsAt
      <4> QED
        BY <1>1, <1>3, <4>2, <4>3
    <3> QED
      BY <3>1
  <2>5. e + 1 = Len(t) \/ ~GoesOn(Modes(t)[e + 1], t[(e + 1) + 1])
    <3>1. CASE e = Len(q)
      BY <1>1, <3>1
    <3>2. CASE e # Len(q)
      <4>1. e \in (i + 1)..Len(q) /\ e \in i..(Len(q) - 1) /\ (e + 1) + 1 = e + 2
        BY <1>1, <2>3, <3>2
      <4>2. ~GoesOn(Modes(q)[e], q[e + 1])
        BY <2>2, <3>2 DEF EndsAt
      <4> QED
        BY <1>1, <1>3, <4>1, <4>2
    <3> QED
      BY <3>1, <3>2
  <2>6. e + 1 \in ((b + 1) + 1)..Len(t)
    BY <1>1, <2>3
  <2>7. EndsAt(t, b + 1, e + 1)
    BY <2>4, <2>5, <2>6 DEF EndsAt
  <2> QED
    BY <1>1, <2>1, <2>2, <2>3, <2>7, EndPlace
<1> QED
  BY <1>4, <1>5

\* Reading stops one place earlier.
LEMMA SameStop ==
    ASSUME NEW t, NEW q, NEW i, LeavesOut(t, q, i), i < StopOf(t),
           i + 1 < Len(t) => ~GoesOn(Modes(t)[i], t[i + 2])
    PROVE  StopOf(q) = StopOf(t) - 1
<1>1. /\ t \in Seq(Chars) /\ q \in Seq(Chars) /\ i \in 0..(Len(t) - 1)
      /\ Len(q) = Len(t) - 1 /\ Len(t) \in Nat
      /\ \A k \in 0..(i - 1) : q[k + 1] = t[k + 1]
      /\ \A k \in i..(Len(q) - 1) : q[k + 1] = t[k + 2]
  BY DEF LeavesOut
<1>2. /\ \A b \in 0..(i - 1) : b \in Beginnings(q) <=> b \in Beginnings(t)
      /\ \A b \in i..(Len(q) - 1) : b \in Beginnings(q) <=> b + 1 \in Beginnings(t)
  BY BeforeBlank, BehindBlank
<1>3. PICK n : n = StopOf(t) /\ StopsAt(t, n)
  BY <1>1, StopAlways
<1>4. n \in 0..Len(t) /\ i < n
  BY <1>3 DEF StopsAt
<1>5. PICK m \in Int : m = n - 1
  BY <1>4
<1>6. m \in i..Len(q) /\ m \in 0..Len(q) /\ n = m + 1 /\ n + 1 = m + 2
  BY <1>1, <1>4, <1>5
<1>7. m = Len(q) \/ (m \in Beginnings(q) /\ q[m + 1] \notin Known \ {Nul})
  <2>1. CASE m = Len(q)
    BY <2>1
  <2>2. CASE m # Len(q)
    <3>1. m \in i..(Len(q) - 1) /\ n # Len(t)
      BY <1>1, <1>6, <2>2
    <3> QED
      BY <1>1, <1>2, <1>3, <1>6, <3>1 DEF StopsAt
  <2> QED
    BY <2>1, <2>2
<1>8. ASSUME NEW k \in 0..(m - 1), k \in Beginnings(q)
      PROVE  q[k + 1] \in Known \ {Nul}
  <2>1. CASE k < i
    <3>1. k \in 0..(i - 1) /\ k \in 0..(n - 1)
      BY <1>1, <1>6, <2>1
    <3> QED
      BY <1>1, <1>2, <1>3, <1>8, <3>1 DEF StopsAt
  <2>2. CASE ~(k < i)
    <3>1. k \in i..(Len(q) - 1) /\ k + 1 \in 0..(n - 1) /\ (k + 1) + 1 = k + 2
      BY <1>1, <1>6, <2>2
    <3> QED
      BY <1>1, <1>2, <1>3, <1>8, <3>1 DEF StopsAt
  <2> QED
    BY <2>1, <2>2
<1>9. StopsAt(q, m)
  BY <1>6, <1>7, <1>8 DEF StopsAt
<1> QED
  BY <1>1, <1>3, <1>5, <1>9, StopAlways


\* What is written at b, as its characters.
Written(t, b) == SubSeq(t, From(t, b) + 1, EndOf(t, b))

\* s has the beginnings of the tokens of t, in order.
Lists(s, t) ==
    /\ s \in Seq(Nat)
    /\ \A j, k \in DOMAIN s : j < k => s[j] < s[k]
    /\ {s[k] : k \in DOMAIN s} = {b \in Beginnings(t) : b < StopOf(t)}

\* What is written at the k-th of them is the k-th word.
LEMMA WordSpells ==
    ASSUME NEW t \in Seq(Chars), NEW s, NEW k \in DOMAIN s, s[k] \in Beginnings(t),
           s = InOrder({b \in Beginnings(t) : b < StopOf(t)})
    PROVE  k \in DOMAIN Spelling(t) /\ Spelling(t)[k] = Written(t, s[k])
<1>1. PICK ws : ws = WordsTo(t, StopOf(t))
  OBVIOUS
<1>2. ws = [n \in DOMAIN s |-> PlaceOf(t, s[n])]
  BY <1>1 DEF WordsTo, PlaceOf, From
<1>3. PICK b \in 0..(Len(t) - 1) : b = s[k]
  BY DEF Beginnings
<1>4. EndOf(t, b) \in (b + 1)..Len(t)
  BY EndPlace DEF EndsAt
<1>5. From(t, b) \in Nat /\ EndOf(t, b) \in Int
  BY <1>4 DEF From
<1>6. ws[k].from = From(t, b) /\ ws[k].length = EndOf(t, b) - From(t, b)
  BY <1>2, <1>3 DEF PlaceOf
<1>7. From(t, b) + (EndOf(t, b) - From(t, b)) = EndOf(t, b)
  BY <1>5
<1>8. SubSeq(t, ws[k].from + 1, ws[k].from + ws[k].length) = Written(t, s[k])
  BY <1>3, <1>6, <1>7 DEF Written
<1>9. Spelling(t) = [n \in DOMAIN ws |->
            SubSeq(t, ws[n].from + 1, ws[n].from + ws[n].length)]
  BY <1>1 DEF Spelling
<1> QED
  BY <1>2, <1>8, <1>9

\* They spell what is written there.
LEMMA ListSpells ==
    ASSUME NEW t \in Seq(Chars), NEW s, Lists(s, t)
    PROVE  Spelling(t) = [k \in DOMAIN s |-> Written(t, s[k])]
<1>1. s \in Seq(Nat) /\ s = InOrder({b \in Beginnings(t) : b < StopOf(t)})
  BY Ordered DEF Lists
<1>2. \A k \in DOMAIN s : s[k] \in Beginnings(t)
  BY DEF Lists
<1>3. \A k \in DOMAIN s : Spelling(t)[k] = Written(t, s[k])
  BY <1>1, <1>2, WordSpells
<1>4. Spelling(t) = [k \in DOMAIN s |-> Spelling(t)[k]]
  BY <1>1 DEF Spelling, WordsTo
<1> QED
  BY <1>3, <1>4

\* The same characters, d places further.
LEMMA SameCharacters ==
    ASSUME NEW t \in Seq(Chars), NEW q \in Seq(Chars), NEW d \in Nat,
           NEW a \in Nat, NEW e \in a..Len(q), e + d <= Len(t),
           \A k \in a..(e - 1) : q[k + 1] = t[k + d + 1]
    PROVE  SubSeq(q, a + 1, e) = SubSeq(t, a + d + 1, e + d)
<1>1. PICK u, v : u = SubSeq(q, a + 1, e) /\ v = SubSeq(t, a + d + 1, e + d)
  OBVIOUS
<1>2. /\ u \in Seq(Chars) /\ Len(u) = (IF a + 1 <= e THEN e - (a + 1) + 1 ELSE 0)
      /\ \A k \in 1..(e - (a + 1) + 1) : u[k] = q[(a + 1) + k - 1]
  <2>1. PICK m \in Int : m = a + 1
    OBVIOUS
  <2>2. e \in Int /\ \A k \in m..e : q[k] \in Chars
    BY <2>1
  <2>3. /\ SubSeq(q, m, e) \in Seq(Chars)
        /\ Len(SubSeq(q, m, e)) = IF m <= e THEN e - m + 1 ELSE 0
        /\ \A k \in 1..(e - m + 1) : SubSeq(q, m, e)[k] = q[m + k - 1]
    BY <2>2, SubSeqProperties
  <2> QED
    BY <1>1, <2>1, <2>3
<1>3. /\ v \in Seq(Chars)
      /\ Len(v) = (IF a + d + 1 <= e + d THEN (e + d) - (a + d + 1) + 1 ELSE 0)
      /\ \A k \in 1..((e + d) - (a + d + 1) + 1) : v[k] = t[(a + d + 1) + k - 1]
  <2>1. PICK m \in Int, n \in Int : m = a + d + 1 /\ n = e + d
    OBVIOUS
  <2>2. \A k \in m..n : t[k] \in Chars
    BY <2>1
  <2>3. /\ SubSeq(t, m, n) \in Seq(Chars)
        /\ Len(SubSeq(t, m, n)) = IF m <= n THEN n - m + 1 ELSE 0
        /\ \A k \in 1..(n - m + 1) : SubSeq(t, m, n)[k] = t[m + k - 1]
    BY <2>2, SubSeqProperties
  <2> QED
    BY <1>1, <2>1, <2>3
<1>4. PICK n \in Nat : n = e - a
  OBVIOUS
<1>5. Len(u) = n /\ Len(v) = n
  BY <1>2, <1>3, <1>4
<1>6. ASSUME NEW k \in 1..n
      PROVE  u[k] = v[k]
  <2>1. u[k] = q[(a + 1) + k - 1] /\ v[k] = t[(a + d + 1) + k - 1]
    <3>1. e - (a + 1) + 1 = n /\ (e + d) - (a + d + 1) + 1 = n
      BY <1>4
    <3> QED
      BY <1>2, <1>3, <3>1
  <2>2. PICK j \in a..(e - 1) : j = a + k - 1
    BY <1>4
  <2>3. (a + 1) + k - 1 = j + 1 /\ (a + d + 1) + k - 1 = j + d + 1
    BY <2>2
  <2> QED
    BY <2>1, <2>2, <2>3
<1>7. u = v
  BY <1>2, <1>3, <1>5, <1>6, SeqEqual
<1> QED
  BY <1>1, <1>7

\* Where the blank is not needed, each token is written as it was.
LEMMA SameWritten ==
    ASSUME NEW t, NEW q, NEW i, LeavesOut(t, q, i),
           i + 1 < Len(t) => ~GoesOn(Modes(t)[i], t[i + 2])
    PROVE  /\ \A b \in 0..(i - 1) : Written(q, b) = Written(t, b)
           /\ \A b \in i..(Len(q) - 1) : Written(q, b) = Written(t, b + 1)
<1>1. /\ t \in Seq(Chars) /\ q \in Seq(Chars) /\ i \in 0..(Len(t) - 1)
      /\ Len(q) = Len(t) - 1 /\ Len(t) \in Nat
      /\ \A k \in 0..(i - 1) : q[k + 1] = t[k + 1]
      /\ \A k \in i..(Len(q) - 1) : q[k + 1] = t[k + 2]
  BY DEF LeavesOut
<1>2. /\ \A b \in 0..(i - 1) : EndOf(q, b) = EndOf(t, b) /\ EndOf(t, b) \in (b + 1)..i
      /\ \A b \in i..(Len(q) - 1) : /\ EndOf(t, b + 1) = EndOf(q, b) + 1
                                    /\ EndOf(q, b) \in (b + 1)..Len(q)
  BY SameEnds
<1>3. ASSUME NEW b \in 0..(i - 1)
      PROVE  Written(q, b) = Written(t, b)
  <2>1. PICK a \in {b, b + 1} : a = From(t, b)
    BY DEF From
  <2>2. From(q, b) = a
    BY <1>1, <2>1 DEF From
  <2>3. PICK e \in (b + 1)..i : e = EndOf(t, b) /\ EndOf(q, b) = e
    BY <1>2
  <2>4. a \in Nat /\ e \in a..Len(q) /\ e + 0 <= Len(t)
    BY <1>1, <2>1
  <2>5. \A k \in a..(e - 1) : q[k + 1] = t[k + 0 + 1]
    <3>1. \A k \in a..(e - 1) : k \in 0..(i - 1) /\ k + 0 + 1 = k + 1
      BY <1>1, <2>1
    <3> QED
      BY <1>1, <3>1
  <2>6. SubSeq(q, a + 1, e) = SubSeq(t, a + 0 + 1, e + 0)
    <3>1. 0 \in Nat
      OBVIOUS
    <3> QED
      BY <1>1, <2>4, <2>5, <3>1, SameCharacters
  <2>7. a + 0 + 1 = a + 1 /\ e + 0 = e
    BY <2>4
  <2> QED
    BY <2>1, <2>2, <2>3, <2>6, <2>7 DEF Written
<1>4. ASSUME NEW b \in i..(Len(q) - 1)
      PROVE  Written(q, b) = Written(t, b + 1)
  <2>1. PICK a \in {b, b + 1} : a = From(q, b)
    BY DEF From
  <2>2. From(t, b + 1) = a + 1
    <3>1. q[b + 1] = t[(b + 1) + 1]
      <4>1. (b + 1) + 1 = b + 2
        BY <1>1
      <4> QED
        BY <1>1, <4>1
    <3> QED
      BY <1>1, <2>1, <3>1 DEF From
  <2>3. PICK e \in (b + 1)..Len(q) : e = EndOf(q, b) /\ EndOf(t, b + 1) = e + 1
    BY <1>2
  <2>4. a \in Nat /\ e \in a..Len(q) /\ e + 1 <= Len(t)
    BY <1>1, <2>1
  <2>5. \A k \in a..(e - 1) : q[k + 1] = t[k + 1 + 1]
    <3>1. \A k \in a..(e - 1) : k \in i..(Len(q) - 1) /\ k + 1 + 1 = k + 2
      BY <1>1, <2>1
    <3> QED
      BY <1>1, <3>1
  <2>6. SubSeq(q, a + 1, e) = SubSeq(t, a + 1 + 1, e + 1)
    <3>1. 1 \in Nat
      OBVIOUS
    <3> QED
      BY <1>1, <2>4, <2>5, <3>1, SameCharacters
  <2> QED
    BY <2>1, <2>2, <2>3, <2>6 DEF Written
<1> QED
  BY <1>3, <1>4

\* So the tokens are spelled as they were.
LEMMA SameSpelling ==
    ASSUME NEW t, NEW q, NEW i, LeavesOut(t, q, i), i < StopOf(t),
           i + 1 < Len(t) => ~GoesOn(Modes(t)[i], t[i + 2]),
           NEW s, Lists(s, t)
    PROVE  Spelling(q) = [k \in DOMAIN s |-> Written(t, s[k])]
<1>1. /\ t \in Seq(Chars) /\ q \in Seq(Chars) /\ i \in 0..(Len(t) - 1)
      /\ Len(q) = Len(t) - 1 /\ Len(t) \in Nat
  BY DEF LeavesOut
<1>2. /\ \A b \in 0..(i - 1) : b \in Beginnings(q) <=> b \in Beginnings(t)
      /\ \A b \in i..(Len(q) - 1) : b \in Beginnings(q) <=> b + 1 \in Beginnings(t)
  BY BeforeBlank, BehindBlank
<1>3. i \notin Beginnings(t)
  BY BeforeBlank
<1>4. StopOf(q) = StopOf(t) - 1
  BY SameStop
<1>5. PICK n \in i..Len(t) : n = StopOf(t) /\ i < n
  <2>1. StopOf(t) \in 0..Len(t)
    BY <1>1, StopAlways DEF StopsAt
  <2> QED
    BY <1>1, <2>1
<1>6. /\ s \in Seq(Nat) /\ \A j, k \in DOMAIN s : j < k => s[j] < s[k]
      /\ {s[k] : k \in DOMAIN s} = {b \in Beginnings(t) : b < n}
  BY <1>5 DEF Lists
<1>. DEFINE F(b) == IF b < i THEN b ELSE b - 1
            r == [k \in 1..Len(s) |-> F(s[k])]
<1>7. \A k \in DOMAIN s : s[k] \in 0..(n - 1) /\ s[k] \in Nat /\ s[k] # i
  <2>1. \A b \in Beginnings(t) : b < n => b \in 0..(n - 1)
    BY <1>1, <1>5 DEF Beginnings
  <2> QED
    BY <1>3, <1>6, <2>1
<1>8. DOMAIN s = 1..Len(s) /\ Len(s) \in Nat
  BY <1>6
<1>9. \A k \in DOMAIN s : F(s[k]) \in Nat
  BY <1>1, <1>7
<1>10. r \in Seq(Nat) /\ DOMAIN r = DOMAIN s /\ \A k \in DOMAIN s : r[k] = F(s[k])
  <2>1. r \in [1..Len(s) -> Nat]
    BY <1>8, <1>9
  <2> QED
    BY <1>8, <2>1
<1>11. ASSUME NEW j \in DOMAIN s, NEW k \in DOMAIN s, j < k
       PROVE  r[j] < r[k]
  <2>1. s[j] < s[k]
    BY <1>6, <1>11
  <2>2. s[j] \in Nat /\ s[k] \in Nat /\ s[j] # i /\ s[k] # i
    BY <1>7
  <2>3. F(s[j]) < F(s[k])
    BY <1>1, <2>1, <2>2
  <2> QED
    BY <1>10, <2>3
<1>12. ASSUME NEW k \in DOMAIN s
       PROVE  r[k] \in Beginnings(q) /\ r[k] < n - 1 /\ Written(q, r[k]) = Written(t, s[k])
  <2>1. s[k] \in Beginnings(t) /\ s[k] \in 0..(n - 1) /\ s[k] # i
    BY <1>6, <1>7
  <2>2. /\ \A b \in 0..(i - 1) : Written(q, b) = Written(t, b)
        /\ \A b \in i..(Len(q) - 1) : Written(q, b) = Written(t, b + 1)
    BY SameWritten
  <2>3. PICK b \in 0..(n - 1) : b = s[k]
    BY <2>1
  <2>4. CASE b < i
    <3>1. r[k] = b /\ b \in 0..(i - 1) /\ b < n - 1
      BY <1>1, <1>5, <1>10, <2>3, <2>4
    <3> QED
      BY <1>2, <2>1, <2>2, <2>3, <3>1
  <2>5. CASE ~(b < i)
    <3>1. r[k] = b - 1 /\ b - 1 \in i..(Len(q) - 1) /\ (b - 1) + 1 = b /\ b - 1 < n - 1
      BY <1>1, <1>5, <1>10, <2>1, <2>3, <2>5
    <3> QED
      BY <1>2, <2>1, <2>2, <2>3, <3>1
  <2> QED
    BY <2>4, <2>5
<1>13. ASSUME NEW b \in Beginnings(q), b < n - 1
       PROVE  \E k \in DOMAIN s : r[k] = b
  <2>1. b \in 0..(Len(q) - 1)
    BY DEF Beginnings
  <2>2. CASE b < i
    <3>1. b \in 0..(i - 1) /\ b < n
      BY <1>1, <1>5, <2>1, <2>2
    <3>2. PICK k \in DOMAIN s : s[k] = b
      BY <1>2, <1>6, <3>1
    <3> QED
      BY <1>10, <2>2, <3>2
  <2>3. CASE ~(b < i)
    <3>1. b \in i..(Len(q) - 1) /\ b + 1 < n /\ ~(b + 1 < i) /\ (b + 1) - 1 = b
      BY <1>1, <1>5, <1>13, <2>1, <2>3
    <3>2. PICK k \in DOMAIN s : s[k] = b + 1
      BY <1>2, <1>6, <3>1
    <3> QED
      BY <1>10, <3>1, <3>2
  <2> QED
    BY <2>2, <2>3
<1>. HIDE DEF r, F
<1>14. Lists(r, q)
  <2>1. {r[k] : k \in DOMAIN r} = {b \in Beginnings(q) : b < n - 1}
    BY <1>10, <1>12, <1>13
  <2> QED
    BY <1>4, <1>5, <1>10, <1>11, <2>1 DEF Lists
<1>15. Spelling(q) = [k \in DOMAIN r |-> Written(q, r[k])]
  BY <1>1, <1>14, ListSpells
<1> QED
  BY <1>10, <1>12, <1>15


\* Where the blank is needed, what is open before it goes on, and a token is
\* spelled otherwise.
LEMMA OtherSpelling ==
    ASSUME NEW t, NEW q, NEW i, LeavesOut(t, q, i), i < StopOf(t),
           i + 1 < Len(t), GoesOn(Modes(t)[i], t[i + 2]),
           NEW s, Lists(s, t)
    PROVE  Spelling(q) # [k \in DOMAIN s |-> Written(t, s[k])]
<1>1. /\ t \in Seq(Chars) /\ q \in Seq(Chars) /\ i \in 0..(Len(t) - 1)
      /\ Len(q) = Len(t) - 1 /\ Len(t) \in Nat
      /\ \A k \in 0..(i - 1) : q[k + 1] = t[k + 1]
      /\ \A k \in i..(Len(q) - 1) : q[k + 1] = t[k + 2]
      /\ Modes(t)[i] \notin Quotes \cup {"comment"}
  BY DEF LeavesOut
<1>2. /\ \A k \in 0..i : Modes(q)[k] = Modes(t)[k]
      /\ ~GoesOn(Modes(t)[i], t[i + 1])
      /\ \A b \in 0..(i - 1) : b \in Beginnings(q) <=> b \in Beginnings(t)
  BY BeforeBlank
<1>3. Modes(t)[i] # "free"
  BY GoesOnTable
<1>4. PICK b \in 0..(i - 1) :
         /\ Opens(t, b) /\ Enter(t[b + 1]) = Modes(t)[i]
         /\ \A k \in (b + 1)..(i - 1) : GoesOn(Modes(t)[k], t[k + 1])
  <2>1. i \in 0..Len(t)
    BY <1>1
  <2> QED
    BY <1>1, <1>3, <2>1, ModeOpened
<1>5. b \in 0..(Len(t) - 1) /\ b \in 0..(Len(q) - 1) /\ i \in 0..i
  BY <1>1
<1>6. t[b + 1] \notin Blank \cup {"\n", "#"} \cup Quotes
  <2>1. t[b + 1] \in Chars
    BY <1>1, <1>5
  <2> QED
    BY <1>1, <1>3, <1>4, <2>1, EnterTable
<1>7. b \in Beginnings(t) /\ b \in Beginnings(q)
  <2>1. b \in Beginnings(t)
    BY <1>4, <1>5, <1>6 DEF Opens, Beginnings
  <2> QED
    BY <1>2, <2>1
<1>8. From(t, b) = b /\ From(q, b) = b
  BY <1>1, <1>6 DEF From
<1>9. EndOf(t, b) = i
  <2>1. EndsAt(t, b, i)
    BY <1>1, <1>2, <1>4 DEF EndsAt
  <2> QED
    BY <1>1, <1>5, <2>1, EndPlace
<1>10. EndOf(q, b) \in (i + 1)..Len(q)
  <2>1. PICK e \in (b + 1)..Len(q) : e = EndOf(q, b) /\ EndsAt(q, b, e)
    <3>1. EndsAt(q, b, EndOf(q, b))
      BY <1>1, <1>5, EndPlace
    <3>2. EndOf(q, b) \in (b + 1)..Len(q)
      BY <3>1 DEF EndsAt
    <3> QED
      BY <3>1, <3>2
  <2>2. ~(e < i)
    <3>1. e < i => e \in (b + 1)..(i - 1) /\ e \in 0..i /\ e \in 0..(i - 1) /\ e # Len(q)
      BY <1>1, <2>1
    <3> QED
      BY <1>1, <1>2, <1>4, <2>1, <3>1 DEF EndsAt
  <2>3. e # i
    <3>1. i \in i..(Len(q) - 1) /\ i # Len(q)
      BY <1>1
    <3>2. GoesOn(Modes(q)[i], q[i + 1])
      BY <1>1, <1>2, <1>5, <3>1
    <3> QED
      BY <2>1, <3>1, <3>2 DEF EndsAt
  <2> QED
    BY <1>1, <2>1, <2>2, <2>3
<1>11. b < StopOf(q)
  <2>1. PICK n \in 0..Len(q) : n = StopOf(q) /\ StopsAt(q, n)
    BY <1>1, StopAlways DEF StopsAt
  <2>2. StopsAt(t, StopOf(t)) /\ StopOf(t) \in 0..Len(t)
    BY <1>1, StopAlways DEF StopsAt
  <2>3. ASSUME n <= b
        PROVE  FALSE
    <3>1. n \in 0..(i - 1) /\ n # Len(q) /\ n \in 0..(StopOf(t) - 1)
      BY <1>1, <2>2, <2>3
    <3>2. n \in Beginnings(q) /\ q[n + 1] \notin Known \ {Nul}
      BY <2>1, <3>1 DEF StopsAt
    <3>3. n \in Beginnings(t) /\ t[n + 1] \notin Known \ {Nul}
      BY <1>1, <1>2, <3>1, <3>2
    <3> QED
      BY <2>2, <3>1, <3>3 DEF StopsAt
  <2> QED
    BY <2>1, <2>3
<1>12. b < StopOf(t)
  <2>1. StopOf(t) \in Int
    BY <1>1, StopAlways DEF StopsAt
  <2> QED
    BY <1>1, <2>1
<1>. DEFINE S == {x \in Beginnings(t) : x < StopOf(t)}
            R == {x \in Beginnings(q) : x < StopOf(q)}
<1>13. PICK k \in DOMAIN s : s[k] = b
  BY <1>7, <1>12 DEF Lists
<1>14. Cardinality({x \in S : x < b}) = k - 1
  <2>1. /\ s \in Seq(Nat) /\ \A m, n \in DOMAIN s : m < n => s[m] < s[n]
        /\ S = {s[n] : n \in DOMAIN s}
    BY DEF Lists
  <2>. HIDE DEF S
  <2>2. \A n \in DOMAIN s : Cardinality({x \in S : x < s[n]}) = n - 1
    BY <2>1, Ranked
  <2> QED
    BY <1>13, <2>2
<1>15. {x \in R : x < b} = {x \in S : x < b}
  <2>1. StopOf(t) \in Int /\ StopOf(q) \in Int
    BY <1>1, StopAlways DEF StopsAt
  <2>2. \A x \in Beginnings(q) \cup Beginnings(t) : x \in Nat
    BY DEF Beginnings
  <2>3. \A x \in Beginnings(q) \cup Beginnings(t) : x < b =>
            x \in 0..(i - 1) /\ x < StopOf(t) /\ x < StopOf(q)
    BY <1>1, <1>11, <1>12, <2>1, <2>2
  <2> QED
    BY <1>2, <2>3
<1>16. R \in SUBSET Nat /\ IsFiniteSet(R)
  <2>1. R \in SUBSET (0..(Len(q) - 1))
    BY DEF Beginnings
  <2>2. 0 \in Int /\ Len(q) - 1 \in Int
    BY <1>1
  <2>3. IsFiniteSet(0..(Len(q) - 1))
    BY <2>2, FS_Interval
  <2>4. 0..(Len(q) - 1) \subseteq Nat
    OBVIOUS
  <2>. HIDE DEF R
  <2> QED
    BY <2>1, <2>3, <2>4, FS_Subset
<1>17. k \in DOMAIN InOrder(R) /\ InOrder(R)[k] = b
  <2>1. b \in R /\ k \in Nat
    BY <1>7, <1>11 DEF Lists
  <2>2. Cardinality({x \in R : x < b}) = k - 1
    BY <1>14, <1>15
  <2>. HIDE DEF R, S
  <2> QED
    BY <1>16, <2>1, <2>2, OrderedAt
<1>18. Spelling(q)[k] = Written(q, b)
  BY <1>1, <1>7, <1>17, WordSpells
<1>19. Len(Written(t, b)) = i - b
  <2>1. b + 1 \in Int /\ i \in Int /\ \A j \in (b + 1)..i : t[j] \in Chars
    BY <1>1
  <2>2. Len(SubSeq(t, b + 1, i)) = IF b + 1 <= i THEN i - (b + 1) + 1 ELSE 0
    BY <2>1, SubSeqProperties
  <2>3. b + 1 <= i /\ i - (b + 1) + 1 = i - b
    BY <1>1
  <2> QED
    BY <1>8, <1>9, <2>2, <2>3 DEF Written
<1>20. Len(Written(q, b)) > i - b
  <2>1. PICK e \in (i + 1)..Len(q) : e = EndOf(q, b)
    BY <1>10
  <2>2. b + 1 \in Int /\ e \in Int /\ \A j \in (b + 1)..e : q[j] \in Chars
    BY <1>1, <2>1
  <2>3. Len(SubSeq(q, b + 1, e)) = IF b + 1 <= e THEN e - (b + 1) + 1 ELSE 0
    BY <2>2, SubSeqProperties
  <2> QED
    BY <1>1, <1>8, <2>1, <2>3 DEF Written
<1>21. Written(q, b) # Written(t, b)
  BY <1>1, <1>19, <1>20
<1> QED
  BY <1>13, <1>18, <1>21

\* What was read, as its characters.
Read == [k \in DOMAIN tokens |->
            SubSeq(text, tokens[k].from + 1, tokens[k].from + tokens[k].length)]

\* When reading has ended, it is what the text spells.
LEMMA AllRead ==
    ASSUME LexInv, current = StopOf(text)
    PROVE  \E s : Lists(s, text) /\ Read = [k \in DOMAIN s |-> Written(text, s[k])]
<1>1. PICK s \in Seq(Nat) : /\ Starts(s)
                            /\ Places(tokens) = [k \in DOMAIN s |-> PlaceOf(text, s[k])]
  BY DEF LexInv, WordsInv
<1>2. Lists(s, text) /\ text \in Seq(Chars)
  BY <1>1, TextTyped DEF Starts, Lists, LexInv
<1>3. DOMAIN tokens = DOMAIN s
  <2>1. DOMAIN Places(tokens) = DOMAIN tokens
    BY DEF Places
  <2> QED
    BY <1>1, <2>1
<1>4. ASSUME NEW k \in DOMAIN s
      PROVE  SubSeq(text, tokens[k].from + 1, tokens[k].from + tokens[k].length)
                = Written(text, s[k])
  <2>1. s[k] \in Beginnings(text)
    BY <1>2 DEF Lists
  <2>2. PICK b \in 0..(Len(text) - 1) : b = s[k]
    BY <2>1 DEF Beginnings
  <2>3. From(text, b) \in Nat /\ EndOf(text, b) \in Int
    <3>1. EndOf(text, b) \in (b + 1)..Len(text)
      BY <1>2, EndPlace DEF EndsAt
    <3> QED
      BY <3>1 DEF From
  <2>4. [from |-> tokens[k].from, length |-> tokens[k].length] = PlaceOf(text, b)
    <3>1. Places(tokens)[k] = PlaceOf(text, b)
      BY <1>1, <2>2
    <3> QED
      BY <1>3, <3>1 DEF Places
  <2>5. tokens[k].from = From(text, b) /\ tokens[k].length = EndOf(text, b) - From(text, b)
    BY <2>4 DEF PlaceOf
  <2>6. From(text, b) + (EndOf(text, b) - From(text, b)) = EndOf(text, b)
    BY <2>3
  <2> QED
    BY <2>2, <2>5, <2>6 DEF Written
<1>5. Read = [k \in DOMAIN s |-> Written(text, s[k])]
  BY <1>3, <1>4 DEF Read
<1> QED
  BY <1>2, <1>5

-----------------------------------------------------------------------------
(* The theorems.                                                             *)

\* In every state, for every text: the position is where something new is
\* read, and there is a token for each thing that was read before it.
THEOREM Invariance == Spec => []LexInv
BY InitStep, NextStep, PTL DEF Spec

\* Where reading stops is decided by the text alone.
LEMMA StopPlace ==
    ASSUME LexInv, Char = Nul \/ Char \notin Known
    PROVE  current = StopOf(text)
<1>1. /\ text \in Seq(Chars) /\ Len(text) \in Nat /\ current \in 0..Len(text)
      /\ \A b \in Beginnings(text) : b < current => text[b + 1] \in Known \ {Nul}
      /\ current < Len(text) => Opens(text, current)
  BY TextTyped DEF LexInv, WhereInv
<1>2. current < Len(text) => /\ current \in Beginnings(text)
                             /\ text[current + 1] \notin Known \ {Nul}
  <2>1. ASSUME current < Len(text)
        PROVE  /\ current \in Beginnings(text)
               /\ text[current + 1] \notin Known \ {Nul}
    <3>1. Char = text[current + 1] /\ current \in 0..(Len(text) - 1)
      BY <1>1, <2>1 DEF Char, At
    <3>2. Char \notin Known \ {Nul}
      OBVIOUS
    <3>3. Char \notin Blank \cup {"\n", "#"}
      BY NulAssumption DEF Known
    <3> QED
      BY <1>1, <2>1, <3>1, <3>2, <3>3 DEF Beginnings, Opens
  <2> QED
    BY <2>1
<1>3. StopsAt(text, current)
  <2>1. \A i \in 0..(current - 1) : i < current
    BY <1>1
  <2> QED
    BY <1>1, <1>2, <2>1 DEF StopsAt
<1> QED
  BY <1>1, <1>3, StopAlways

\* For every text: the tokens are those that its characters spell, none cut
\* short, merged or begun inside a string or a comment, and reading stops at
\* the first character that stands for nothing (lexer.c:15-140).
THEOREM AlwaysSegmented == Spec => []Segmented
<1>1. LexInv => Segmented
  <2>. SUFFICES ASSUME LexInv PROVE Segmented
    OBVIOUS
  <2>1. Places(tokens) = WordsTo(text, current)
    BY WordsRead DEF LexInv
  <2> QED
    BY <2>1, StopPlace DEF Segmented, LexInv
<1> QED
  BY <1>1, Invariance, PTL

\* For every text: linenumber is the line of the position, with each newline
\* that is not quoted counted once (lexer.c:25).
THEOREM LinesAlways == Spec => []LinesCounted
<1>1. LexInv => LinesCounted
  BY DEF LexInv
<1> QED
  BY <1>1, Invariance, PTL

\* For every text: a blank or a newline between tokens may be left out without
\* a change of what is read exactly where the tests of white space say that it
\* is not needed (lexer.c:31-109, tests/syntax/whitespace.lua).
THEOREM SpacingAlways == Spec => []SpacingLaw
<1>1. LexInv => SpacingLaw
  <2>. SUFFICES ASSUME LexInv, status = "end",
                       NEW i \in 0..(current - 1), At(i) \in Blank \cup {"\n"},
                       Modes(text)[i] \notin Quotes \cup {"comment"}
                PROVE  Needed(Modes(text)[i], At(i + 1))
                          <=> Spelling(RemoveAt(text, i + 1)) # Read
    BY DEF SpacingLaw, Read
  <2>1. current = StopOf(text)
    BY StopPlace DEF LexInv
  <2>2. text \in Seq(Chars) /\ Len(text) \in Nat /\ current \in 0..Len(text)
    BY TextTyped DEF LexInv, WhereInv
  <2>3. i \in 0..(Len(text) - 1) /\ i < StopOf(text) /\ (i + 1) + 1 = i + 2
    BY <2>1, <2>2
  <2>4. text[i + 1] = At(i) /\ (i + 1 < Len(text) => At(i + 1) = text[i + 2])
    BY <2>2, <2>3 DEF At
  <2>5. PICK q : q = RemoveAt(text, i + 1)
    OBVIOUS
  <2>6. LeavesOut(text, q, i)
    BY <2>2, <2>3, <2>4, <2>5, RemovedAt
  <2>7. PICK s : Lists(s, text) /\ Read = [k \in DOMAIN s |-> Written(text, s[k])]
    BY <2>1, AllRead
  <2>8. Modes(text)[i] \in ModeNames
    BY <2>6, BeforeBlank
  <2>9. Needed(Modes(text)[i], At(i + 1)) <=> GoesOn(Modes(text)[i], At(i + 1))
    BY <2>8, NeededTable
  <2>10. CASE i + 1 < Len(text) /\ GoesOn(Modes(text)[i], text[i + 2])
    <3>1. Spelling(q) # Read
      BY <2>3, <2>6, <2>7, <2>10, OtherSpelling
    <3> QED
      BY <2>4, <2>5, <2>9, <2>10, <3>1
  <2>11. CASE i + 1 < Len(text) => ~GoesOn(Modes(text)[i], text[i + 2])
    <3>1. Spelling(q) = Read
      BY <2>3, <2>6, <2>7, <2>11, SameSpelling
    <3>2. ~GoesOn(Modes(text)[i], At(i + 1))
      <4>1. CASE i + 1 < Len(text)
        BY <2>4, <2>11, <4>1
      <4>2. CASE ~(i + 1 < Len(text))
        <5>1. At(i + 1) = Nul
          BY <4>2 DEF At
        <5>2. ~Needed(Modes(text)[i], Nul)
          BY NulAssumption DEF Needed
        <5> QED
          BY <2>9, <5>1, <5>2
      <4> QED
        BY <4>1, <4>2
    <3> QED
      BY <2>5, <2>9, <3>1, <3>2
  <2> QED
    BY <2>10, <2>11
<1> QED
  BY <1>1, Invariance, PTL

=============================================================================
