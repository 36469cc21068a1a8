-------------------------- MODULE MCOperationLaws --------------------------
(***************************************************************************)
(* Every operation on small values, with words of Bits bits so that the    *)
(* arithmetic reaches both ends of its range.                              *)
(***************************************************************************)
EXTENDS OperationLaws

UnaryOps == {"NOT", "NEG", "LENGTH", "BOX", "ASCII", "PRIME", "ULTIMATE"}
BinaryOps == {"ADD", "SUB", "MUL", "DIV", "MOD", "POW", "LT", "GT", "EQ"}

Numbers == {Number(n) : n \in (-(2^(Bits - 1)))..(2^(Bits - 1) - 1)}
Places == {Number(n) : n \in -1..4}

SeqsUpTo(S, n) == UNION {[1..k -> S] : k \in 0..n}

\* Over '1' and 'a', so that some strings are numbers.
Strings == {String(s) : s \in SeqsUpTo({Char(49), Char(97)}, 3)}
Lists == {List(s) : s \in SeqsUpTo({Number(1), Null}, 3)}
ShortStrings == {v \in Strings : Len(v.s) <= 2}
ShortLists == {v \in Lists : Len(v.s) <= 2}

Mixed == {Number(-1), Number(0), Number(2), Boolean(TRUE), Boolean(FALSE), Null,
          BlockValue(0)} \cup ShortStrings \cup ShortLists

Tuples(S, T) == {<<a, b>> : a \in S, b \in T}
Dyadic == Tuples(Mixed, Mixed)
Arithmetic == Dyadic \cup Tuples(Numbers, Numbers)
Comparison == Dyadic \cup Tuples(Strings, Strings)

MCOperands ==
    [op \in UnaryOps \cup BinaryOps \cup {"GET", "SET"} |->
        CASE op \in UnaryOps -> {<<v>> : v \in Mixed}
          [] op \in {"DIV", "MOD", "POW"} -> Arithmetic
          [] op = "LT" -> Comparison \cup Arithmetic
          [] op = "EQ" -> Comparison
          [] op \in {"ADD", "SUB", "GT"} -> Dyadic
          [] op = "MUL" -> Tuples(Mixed, Places)
          [] op = "GET" -> {<<v, i, n>> :
                              v \in Strings \cup Lists, i \in Places, n \in Places}
          [] op = "SET" -> {<<v, i, n, new>> :
                              v \in Strings \cup Lists, i \in Places, n \in Places,
                              new \in ShortStrings \cup ShortLists}]
=============================================================================
