----------------------------- MODULE Operations -----------------------------
(***************************************************************************)
(* The operations of vm.h on values, and Compute, the table that ir_fold   *)
(* and vm_run both go through.                                             *)
(***************************************************************************)
EXTENDS Values

\* (mutant: the quotient is rounded down)
QuotientFloored(a, b) == IF b > 0 THEN a \div b ELSE (-a) \div (-b)

\* C's division and remainder truncate towards zero.
Quotient(a, b) ==
    LET q == (IF a < 0 THEN -a ELSE a) \div (IF b < 0 THEN -b ELSE b)
    IN  IF (a < 0) = (b < 0) THEN q ELSE -q

\* What strcmp sees of a string: the characters before the first NUL.
RECURSIVE CString(_)
CString(s) == IF s = <<>> \/ Head(s).n = 0 THEN <<>>
              ELSE <<Head(s).n>> \o CString(Tail(s))

\* (mutant: only the first characters are compared)
CompareFirst(a, b) ==
    CASE a = <<>> /\ b = <<>> -> 0
      [] a = <<>> /\ b # <<>> -> -1
      [] a # <<>> /\ b = <<>> -> 1
      [] OTHER -> IF Head(a) < Head(b) THEN -1 ELSE IF Head(a) > Head(b) THEN 1 ELSE 0

\* strcmp: -1, 0 or 1.
RECURSIVE Compare(_, _)
Compare(a, b) ==
    CASE a = <<>> /\ b = <<>> -> 0
      [] a = <<>> /\ b # <<>> -> -1
      [] a # <<>> /\ b = <<>> -> 1
      [] OTHER -> IF Head(a) = Head(b) THEN Compare(Tail(a), Tail(b))
                  ELSE IF Head(a) < Head(b) THEN -1 ELSE 1

RECURSIVE Repeat(_, _)
Repeat(s, k) == IF k = 0 THEN <<>> ELSE s \o Repeat(s, k - 1)

\* (mutant: the length is taken for the end)
SliceTo(s, from, len) == SubSeq(s, from + 1, len)
Slice(s, from, len) == SubSeq(s, from + 1, from + len)

-----------------------------------------------------------------------------
(* One operand. *)

Not(v) ==
    LET b == ToBoolean(v) IN IF Failed(b) THEN b ELSE Boolean(b.n = 0)

Negate(v) ==
    LET n == ToNumber(v) IN IF Failed(n) THEN n ELSE Number(-n.n)

Ascii(v) ==
    CASE v.t = "number" /\ v.n \in 0..254 -> String(<<Char(v.n)>>)
      [] v.t = "string" -> IF v.s = <<>> THEN Number(0) ELSE Number(v.s[1].n)
      [] OTHER -> Panic

Box(v) == List(<<v>>)

Prime(v) ==
    CASE v.t = "string" -> IF v.s = <<>> THEN v ELSE String(<<v.s[1]>>)
      [] v.t = "list" /\ v.s # <<>> -> v.s[1]
      [] OTHER -> Panic

Ultimate(v) ==
    IF v.t \in {"string", "list"} /\ v.s # <<>>
    THEN Value(v.t, 0, Tail(v.s)) ELSE Panic

Length(v) ==
    IF v.t = "string" THEN Number(Len(v.s))
    ELSE LET l == ToList(v) IN IF Failed(l) THEN l ELSE Number(Len(l.s))

-----------------------------------------------------------------------------
(* Two operands: the right one is coerced, to the type of the left one or   *)
(* to a number, before the type of the left one is looked at.               *)

Add(l, r) ==
    LET c == Coerce(r, l.t)
    IN  CASE Failed(c) -> c
          [] l.t = "number" -> Number(l.n + c.n)
          [] l.t \in {"string", "list"} -> Value(l.t, 0, l.s \o c.s)
          [] OTHER -> Panic

Sub(l, r) ==
    LET c == Coerce(r, l.t)
    IN  IF ~Failed(c) /\ l.t = "number" THEN Number(l.n - c.n) ELSE Panic

\* A list is repeated as often as an int says, which has half the width of a
\* word (v_number_t and its tag).
Mul(l, r) ==
    LET c == Coerce(r, "number")
        count == IF l.t = "list" THEN Wrap(c.n, (Bits + 3) \div 2) ELSE c.n
    IN  CASE Failed(c) -> c
          [] l.t = "number" -> Number(l.n * c.n)
          [] l.t \in {"string", "list"} /\ count >= 0 ->
                Value(l.t, 0, Repeat(l.s, count))
          [] OTHER -> Panic

Div(l, r) ==
    LET c == Coerce(r, "number")
    IN  IF ~Failed(c) /\ l.t = "number" /\ c.n # 0
        THEN Number(Quotient(l.n, c.n)) ELSE Panic

Mod(l, r) ==
    LET c == Coerce(r, "number")
    IN  IF ~Failed(c) /\ l.t = "number" /\ c.n > 0 /\ l.n >= 0
        THEN Number(l.n % c.n) ELSE Panic

\* (mutant: the loop ends before the last bit of the exponent)
RECURSIVE SquaringLastBitLost(_, _, _)
SquaringLastBitLost(base, exp, acc) ==
    IF exp <= 1 THEN acc
    ELSE SquaringLastBitLost(Wrap(base * base, Bits + 3), exp \div 2,
                  IF exp % 2 = 1 THEN Wrap(acc * base, Bits + 3) ELSE acc)

\* Exponentiation by squaring, in the 64 bits of v_number_t.
RECURSIVE Squaring(_, _, _)
Squaring(base, exp, acc) ==
    IF exp = 0 THEN acc
    ELSE Squaring(Wrap(base * base, Bits + 3), exp \div 2,
                  IF exp % 2 = 1 THEN Wrap(acc * base, Bits + 3) ELSE acc)

Power(base, exp) ==
    LET p == Squaring(base, IF exp < 0 THEN -exp ELSE exp, 1)
    IN  IF exp >= 0 THEN p ELSE IF p = 0 THEN 0 ELSE Quotient(1, p)

Pow(l, r) ==
    CASE l.t = "number" ->
            LET c == Coerce(r, "number")
            IN  IF Failed(c) THEN c ELSE Number(Power(l.n, c.n))
      [] l.t = "list" ->
            LET c == Coerce(r, "string")
            IN  IF Failed(c) THEN c ELSE Join(l.s, c.s)
      [] OTHER -> Panic

Greater(l, r) ==
    LET c == Coerce(r, l.t)
    IN  CASE Failed(c) -> c
          [] l.t \in {"number", "boolean"} -> Boolean(l.n > c.n)
          [] l.t = "string" -> Boolean(Compare(CString(l.s), CString(c.s)) = 1)
          [] OTHER -> Panic

\* (mutant: equal numbers are less than one another)
LessOrEqual(l, r) ==
    LET c == Coerce(r, l.t)
    IN  CASE Failed(c) -> c
          [] l.t \in {"number", "boolean"} -> Boolean(l.n <= c.n)
          [] l.t = "string" ->
                IF r.t # "string" THEN Fault
                ELSE Boolean(Compare(CString(l.s), CString(r.s)) = -1)
          [] OTHER -> Panic

\* The string case compares with the right operand as it came: one that is
\* not a string is read as if it were.
Less(l, r) ==
    LET c == Coerce(r, l.t)
    IN  CASE Failed(c) -> c
          [] l.t \in {"number", "boolean"} -> Boolean(l.n < c.n)
          [] l.t = "string" ->
                IF r.t # "string" THEN Fault
                ELSE Boolean(Compare(CString(l.s), CString(r.s)) = -1)
          [] OTHER -> Panic

\* The items of two lists are compared, but the answer for a pair that
\* differs is the word TYPE_BOOLEAN, which is not zero: it is never seen.
Equal(l, r) ==
    CASE l.t # r.t -> Boolean(FALSE)
      [] l.t \in {"number", "boolean", "block"} -> Boolean(l.n = r.n)
      [] l.t = "string" -> Boolean(CString(l.s) = CString(r.s))
      [] l.t = "list" -> Boolean(Len(l.s) = Len(r.s))
      [] l.t = "null" -> Boolean(TRUE)
      [] OTHER -> Panic

-----------------------------------------------------------------------------
(* GET and SET. *)

\* The bounds are compared as size_t: a negative length that leaves the sum
\* in range passes.  A string of -1 characters has room for none and is
\* copied to beyond its end; there is no room for one of fewer; a list of a
\* negative length is copied whether there is room or not.
Get(v, index, range) ==
    LET i == Coerce(index, "number")
        r == Coerce(range, "number")
    IN  CASE Failed(i) \/ Failed(r) \/ v.t \notin {"string", "list"} -> Panic
          [] OTHER ->
               CASE i.n = 0 /\ r.n = 0 -> Value(v.t, 0, <<>>)
                 [] ~(i.n = 0 /\ r.n = 0) ->
                      IF \/ i.n < 0 \/ i.n >= Len(v.s)
                         \/ i.n + r.n \notin 0..Len(v.s)
                      THEN Panic
                      ELSE IF r.n < -1 /\ v.t = "string" THEN Panic
                      ELSE IF r.n < 0 THEN Fault
                      ELSE Value(v.t, 0, Slice(v.s, i.n, r.n))

\* The list case has no check of the length: past the end it allocates too
\* little for the items it writes, if it writes any, and a negative one
\* repeats items (none when the index it continues from is negative, an
\* enormous size_t).
Set(v, index, range, replace) ==
    LET i == Coerce(index, "number")
        r == Coerce(range, "number")
        new == IF v.t = "list" THEN ToList(replace) ELSE ToString(replace)
        rest(k) == IF k < 0 THEN <<>> ELSE SubSeq(v.s, k + 1, Len(v.s))
        spliced == Value(v.t, 0, Slice(v.s, 0, i.n) \o new.s \o rest(i.n + r.n))
    IN  CASE \/ Failed(i) \/ Failed(r)
             \/ v.t \notin {"string", "list"} -> Panic
          [] OTHER ->
               CASE Failed(new) \/ i.n < 0 \/ i.n > Len(v.s) -> Panic
                 [] OTHER ->
                      IF v.t = "string"
                      THEN IF r.n < 0 \/ i.n + r.n > Len(v.s) THEN Panic
                           ELSE spliced
                      ELSE IF i.n + r.n > Len(v.s) /\ i.n + Len(new.s) > 0 THEN Fault
                      ELSE spliced

-----------------------------------------------------------------------------
Compute(op, args) ==
    CASE op = "NOT" -> Not(args[1])
      [] op = "NEG" -> Negate(args[1])
      [] op = "LENGTH" -> Length(args[1])
      [] op = "ASCII" -> Ascii(args[1])
      [] op = "BOX" -> Box(args[1])
      [] op = "PRIME" -> Prime(args[1])
      [] op = "ULTIMATE" -> Ultimate(args[1])
      [] op = "ADD" -> Add(args[1], args[2])
      [] op = "SUB" -> Sub(args[1], args[2])
      [] op = "MUL" -> Mul(args[1], args[2])
      [] op = "DIV" -> Div(args[1], args[2])
      [] op = "MOD" -> Mod(args[1], args[2])
      [] op = "POW" -> Pow(args[1], args[2])
      [] op = "GT" -> Greater(args[1], args[2])
      [] op = "LT" -> Less(args[1], args[2])
      [] op = "EQ" -> Equal(args[1], args[2])
      [] op = "GET" -> Get(args[1], args[2], args[3])
      [] op = "SET" -> Set(args[1], args[2], args[3], args[4])
=============================================================================
