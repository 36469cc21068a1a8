------------------------------- MODULE Values -------------------------------
(***************************************************************************)
(* The tagged values of jit/value.h and the operations on them of vm.h.    *)
(*                                                                         *)
(* A value is [t, n, s]: the type tag; the payload of a number, a boolean  *)
(* (0 or 1), a character or a block (its id); the characters of a string   *)
(* or the items of a list.  A number has Bits bits, 61 in the code: 64     *)
(* less the tag.  An operation that calls panic() gives Panic, one whose C *)
(* is undefined (it reads or writes outside its objects) gives Fault.      *)
(* vm_run, ir_fold and the reference semantics share these operations.     *)
(***************************************************************************)
EXTENDS Integers, Sequences

CONSTANT Bits
ASSUME BitsAssumption == Bits \in Nat /\ Bits > 1

Value(t, n, s) == [t |-> t, n |-> n, s |-> s]

\* Two's complement at the width of a word.
Wrap(n, bits) == ((n + 2^(bits - 1)) % 2^bits) - 2^(bits - 1)

\* (mutant: a result is not cut to the width of a word)
NumberTooWide(n) == Value("number", n, <<>>)
Number(n) == Value("number", Wrap(n, Bits), <<>>)
Boolean(b) == Value("boolean", IF b THEN 1 ELSE 0, <<>>)
Null == Value("null", 0, <<>>)
Char(c) == Value("char", c, <<>>)
String(chars) == Value("string", 0, chars)
Text(codes) == String([i \in DOMAIN codes |-> Char(codes[i])])
List(items) == Value("list", 0, items)
BlockValue(b) == Value("block", b, <<>>)
Panic == Value("panic", 0, <<>>)
Fault == Value("fault", 0, <<>>)

Failed(v) == v.t \in {"panic", "fault"}
IsBlock(v) == v.t = "block"

\* What memset(0) leaves in a register or a variable.
Zero == Number(0)

-----------------------------------------------------------------------------
(* v_coerce_to_*. *)

\* snprintf "%ld" of n.
RECURSIVE Digits(_)
Digits(n) == IF n < 0 THEN <<45>> \o Digits(-n)
             ELSE IF n < 10 THEN <<48 + n>>
             ELSE Append(Digits(n \div 10), 48 + (n % 10))

\* strtoll: white space, a sign, then digits up to anything else.
RECURSIVE ScanDigits(_, _)
ScanDigits(s, acc) ==
    IF s # <<>> /\ Head(s).n \in 48..57
    THEN ScanDigits(Tail(s), acc * 10 + Head(s).n - 48)
    ELSE acc
RECURSIVE Scan(_)
Scan(s) ==
    IF s = <<>> THEN 0
    ELSE IF Head(s).n \in {32} \cup 9..13 THEN Scan(Tail(s))
    ELSE IF Head(s).n = 45 THEN -ScanDigits(Tail(s), 0)
    ELSE IF Head(s).n = 43 THEN ScanDigits(Tail(s), 0)
    ELSE ScanDigits(s, 0)

ToNumber(v) ==
    CASE v.t = "number" -> v
      [] v.t = "string" ->
            LET n == Scan(v.s)
            IN  IF n \in (-(2^(Bits - 1)))..(2^(Bits - 1) - 1) THEN Number(n)
                ELSE Panic
      [] v.t = "boolean" -> Number(v.n)
      [] v.t = "list" -> Number(Len(v.s))
      [] v.t = "null" -> Number(0)
      [] OTHER -> Panic

RECURSIVE ToString(_)
RECURSIVE Join(_, _)
ToString(v) ==
    CASE v.t = "string" -> v
      [] v.t = "number" -> Text(Digits(v.n))
      [] v.t = "boolean" -> Text(IF v.n = 1 THEN <<116, 114, 117, 101>>
                                 ELSE <<102, 97, 108, 115, 101>>)
      [] v.t = "null" -> Text(<<>>)
      [] v.t = "list" -> Join(v.s, <<Char(10)>>)
      [] OTHER -> Panic
\* The items as strings with `sep` between them.
Join(items, sep) ==
    IF items = <<>> THEN String(<<>>)
    ELSE LET first == ToString(Head(items))
             rest == Join(Tail(items), sep)
         IN  IF Failed(first) \/ Failed(rest) THEN Panic
             ELSE IF Len(items) = 1 THEN first
             ELSE String(first.s \o sep \o rest.s)

ToBoolean(v) ==
    CASE v.t = "boolean" -> v
      [] v.t = "number" -> Boolean(v.n # 0)
      [] v.t \in {"string", "list"} -> Boolean(v.s # <<>>)
      [] v.t = "null" -> Boolean(FALSE)
      [] OTHER -> Panic

\* The payload of a number is shifted without its sign: a negative number
\* gives the digits of a large one.
ToList(v) ==
    CASE v.t = "list" -> v
      [] v.t = "number" ->
            LET d == Digits(v.n % 2^Bits)
            IN  List([i \in DOMAIN d |-> Number(d[i] - 48)])
      [] v.t = "string" -> List([i \in DOMAIN v.s |-> String(<<v.s[i]>>)])
      [] v.t = "null" -> List(<<>>)
      [] OTHER -> Panic

Coerce(v, t) ==
    CASE v.t = t -> v
      [] t = "number" -> ToNumber(v)
      [] t = "string" -> ToString(v)
      [] t = "boolean" -> ToBoolean(v)
      [] t = "list" -> ToList(v)
      [] OTHER -> Panic
=============================================================================
