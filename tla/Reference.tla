----------------------------- MODULE Reference -----------------------------
(***************************************************************************)
(* What a Knight program means, by recursion over its tree: the promise    *)
(* that the generator, the optimizer and the machine together have to      *)
(* keep.  The meaning of each function is the one the test suite states    *)
(* (src/tests/function); the operations on values are those of vm.h, so    *)
(* that what is compared is the order of evaluation, what is evaluated at  *)
(* all, and which value goes where.                                        *)
(*                                                                         *)
(* A state m is [val, vars, out, inp, status, exit, fuel]: the value of    *)
(* the last expression, the variables, what was written, the input left,   *)
(* and how the program ended.  Fuel bounds the calls of Eval.              *)
(***************************************************************************)
EXTENDS Operations, Parser

OperatorOf == [LENGTH |-> "LENGTH", NOT |-> "NOT", NEGATE |-> "NEG",
               ASCII |-> "ASCII", BOX |-> "BOX", PRIME |-> "PRIME",
               ULTIMATE |-> "ULTIMATE", PLUS |-> "ADD", MINUS |-> "SUB",
               MULTIPLY |-> "MUL", DIVIDE |-> "DIV", MODULO |-> "MOD",
               POWER |-> "POW", LESS |-> "LT", GREATER |-> "GT",
               EQUAL |-> "EQ", GET |-> "GET", SET |-> "SET"]

\* The program goes on with the value v, or stops if there is none.
Yield(m, v) ==
    IF Failed(v) THEN [m EXCEPT !.status = v.t] ELSE [m EXCEPT !.val = v]

RECURSIVE Eval(_, _, _, _)
RECURSIVE EvalArgs(_, _, _, _, _)
RECURSIVE Loop(_, _, _, _)

\* The arguments from left to right; the result carries their values in val.
EvalArgs(ast, ns, m, random, acc) ==
    IF ns = <<>> \/ m.status # "run" THEN [m EXCEPT !.val = acc]
    ELSE LET m1 == Eval(ast, Head(ns), m, random)
         IN  EvalArgs(ast, Tail(ns), m1, random, Append(acc, m1.val))

Loop(ast, n, m, random) ==
    LET c == Eval(ast, ast[n].kids[1], m, random)
        b == ToBoolean(c.val)
        m1 == Eval(ast, ast[n].kids[2], c, random)
    IN  CASE c.status # "run" -> c
          [] c.status = "run" /\ Failed(b) -> Yield(c, b)
          [] OTHER -> IF b.n = 0 THEN Yield(c, Null)
                      ELSE IF m1.status # "run" THEN m1
                      ELSE Loop(ast, n, m1, random)

Eval(ast, n, before, random) ==
    LET k == ast[n].kind
        kid(i) == ast[n].kids[i]
        m == [before EXCEPT !.fuel = @ - 1]
        a == Eval(ast, kid(1), m, random)
        truth == ToBoolean(a.val)
        text == ToString(a.val)
        number == ToNumber(a.val)
        args == EvalArgs(ast, ast[n].kids, m, random, <<>>)
        value == Eval(ast, kid(2), m, random)
        stopped == a.status # "run"
    IN
    CASE m.status # "run" -> m
      [] m.status = "run" /\ m.fuel = 0 -> [m EXCEPT !.status = "fuel"]
      [] OTHER ->
    CASE k \in LiteralKinds -> Yield(m, ast[n].lit)
      [] k = "IDENTIFIER" -> Yield(m, m.vars[ast[n].name])
      [] k = "RANDOM" -> Yield(m, random)
      [] k = "PROMPT" ->
            IF m.inp = <<>> THEN Yield(m, Null)
            ELSE Yield([m EXCEPT !.inp = Tail(@)], Head(m.inp))
      [] k \in DOMAIN OperatorOf ->
            IF args.status # "run" THEN args
            ELSE Yield(args, Compute(OperatorOf[k], args.val))
      [] k = "BLOCK" -> Yield(m, BlockValue(n))
      [] k = "CALL" ->
            IF stopped THEN a
            ELSE IF a.val.t # "block" THEN Yield(a, Panic)
            ELSE Eval(ast, ast[a.val.n].kids[1], a, random)
      [] k = "QUIT" ->
            IF stopped THEN a
            ELSE IF Failed(number) THEN Yield(a, number)
            ELSE [a EXCEPT !.status = "quit", !.exit = number]
      [] k = "OUTPUT" ->
            IF stopped THEN a
            ELSE IF Failed(text) THEN Yield(a, text)
            ELSE Yield([a EXCEPT !.out = Append(@, text)], Null)
      [] k = "DUMP" ->
            IF stopped THEN a ELSE [a EXCEPT !.out = Append(@, a.val)]
      [] k \in {"AND", "OR", "IF"} ->
            IF stopped THEN a
            ELSE IF Failed(truth) THEN Yield(a, truth)
            ELSE IF k = "IF" THEN Eval(ast, kid(IF truth.n = 1 THEN 2 ELSE 3), a, random)
            ELSE IF (k = "AND") = (truth.n = 1) THEN Eval(ast, kid(2), a, random)
            ELSE a
      [] k = "EXPR" ->
            IF stopped THEN a ELSE Eval(ast, kid(2), a, random)
      [] k = "ASSIGN" ->
            IF value.status # "run" THEN value
            ELSE [value EXCEPT !.vars[ast[kid(1)].name] = value.val]
      [] k = "WHILE" -> Loop(ast, n, m, random)

Meaning(ast, vars, lines, random, fuel) ==
    LET m == Eval(ast, 1,
                  [val |-> Null, vars |-> vars, out |-> <<>>, inp |-> lines,
                   status |-> "run", exit |-> Null, fuel |-> fuel], random)
    IN  [m EXCEPT !.status = IF @ = "run" THEN "done" ELSE @]
=============================================================================
