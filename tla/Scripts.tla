------------------------------ MODULE Scripts ------------------------------
(***************************************************************************)
(* A script is BEGIN, patterns with actions, and END.  It is turned into   *)
(* one statement (ast.rs, desugar_stage), and it means what awk says it    *)
(* means: `Meaning' runs the syntax tree itself, patterns and all.         *)
(***************************************************************************)
EXTENDS Naturals, Sequences

CONSTANTS
  Items,     \* what a loop over an array finds
  AString    \* a string that is not empty

-----------------------------------------------------------------------------
\* Desugaring

\* Mutant: a record that matches both patterns does not end the range.
X_RangeStatements(k, l, r, body) ==
  << <<"if", r, <<"setcond", k, 2>>>>,
     <<"if", l, <<"setcond", k, 1>>>>,
     <<"if", <<"cond", k>>,
       <<"block", << <<"if", <<"bin", "eq", <<"cond", k>>, <<"lit", 2>>>>,
                       <<"setcond", k, 0>>>>, body>>>>>> >>

\* A range pattern: its variable is 1 in the range and 2 on its last record.
RangeStatements(k, l, r, body) ==
  << <<"if", l, <<"setcond", k, 1>>>>,
     <<"if", r, <<"setcond", k, 2>>>>,
     <<"if", <<"cond", k>>,
       <<"block", << <<"if", <<"bin", "eq", <<"cond", k>>, <<"lit", 2>>>>,
                       <<"setcond", k, 0>>>>, body>>>>>> >>

PatternStatements(k, p) ==
  CASE p[1] = "always" -> <<p[2]>>
    [] p[1] = "when" -> << <<"if", p[2], p[3]>> >>
    [] p[1] = "range" -> RangeStatements(k, p[2], p[3], p[4])

Count(x) == <<"expr", <<"inc", FALSE, 1, x>>>>

RECURSIVE AllPatterns(_, _)
AllPatterns(k, pats) ==
  IF pats = <<>> THEN <<>>
  ELSE PatternStatements(k, Head(pats)) \o AllPatterns(k + 1, Tail(pats))

MainLoop(pats) ==
  <<"while", TRUE, <<"bin", "gt", <<"readstdin">>, <<"lit", 0>>>>,
    <<"block", <<Count("NR"), Count("FNR")>> \o AllPatterns(1, pats)>>>>

\* Without patterns and END the input is not read.
DesugarStage(p) ==
  <<"block",
    << <<"expr", <<"assign", "SUBSEP", <<"lit", AString>>>>>> >> \o p.begin
      \o (IF p.pats = <<>> /\ p.end = <<>> THEN <<>> ELSE <<MainLoop(p.pats)>>)
      \o p.end>>

-----------------------------------------------------------------------------
\* What a script means

Start(tape, fuel) ==
  [vars |-> [x \in {} |-> 0], line |-> 0, tape |-> tape, err |-> 0,
   out |-> <<>>, ret |-> 0, fuel |-> fuel, in |-> {}, sig |-> "go",
   stray |-> FALSE]

At(s, x) == IF x \in DOMAIN s.vars THEN s.vars[x] ELSE 0
Put(s, x, v) ==
  [s EXCEPT !.vars = [y \in DOMAIN @ \union {x} |-> IF y = x THEN v ELSE @[y]]]
Bit(b) == IF b THEN 1 ELSE 0
Apply(op, a, b) == CASE op = "plus" -> a + b [] op = "times" -> a * b
                     [] op = "lt" -> Bit(a < b) [] op = "gt" -> Bit(a > b)
                     [] op = "eq" -> Bit(a = b)
Result(v, s) == [v |-> v, s |-> s]
Store(x, r) == Result(r.v, Put(r.s, x, r.v))
ReadLine(s) ==
  IF s.tape = <<>> THEN [s EXCEPT !.err = 0]
  ELSE [s EXCEPT !.line = Head(s.tape), !.tape = Tail(s.tape), !.err = 1]

RECURSIVE Eval(_, _), Run(_, _), Args(_, _), Repeat(_, _, _, _), Each(_, _, _, _)

Eval(e, s) ==
  CASE e[1] = "lit" -> Result(e[2], s)
    [] e[1] = "pat" -> Result(Bit(s.line = e[2]), s)
    [] e[1] = "var" -> Result(At(s, e[2]), s)
    [] e[1] = "line" -> Result(s.line, s)
    [] e[1] = "not" -> LET r == Eval(e[2], s) IN Result(Bit(r.v = 0), r.s)
    [] e[1] = "bin" -> LET a == Eval(e[3], s)
                           b == Eval(e[4], a.s)
                       IN  Result(Apply(e[2], a.v, b.v), b.s)
    [] e[1] = "ite" -> LET c == Eval(e[2], s)
                       IN  Eval(IF c.v # 0 THEN e[3] ELSE e[4], c.s)
    [] e[1] = "and" -> LET a == Eval(e[2], s)
                           b == Eval(e[3], a.s)
                       IN  IF a.v = 0 THEN a ELSE Result(Bit(b.v # 0), b.s)
    [] e[1] = "or" -> LET a == Eval(e[2], s)
                          b == Eval(e[3], a.s)
                      IN  IF a.v # 0 THEN Result(1, a.s)
                          ELSE Result(Bit(b.v # 0), b.s)
    [] e[1] = "assign" -> Store(e[2], Eval(e[3], s))
    [] e[1] = "addto" -> LET r == Eval(e[3], s)
                         IN  Store(e[2], Result(At(r.s, e[2]) + r.v, r.s))
    [] e[1] = "inc" -> LET r == Store(e[4], Result(At(s, e[4]) + e[3], s))
                       IN  IF e[2] THEN Result(r.v - e[3], r.s) ELSE r
    [] e[1] = "getline" -> LET r == ReadLine(s) IN Result(r.err, r)

Args(es, s) ==
  IF es = <<>> THEN Result(<<>>, s)
  ELSE LET r == Eval(Head(es), s)
           t == Args(Tail(es), r.s)
       IN  Result(<<r.v>> \o t.v, t.s)

\* Values are printed with OFS between them and ORS at the end.
RECURSIVE Spread(_, _)
Spread(vs, fs) == IF Len(vs) < 2 THEN vs
                  ELSE <<Head(vs), fs>> \o Spread(Tail(vs), fs)
Printing(es, s) ==
  LET r == IF es = <<>> THEN Result(<<s.line>>, s) ELSE Args(es, s)
  IN  [r.s EXCEPT !.out = Append(@, Spread(r.v, At(r.s, "OFS"))
                                      \o <<At(r.s, "ORS")>>)]

\* A loop goes on after continue, and is over after break.
AfterBody(s) == IF s.sig = "continue" THEN [s EXCEPT !.sig = "go"] ELSE s
AfterLoop(s) == IF s.sig = "break" THEN [s EXCEPT !.sig = "go"] ELSE s

Repeat(c, body, update, s) ==
  LET r == Eval(c, s)
      b == AfterBody(Run(body, [r.s EXCEPT !.fuel = @ - 1]))
  IN  IF s.fuel = 0 THEN [s EXCEPT !.sig = "fuel"]
      ELSE IF r.v = 0 THEN r.s
      ELSE IF b.sig # "go" THEN AfterLoop(b)
      ELSE Repeat(c, body, update, Run(update, b))

Each(x, items, body, s) ==
  IF items = <<>> THEN s
  ELSE LET b == AfterBody(Run(body, Put(s, x, Head(items))))
       IN  IF b.sig # "go" THEN AfterLoop(b) ELSE Each(x, Tail(items), body, b)

Nop == <<"block", <<>>>>
Run(t, s) ==
  CASE s.sig # "go" -> s
    [] t[1] = "expr" -> Eval(t[2], s).s
    [] t[1] = "print" -> Printing(t[2], s)
    [] t[1] = "block" -> IF t[2] = <<>> THEN s
                         ELSE Run(<<"block", Tail(t[2])>>, Run(Head(t[2]), s))
    [] t[1] = "if" -> LET c == Eval(t[2], s)
                      IN  IF c.v # 0 THEN Run(t[3], c.s) ELSE c.s
    [] t[1] = "ifelse" -> LET c == Eval(t[2], s)
                          IN  Run(IF c.v # 0 THEN t[3] ELSE t[4], c.s)
    [] t[1] = "while" -> Repeat(t[3], t[4], Nop, s)
    [] t[1] = "do" -> LET b == AfterBody(Run(t[3], s))
                      IN  IF b.sig # "go" THEN AfterLoop(b)
                          ELSE Repeat(t[2], t[3], Nop, b)
    [] t[1] = "for" -> Repeat(t[3], t[5], t[4], Run(t[2], s))
    [] t[1] = "foreach" -> Each(t[2], Items, t[3], s)
    [] t[1] = "return" -> LET r == Eval(t[2], s)
                          IN  [r.s EXCEPT !.ret = r.v, !.sig = "return"]
    [] OTHER -> [s EXCEPT !.sig = t[1]]

(* A range starts with a record that matches l, and ends with the next one, or
   the same one, that matches r.  `stray' notes a record that matches r only,
   outside of the range.  *)
InRange(k, p, s) ==
  LET l == Eval(p[2], s).v # 0
      r == Eval(p[3], s).v # 0
      on == k \in s.in \/ l
      t == [s EXCEPT !.in = IF on /\ ~r THEN @ \union {k} ELSE @ \ {k},
                     !.stray = @ \/ (~on /\ r)]
  IN  IF on THEN Run(p[4], t) ELSE t

RECURSIVE RunPatterns(_, _, _), Records(_, _)
RunPatterns(k, pats, s) ==
  IF pats = <<>> \/ s.sig # "go" THEN s
  ELSE LET p == Head(pats)
       IN  RunPatterns(k + 1, Tail(pats),
             CASE p[1] = "always" -> Run(p[2], s)
               [] p[1] = "when" -> Run(<<"if", p[2], p[3]>>, s)
               [] p[1] = "range" -> InRange(k, p, s))

Records(pats, s) ==
  IF s.sig # "go" \/ s.tape = <<>> THEN s
  ELSE LET r == ReadLine(s)
           n == Put(Put(r, "NR", At(r, "NR") + 1), "FNR", At(r, "FNR") + 1)
           t == RunPatterns(1, pats, n)
       IN  Records(pats, IF t.sig = "next" THEN [t EXCEPT !.sig = "go"] ELSE t)

Meaning(p, tape, fuel) ==
  LET begin == Run(<<"block", p.begin>>, Start(tape, fuel))
      loop == IF p.pats = <<>> /\ p.end = <<>> THEN begin
              ELSE Records(p.pats, begin)
      end == Run(<<"block", p.end>>, loop)
  IN  [end EXCEPT !.out = Append(@, <<end.ret>>)]
=============================================================================
