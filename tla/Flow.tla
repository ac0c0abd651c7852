-------------------------------- MODULE Flow --------------------------------
(***************************************************************************)
(* A function body becomes a control-flow graph (cfg.rs, convert_stmt and  *)
(* convert_expr).  The syntax trees are tuples that start with their kind: *)
(*                                                                         *)
(*   <<"lit", n>>   <<"pat", p>>   <<"var", x>>   <<"cond", k>>  <<"line">>  *)
(*   <<"not", e>>   <<"bin", op, e1, e2>>   <<"ite", c, e1, e2>>           *)
(*   <<"and", e1, e2>>  <<"or", e1, e2>>  <<"assign", x, e>>               *)
(*   <<"addto", x, e>>  <<"inc", post, by, x>>  <<"getline">>              *)
(*   <<"readstdin">>                                                       *)
(*                                                                         *)
(*   <<"expr", e>>  <<"print", es>>  <<"block", ss>>  <<"if", c, s>>       *)
(*   <<"ifelse", c, s1, s2>>  <<"while", top, c, s>>  <<"do", c, s>>       *)
(*   <<"for", init, c, update, s>>  <<"foreach", x, s>>  <<"break">>       *)
(*   <<"continue">>  <<"next">>  <<"return", e>>  <<"setcond", k, n>>      *)
(*                                                                         *)
(* Strings, fields and the choice among builtin functions are left out: a  *)
(* value is a number, a pattern matches one record, and a literal pattern  *)
(* used as a value is AString.                                             *)
(***************************************************************************)
EXTENDS Naturals, Sequences

CONSTANTS
  Builtins,   \* special variables, which live in the runtime
  AString     \* a string that is not empty

(***************************************************************************)
(* Statements and graphs                                                   *)
(***************************************************************************)
\* An identifier: the name of a variable, or of a fresh one, and a subscript.
Low(name, n) == <<name, n>>
Ident(low) == [low |-> low, sub |-> 0]
Named(x) == Ident(Low(x, 0))
CondVar(k) == Ident(Low("cond", k))
Unused == Ident(Low("unused", 0))
Ret == Ident(Low("ret", 0))

\* Temporaries are assigned once and get no phi functions.
MayRename(low) == low[1] \notin {"tmp", "unused"}

Lit(n) == [lit |-> TRUE, n |-> n]
Var(id) == [lit |-> FALSE, id |-> id]

\* Expressions of the graph take values, and a phi function takes pairs.
Prim(op, args) == [op |-> op, args |-> args]
Value(v) == Prim("val", <<v>>)
Assign(id, e) == [kind |-> "assign", to |-> id, e |-> e]
Effect(kind, e) == [kind |-> kind, to |-> Unused, e |-> e]

Entry == 1
Exit == 2
NullEdge == <<>>
EmptyGraph == [q |-> << <<>>, <<>> >>, edges |-> <<>>, sealed |-> {},
               fresh |-> 0, loops |-> <<>>, top |-> 0, err |-> "none"]

Nodes(g) == DOMAIN g.q
Newest(g) == Len(g.q)
AddNode(g) == [g EXCEPT !.q = Append(@, <<>>)]
AddEdge(g, from, to, cond) ==
  [g EXCEPT !.edges = Append(@, [from |-> from, to |-> to, cond |-> cond])]
Seal(g, at) == [g EXCEPT !.sealed = @ \union {at}]
Failing(g, why) == [g EXCEPT !.err = IF @ = "none" THEN why ELSE @]

\* Nothing can follow a jump in its block.
AddStmt(g, at, s) ==
  IF at \in g.sealed THEN Failing(g, "sealed")
  ELSE [g EXCEPT !.q[at] = Append(@, s)]

GuardedElse(g, from, to) ==
  IF from \in g.sealed THEN g ELSE AddEdge(g, from, to, NullEdge)

Expr(g, at, e) == [g |-> g, at |-> at, e |-> e]
Val(g, at, v) == [g |-> g, at |-> at, v |-> v]
Open(g, at) == [g |-> g, at |-> at]

FreshId(g, name) == Ident(Low(name, g.fresh))
Bump(g) == [g EXCEPT !.fresh = @ + 1]

ToVal(g, at, e) ==
  IF e.op = "val" THEN Val(g, at, e.args[1])
  ELSE LET id == FreshId(g, "tmp")
       IN  Val(AddStmt(Bump(g), at, Assign(id, e)), at, Var(id))

(***************************************************************************)
(* Expressions                                                             *)
(***************************************************************************)
\* One conversion after another: what F does with the result of the first.
Then(r, F(_)) == F(r)

RECURSIVE ConvertExpr(_, _, _, _), ConvertStmt(_, _, _)

ConvertVal(g, e, at, inCond) ==
  Then(ConvertExpr(g, e, at, inCond), LAMBDA r : ToVal(r.g, r.at, r.e))

\* A block of its own, with the expression or statement converted into it.
Standalone(g, e, inCond) ==
  Then(ConvertExpr(AddNode(g), e, Newest(g) + 1, inCond), LAMBDA r :
  [g |-> r.g, start |-> Newest(g) + 1, at |-> r.at, e |-> r.e])
StandaloneBlock(g, s) ==
  Then(ConvertStmt(AddNode(g), s, Newest(g) + 1), LAMBDA r :
  [g |-> r.g, start |-> Newest(g) + 1, at |-> r.at])

\* The branch of a condition; f is empty if there is nothing else to do.
DoCondition(g, cond, t, f, at) ==
  Then(ConvertVal(g, cond, at, TRUE), LAMBDA c :
  LET next == Newest(c.g) + 1
      g1 == AddEdge(AddNode(c.g), c.at, t.start, <<c.v>>)
      g2 == GuardedElse(g1, t.at, next)
  IN  Open(IF f = <<>> THEN GuardedElse(g2, c.at, next)
           ELSE AddEdge(AddEdge(g2, c.at, f[1].start, NullEdge),
                        f[1].at, next, NullEdge),
           next))

ConvertIte(g, e, at, inCond) ==
  LET id == FreshId(g, "res")
      Assigned(g0, r) == AddStmt(g0, r.at, Assign(id, r.e))
  IN  Then(Standalone(Bump(g), e[3], inCond), LAMBDA t :
      Then(Standalone(t.g, e[4], inCond), LAMBDA f :
      Then(DoCondition(Assigned(Assigned(f.g, t), f), e[2], t, <<f>>, at),
           LAMBDA r : Expr(r.g, r.at, Value(Var(id))))))

Bool(e) == <<"not", <<"not", e>>>>

\* do_assign: the variable before the assignment is an operand of e.
DoAssign(g, at, x, e) ==
  IF x \in Builtins
  THEN LET old == ToVal(g, at, Prim("load", <<x>>))
       IN  Expr(AddStmt(old.g, at, [kind |-> "setvar", to |-> Named(x),
                                    e |-> IF e[1] = "to" THEN e[2]
                                          ELSE Prim("plus", <<old.v, e[2]>>)]),
                at, Prim("load", <<x>>))
  ELSE LET id == Named(x)
           new == IF e[1] = "to" THEN e[2] ELSE Prim("plus", <<Var(id), e[2]>>)
       IN  Expr(AddStmt(g, at, Assign(id, new)), at, Value(Var(id)))

ConvertInc(g, e, at) ==
  LET old == FreshId(g, "tmp")
      Plus(g0) == ConvertExpr(g0, <<"addto", e[4], <<"lit", e[3]>>>>, at, FALSE)
  IN  IF ~e[2] THEN Plus(g)
      ELSE Then(ConvertExpr(g, <<"var", e[4]>>, at, FALSE), LAMBDA v :
           Then(Plus(AddStmt(Bump(g), at, Assign(old, v.e))), LAMBDA r :
           Expr(AddStmt(r.g, r.at, Assign(Unused, r.e)), r.at,
                Value(Var(old)))))

\* Reading starts a block, for the benefit of the analysis of FS; getline
\* starts one more.
StartBlock(g, at) == AddEdge(AddNode(g), at, Newest(g) + 1, NullEdge)
ConvertRead(g, at) ==
  LET next == Newest(g) + 1
  IN  Expr(AddStmt(StartBlock(g, at), next,
                   Assign(Unused, Prim("readline", <<>>))),
           next, Prim("readerr", <<>>))

ConvertBin(g, e, at) ==
  Then(ConvertVal(g, e[3], at, FALSE), LAMBDA a :
  Then(ConvertVal(a.g, e[4], a.at, FALSE), LAMBDA b :
  Expr(b.g, b.at, Prim(e[2], <<a.v, b.v>>))))

\* The first error ends the conversion.
ConvertExpr(g, e, at, inCond) ==
  CASE g.err # "none" -> Expr(g, at, Value(Lit(0)))
    [] e[1] = "lit" -> Expr(g, at, Value(Lit(e[2])))
    [] e[1] = "pat" ->
         IF inCond THEN LET v == ToVal(g, at, Prim("line", <<>>))
                        IN  Expr(v.g, at, Prim("match", <<v.v, Lit(e[2])>>))
         ELSE Expr(g, at, Value(Lit(AString)))
    [] e[1] = "var" ->
         Expr(g, at, IF e[2] \in Builtins THEN Prim("load", <<e[2]>>)
                     ELSE Value(Var(Named(e[2]))))
    [] e[1] = "cond" -> Expr(g, at, Value(Var(CondVar(e[2]))))
    [] e[1] = "line" -> Expr(g, at, Prim("line", <<>>))
    [] e[1] = "not" -> Then(ConvertVal(g, e[2], at, inCond), LAMBDA v :
                            Expr(v.g, v.at, Prim("not", <<v.v>>)))
    [] e[1] = "bin" -> ConvertBin(g, e, at)
    [] e[1] = "ite" -> ConvertIte(g, e, at, inCond)
    [] e[1] = "and" ->
         ConvertIte(g, <<"ite", e[2], Bool(e[3]), <<"lit", 0>>>>, at, inCond)
    [] e[1] = "or" ->
         ConvertIte(g, <<"ite", e[2], <<"lit", 1>>, Bool(e[3])>>, at, inCond)
    [] e[1] = "assign" -> Then(ConvertExpr(g, e[3], at, FALSE), LAMBDA r :
                               DoAssign(r.g, r.at, e[2], <<"to", r.e>>))
    [] e[1] = "addto" -> Then(ConvertVal(g, e[3], at, FALSE), LAMBDA r :
                              DoAssign(r.g, r.at, e[2], <<"plus", r.v>>))
    [] e[1] = "inc" -> ConvertInc(g, e, at)
    [] e[1] = "readstdin" -> ConvertRead(g, at)
    [] e[1] = "getline" ->
         ConvertExpr(StartBlock(g, at), <<"readstdin">>, Newest(g) + 1, inCond)

(***************************************************************************)
(* Statements                                                              *)
(***************************************************************************)
\* A value to print is escaped in the block where its conversion started.
RECURSIVE ConvertArgs(_, _, _, _)
ConvertArgs(g, es, at, esc) ==
  IF es = <<>> THEN [g |-> g, at |-> at, vs |-> <<>>]
  ELSE Then(ConvertVal(g, Head(es), at, FALSE), LAMBDA v :
       Then(IF esc THEN ToVal(v.g, at, Prim("escape", <<v.v>>)) ELSE v,
            LAMBDA w :
       Then(ConvertArgs(w.g, Tail(es), v.at, esc), LAMBDA r :
       [r EXCEPT !.vs = <<w.v>> \o @])))

\* Each value to print is followed by a separator; both of these are loaded
\* before the values are converted.
Separated(vs, fs, ors) ==
  [k \in 1 .. 2 * Len(vs) |-> IF k % 2 = 1 THEN vs[(k + 1) \div 2]
                              ELSE IF k = 2 * Len(vs) THEN ors ELSE fs]

ConvertPrint(g, es, esc, at) ==
  LET ors == ToVal(g, at, Prim("load", <<"ORS">>))
      fs == IF Len(es) > 1 THEN ToVal(ors.g, at, Prim("load", <<"OFS">>))
            ELSE Val(ors.g, at, Var(Unused))
      Printed(r, vs) ==
        Open(AddStmt(r.g, r.at, Effect("print", Prim("print", vs))), r.at)
  IN  IF es = <<>>
      THEN Then(ToVal(ors.g, at, Prim("line", <<>>)), LAMBDA r :
                Printed(r, <<r.v, ors.v>>))
      ELSE Then(ConvertArgs(fs.g, es, at, esc), LAMBDA r :
                Printed(r, Separated(r.vs, fs.v, ors.v)))

\* The header, the footer and the body of a loop, and the edges known so far.
MakeLoop(g, body, update, at, isDo, isTop) ==
  LET h == Newest(g) + 1
      g1 == [AddNode(AddNode(g)) EXCEPT !.loops = Append(@, <<h, h + 1>>),
                                        !.top = IF isTop THEN h ELSE @]
      Entered(b, e) ==
        IF isDo THEN AddEdge(e.g, at, b.start, NullEdge)
        ELSE AddEdge(AddEdge(e.g, b.start, h, NullEdge), at, h, NullEdge)
  IN  Then(StandaloneBlock(g1, body), LAMBDA b :
      Then(IF update = <<>> THEN b ELSE ConvertStmt(b.g, update[1], b.at),
           LAMBDA e :
      [g |-> [AddEdge(Entered(b, e), e.at, h, NullEdge)
                EXCEPT !.loops = g.loops],
       h |-> h, start |-> b.start, f |-> h + 1]))

Loop(g, cond, body, update, at, isDo, isTop) ==
  Then(MakeLoop(g, body, update, at, isDo, isTop), LAMBDA l :
  Then(ConvertVal(l.g, cond, l.h, FALSE), LAMBDA c :
  Open(AddEdge(AddEdge(c.g, c.at, l.start, <<c.v>>), c.at, l.f, NullEdge),
       l.f)))

ConvertForEach(g, s, at) ==
  LET cond == Newest(g) + 1
      f == cond + 1
      start == f + 1
      Header(it) == ToVal(AddNode(it.g), cond, Prim("hasnext", <<it.v>>))
      Footer(g0, it) == AddStmt(AddNode(AddEdge(g0, at, cond, NullEdge)), f,
                                Effect("drop", Value(it.v)))
      Body(g0, it) ==
        AddStmt(AddNode([g0 EXCEPT !.loops = Append(@, <<cond, f>>)]), start,
                Assign(Named(s[2]), Prim("next", <<it.v>>)))
      Edges(g0, end, v) ==
        AddEdge(AddEdge(AddEdge(g0, cond, start, <<v>>), cond, f, NullEdge),
                end, cond, NullEdge)
  IN  Then(ToVal(g, at, Prim("iter", <<>>)), LAMBDA it :
      Then(Header(it), LAMBDA more :
      Then(ConvertStmt(Body(Footer(more.g, it), it), s[3], start), LAMBDA b :
      Open([Edges(b.g, b.at, more.v) EXCEPT !.loops = g.loops], f))))

\* Mutant: the loop over the records counts as a loop.
X_Jump(g, at, k) ==
  IF g.loops = <<>> THEN Open(Failing(g, "outside"), at)
  ELSE Open(Seal(AddEdge(g, at, g.loops[Len(g.loops)][k], NullEdge), at), at)

\* break and continue; the loop over the records does not count as a loop.
Jump(g, at, k) ==
  IF g.loops = <<>> \/ (Len(g.loops) = 1 /\ g.top # 0)
  THEN Open(Failing(g, "outside"), at)
  ELSE Open(Seal(AddEdge(g, at, g.loops[Len(g.loops)][k], NullEdge), at), at)

DoNext(g, at) ==
  IF g.top = 0 THEN Open(Failing(g, "outside"), at)
  ELSE Open(Seal(AddEdge(g, at, g.top, NullEdge), at), at)

DoReturn(g, e, at) ==
  Then(ConvertExpr(g, e, at, FALSE), LAMBDA r :
  Open(Seal(AddEdge(AddStmt(r.g, r.at, Assign(Ret, r.e)), r.at, Exit, NullEdge),
            r.at), r.at))

ConvertStmt(g, s, at) ==
  CASE g.err # "none" -> Open(g, at)
    [] s[1] = "expr" ->
         Then(ConvertExpr(g, s[2], at, FALSE), LAMBDA r :
              Open(AddStmt(r.g, r.at, Assign(Unused, r.e)), r.at))
    [] s[1] = "print" -> ConvertPrint(g, s[2], s[3], at)
    [] s[1] = "block" ->
         IF s[2] = <<>> THEN Open(g, at)
         ELSE Then(ConvertStmt(g, Head(s[2]), at), LAMBDA r :
                   ConvertStmt(r.g, <<"block", Tail(s[2])>>, r.at))
    [] s[1] = "if" -> Then(StandaloneBlock(g, s[3]), LAMBDA t :
                           DoCondition(t.g, s[2], t, <<>>, at))
    [] s[1] = "ifelse" ->
         Then(StandaloneBlock(g, s[3]), LAMBDA t :
         Then(StandaloneBlock(t.g, s[4]), LAMBDA f :
              DoCondition(f.g, s[2], t, <<f>>, at)))
    [] s[1] = "while" -> Loop(g, s[3], s[4], <<>>, at, FALSE, s[2])
    [] s[1] = "do" -> Loop(g, s[2], s[3], <<>>, at, TRUE, FALSE)
    [] s[1] = "for" ->
         Then(ConvertStmt(g, s[2], at), LAMBDA r :
              Loop(r.g, s[3], s[5], <<s[4]>>, r.at, FALSE, FALSE))
    [] s[1] = "foreach" -> ConvertForEach(g, s, at)
    [] s[1] = "break" -> Jump(g, at, 2)
    [] s[1] = "continue" -> Jump(g, at, 1)
    [] s[1] = "next" -> DoNext(g, at)
    [] s[1] = "return" -> DoReturn(g, s[2], at)
    [] s[1] = "setcond" ->
         Open(AddStmt(g, at, Assign(CondVar(s[2]), Value(Lit(s[3])))), at)

\* finish: every block without an unconditional edge goes on to the exit.
RECURSIVE Finish(_, _)
Finish(g, n) ==
  IF n > Newest(g) THEN AddStmt(g, Exit, Effect("ret", Value(Var(Ret))))
  ELSE IF n = Exit \/ \E k \in DOMAIN g.edges : g.edges[k].from = n
                                             /\ g.edges[k].cond = NullEdge
  THEN Finish(g, n + 1)
  ELSE Finish(AddEdge(g, n, Exit, NullEdge), n + 1)

Convert(s) == Finish(ConvertStmt(EmptyGraph, s, Entry).g, Entry)
=============================================================================
