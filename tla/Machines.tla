------------------------------ MODULE Machines ------------------------------
(***************************************************************************)
(* A graph in SSA form runs as bytecode (compile.rs, to_bytecode; the loop *)
(* of interp.rs) or as the blocks Cranelift and LLVM are given (clif.rs,   *)
(* gen_function_body).  Both run the statements of a block, then the moves *)
(* that stand for the phi functions of the blocks that may follow, then    *)
(* branch; they differ in which moves and which branch.                    *)
(***************************************************************************)
EXTENDS Ssa, TLC

CONSTANTS
  Items      \* what a loop over an array finds

\* A machine at the start of a program, with its input.
Fresh(tape) ==
  [vars |-> <<>>, line |-> 0, tape |-> tape, err |-> 0, out |-> <<>>,
   at |-> Entry, done |-> FALSE, steps |-> 0]

\* A variable nobody has set is the number 0.
Key(id) == <<id.low, id.sub>>
Get(m, key) == IF key \in DOMAIN m.vars THEN m.vars[key] ELSE 0
Set(m, key, x) == [m EXCEPT !.vars = (key :> x) @@ @]
Of(m, v) == IF v.lit THEN v.n ELSE Get(m, Key(v.id))
Number(b) == IF b THEN 1 ELSE 0

\* The instructions of an expression with a value and no effect.
Pure(m, e) ==
  LET a(k) == Of(m, e.args[k])
  IN  CASE e.op \in {"val", "escape"} -> a(1)
        [] e.op = "not" -> Number(a(1) = 0)
        [] e.op = "plus" -> a(1) + a(2)
        [] e.op = "times" -> a(1) * a(2)
        [] e.op = "lt" -> Number(a(1) < a(2))
        [] e.op = "gt" -> Number(a(1) > a(2))
        [] e.op \in {"eq", "match"} -> Number(a(1) = a(2))
        [] e.op = "line" -> m.line
        [] e.op = "readerr" -> m.err
        [] e.op = "load" -> Get(m, Key(Named(e.args[1])))
        [] e.op = "iter" -> Items
        [] e.op = "hasnext" -> Number(a(1) # <<>>)
        [] e.op = "next" -> Head(a(1))

\* The change an expression makes besides its value.
After(m, e) ==
  CASE e.op = "readline" ->
         IF m.tape = <<>> THEN [m EXCEPT !.err = 0]
         ELSE [m EXCEPT !.line = Head(m.tape), !.tape = Tail(m.tape), !.err = 1]
    [] e.op = "next" ->
         Set(m, Key(e.args[1].id), Tail(Of(m, e.args[1])))
    [] OTHER -> m

RunStmt(m, s) ==
  CASE IsPhi(s) \/ s.kind = "drop" -> m
    [] s.kind = "print" ->
         [m EXCEPT !.out = Append(@, [k \in DOMAIN s.e.args |->
                                        Of(m, s.e.args[k])])]
    [] s.kind = "ret" -> [m EXCEPT !.done = TRUE,
                                   !.out = Append(@, <<Of(m, s.e.args[1])>>)]
    [] s.kind = "setvar" -> Set(m, Key(s.to), Pure(m, s.e))
    [] s.e.op = "readline" -> After(m, s.e)
    [] OTHER -> Set(After(m, s.e), Key(s.to), Pure(m, s.e))

RunMoves(m, moves) ==
  FoldLeft(LAMBDA acc, mv : Set(acc, mv[1], Get(acc, mv[2])), m, moves)

\* The operands of phi that come from block n.  The bytecode takes the first,
\* generated code all, one after the other.
Operands(phi, n) == SelectSeq(phi.e.args, LAMBDA a : a[1] = n)
FromFirst(phi, n) ==
  LET mine == Operands(phi, n) IN IF mine = <<>> THEN <<>> ELSE <<mine[1]>>
FromAll(phi, n) == Operands(phi, n)

\* The moves block n ends with, for every edge out of it, newest first.
Moves(g, n, all) ==
  LET next == Outgoing(g.edges, n)
      from(phi) == IF all THEN FromAll(phi, n) ELSE FromFirst(phi, n)
      move(phi) == [k \in DOMAIN from(phi) |->
                      <<Key(phi.to), Key(from(phi)[k][2])>>]
      into(m) == FlattenSeq([k \in DOMAIN g.q[m] |->
                   IF IsPhi(g.q[m][k]) THEN move(g.q[m][k]) ELSE <<>>])
  IN  FlattenSeq([k \in DOMAIN next |-> into(next[k])])

EdgesFrom(g, n) == SelectSeq(g.edges, LAMBDA e : e.from = n)

(***************************************************************************)
(* The two backends                                                        *)
(***************************************************************************)
\* The jumps of block n in the bytecode, oldest edge first.  An unconditional
\* one to the next block is left out.
Jumps(g, n) == SelectSeq(EdgesFrom(g, n),
                         LAMBDA e : e.cond # NullEdge \/ e.to # n + 1)
Taken(m, jumps) ==
  SelectInSeq(jumps, LAMBDA e : e.cond = NullEdge \/ Of(m, e.cond[1]) # 0)

RunBlock(g, m, all) ==
  RunMoves(FoldLeft(RunStmt, m, g.q[m.at]), Moves(g, m.at, all))

Interpreted(g, m) ==
  LET r == RunBlock(g, m, FALSE)
      jumps == Jumps(g, m.at)
      k == Taken(r, jumps)
  IN  [r EXCEPT !.at = IF k = 0 THEN @ + 1 ELSE jumps[k].to, !.steps = @ + 1]

\* The branch of block n in generated code: the oldest conditional edge, and
\* the oldest unconditional one.
Branches(g, n) ==
  LET out == EdgesFrom(g, n)
  IN  [t |-> SelectInSeq(out, LAMBDA e : e.cond # NullEdge),
       e |-> SelectInSeq(out, LAMBDA e : e.cond = NullEdge), out |-> out]

Executed(g, m) ==
  LET r == RunBlock(g, m, TRUE)
      b == Branches(g, m.at)
      yes == b.t # 0 /\ Of(r, b.out[b.t].cond[1]) # 0
  IN  [r EXCEPT !.at = IF yes THEN b.out[b.t].to
                       ELSE IF b.e # 0 THEN b.out[b.e].to ELSE @,
                !.steps = @ + 1]
=============================================================================
