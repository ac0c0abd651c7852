-------------------------------- MODULE Ssa --------------------------------
(***************************************************************************)
(* Static single assignment form (cfg.rs, insert_phis and rename): phi     *)
(* functions where definitions meet, and a subscript for each definition.  *)
(***************************************************************************)
EXTENDS Flow, Dominators, FiniteSetsExt

IsAssign(s) == s.kind = "assign"
IsPhi(s) == IsAssign(s) /\ s.e.op = "phi"

\* The blocks that assign a variable.
DefSites(g, low) ==
  {n \in Nodes(g) : \E k \in DOMAIN g.q[n] :
     IsAssign(g.q[n][k]) /\ g.q[n][k].to.low = low}
Lows(g) == UNION {{g.q[n][k].to.low : k \in {k \in DOMAIN g.q[n] :
                                               IsAssign(g.q[n][k])}} :
                  n \in Nodes(g)}

(***************************************************************************)
(* Phi functions                                                           *)
(***************************************************************************)
\* A phi function has an operand for every edge into its block.
Phi(g, n, low) ==
  LET preds == Incoming(g.edges, n)
  IN  Assign(Ident(low), Prim("phi", [k \in DOMAIN preds |->
                                        <<preds[k], Ident(low)>>]))

\* Blocks get one for a variable, in front.
AddPhis(g, blocks, low) ==
  [g EXCEPT !.q = [n \in Nodes(g) |->
     IF n \in blocks THEN <<Phi(g, n, low)>> \o g.q[n] ELSE g.q[n]]]

(***************************************************************************)
(* Renaming                                                                *)
(***************************************************************************)
\* The latest definition of an identifier: top[low] is the top of its stack.
Latest(top, id) == IF id.low \in DOMAIN top THEN [id EXCEPT !.sub = top[id.low]]
                   ELSE id
LatestVal(top, v) == IF v.lit THEN v ELSE Var(Latest(top, v.id))

\* Variables and literals among the operands; other operands stay.
Uses(e) == IF e.op \in {"load", "phi"} THEN <<>> ELSE e.args
Replace(top, e) ==
  IF e.op \in {"load", "phi"} THEN e
  ELSE [e EXCEPT !.args = [k \in DOMAIN e.args |-> LatestVal(top, e.args[k])]]

\* One statement: first its uses, then its definition.
RenameStmt(r, s) ==
  LET t == [s EXCEPT !.e = Replace(r.top, s.e)]
      low == s.to.low
  IN  IF ~IsAssign(s) \/ low \notin DOMAIN r.top THEN [r EXCEPT !.q = Append(@, t)]
      ELSE [q |-> Append(r.q, [t EXCEPT !.to.sub = r.count[low] + 1]),
            count |-> [r.count EXCEPT ![low] = @ + 1],
            top |-> [r.top EXCEPT ![low] = r.count[low] + 1]]

\* The first operand of a phi function that comes from n.
FromNode(phi, n, top) ==
  LET k == SelectInSeq(phi.e.args, LAMBDA a : a[1] = n)
  IN  IF k = 0 THEN phi
      ELSE [phi EXCEPT !.e.args[k][2] = Latest(top, @)]

\* What follows n: the conditions on its edges and the phi functions there.
RenameEdges(g, n, top) ==
  LET next == ToSet(Outgoing(g.edges, n))
  IN  [g EXCEPT
         !.edges = [k \in DOMAIN @ |->
            IF @[k].from # n \/ @[k].cond = NullEdge THEN @[k]
            ELSE [@[k] EXCEPT !.cond = <<LatestVal(top, @[1])>>]],
         !.q = [m \in DOMAIN @ |->
            IF m \notin next THEN @[m]
            ELSE [k \in DOMAIN @[m] |->
                    IF IsPhi(@[m][k]) THEN FromNode(@[m][k], n, top)
                    ELSE @[m][k]]]]

\* Down the dominator tree: a child starts with the definitions of its parent.
RECURSIVE Rename(_, _, _, _, _)
Rename(g, tree, n, count, top) ==
  LET r == FoldLeft(RenameStmt, [q |-> <<>>, count |-> count, top |-> top],
                    g.q[n])
      g1 == RenameEdges([g EXCEPT !.q[n] = r.q], n, r.top)
  IN  FoldSet(LAMBDA child, acc :
                Rename(acc.g, tree, child, acc.count, r.top),
              [g |-> g1, count |-> r.count], tree[n])

RenameAll(g, tree, globals) ==
  LET zero == [low \in Lows(g) \ globals |-> 0]
  IN  Rename(g, tree, Entry, zero, zero).g

(***************************************************************************)
(* What the form promises                                                  *)
(***************************************************************************)
\* The places of the definitions of an identifier, as <<block, position>>.
Definitions(g, id) ==
  {p \in UNION {{n} \X DOMAIN g.q[n] : n \in Nodes(g)} :
     IsAssign(g.q[p[1]][p[2]]) /\ g.q[p[1]][p[2]].to = id}

Assigned(g) ==
  UNION {{g.q[n][k].to : k \in {k \in DOMAIN g.q[n] : IsAssign(g.q[n][k])}} :
         n \in Nodes(g)}

\* The last definition of a variable in a block before place k, if any.
LastIn(g, n, low, k) ==
  LET places == {j \in DOMAIN g.q[n] :
                   j < k /\ IsAssign(g.q[n][j]) /\ g.q[n][j].to.low = low}
  IN  IF places = {} THEN {} ELSE {g.q[n][CHOOSE j \in places :
                                            \A i \in places : i <= j].to}

\* The definitions a variable can have at the end of some blocks.
RECURSIVE Reaching(_, _, _, _)
Reaching(g, low, ends, seen) ==
  LET here == UNION {LastIn(g, n, low, UNINIT) : n \in ends}
      open == {n \in ends : LastIn(g, n, low, UNINIT) = {}}
      preds == UNION {ToSet(Incoming(g.edges, n)) : n \in open} \ seen
  IN  here \union (IF Entry \in open THEN {Ident(low)} ELSE {})
        \union (IF preds = {} THEN {}
                ELSE Reaching(g, low, preds, seen \union preds))

\* Those it can have at place k of a block.
ReachingAt(g, n, low, k) ==
  LET last == LastIn(g, n, low, k)
  IN  IF last # {} THEN last
      ELSE IF n = Entry THEN {Ident(low)}
      ELSE Reaching(g, low, ToSet(Incoming(g.edges, n)),
                    ToSet(Incoming(g.edges, n)))

(* Every subscript is assigned once, and every use has the one definition that
   can reach it: uses in statements, in the conditions of edges and, at the end
   of the block the (first) operand comes from, in phi functions.  *)
OneDefinition(g, globals) ==
  \A id \in Assigned(g) :
    id.low \in globals \/ Cardinality(Definitions(g, id)) = 1
UsesTheLatest(g, globals) ==
  LET right(v, n, k) == v.lit \/ v.id.low \in globals
                          \/ ReachingAt(g, n, v.id.low, k) = {v.id}
  IN  /\ \A n \in Reachable(g.edges) : \A k \in DOMAIN g.q[n] :
           LET e == g.q[n][k].e
           IN  /\ \A v \in ToSet(Uses(e)) : right(v, n, k)
               /\ e.op = "phi" => \A p \in {a[1] : a \in ToSet(e.args)} :
                    LET k1 == SelectInSeq(e.args, LAMBDA a : a[1] = p)
                    IN  right(Var(e.args[k1][2]), p, UNINIT)
      /\ \A edge \in ToSet(g.edges) :
           edge.cond # NullEdge => right(edge.cond[1], edge.from, UNINIT)

(* The operands of a phi function from the same block are the same: LLVM
   refuses other code, and Cranelift's moves would depend on their order.  *)
PhisAgree(g) ==
  \A n \in Nodes(g) : \A k \in DOMAIN g.q[n] :
    IsPhi(g.q[n][k]) =>
      \A a, b \in ToSet(g.q[n][k].e.args) : a[1] = b[1] => a[2] = b[2]
=============================================================================
