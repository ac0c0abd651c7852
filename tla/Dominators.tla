----------------------------- MODULE Dominators -----------------------------
(***************************************************************************)
(* Dominators and dominance frontiers by the Semi-NCA algorithm (dom.rs),  *)
(* and what they are by definition.  A graph has the nodes 1..n and its    *)
(* edges in the order they were added; petgraph walks them newest first.   *)
(***************************************************************************)
EXTENDS Naturals, Sequences, FiniteSets, SequencesExt

\* NODEINFO_UNINIT: no node, and the number of a node the search has not seen.
UNINIT == 1000

Root == 1
Outgoing(edges, n) ==
  LET out == Reverse(SelectSeq(edges, LAMBDA e : e.from = n))
  IN  [k \in DOMAIN out |-> out[k].to]
Incoming(edges, n) ==
  LET in == Reverse(SelectSeq(edges, LAMBDA e : e.to = n))
  IN  [k \in DOMAIN in |-> in[k].from]

(***************************************************************************)
(* DomInfo                                                                 *)
(***************************************************************************)
NoInfo(n) ==
  [dfs |-> <<>>, dfsnum |-> [k \in 1 .. n |-> UNINIT],
   idom |-> [k \in 1 .. n |-> UNINIT], sdom |-> [k \in 1 .. n |-> UNINIT],
   parent |-> [k \in 1 .. n |-> UNINIT],
   ancestor |-> [k \in 1 .. n |-> UNINIT], best |-> [k \in 1 .. n |-> UNINIT],
   panic |-> FALSE]

\* Depth-first numbers and the spanning tree.
RECURSIVE Dfs(_, _, _, _), DfsAll(_, _, _, _)
Dfs(edges, info, n, parent) ==
  DfsAll(edges, [info EXCEPT !.dfs = Append(@, n), !.dfsnum[n] = Len(info.dfs),
                             !.parent[n] = parent, !.idom[n] = parent],
         n, Outgoing(edges, n))
DfsAll(edges, info, n, next) ==
  IF next = <<>> THEN info
  ELSE DfsAll(edges,
              IF info.dfsnum[Head(next)] # UNINIT THEN info
              ELSE Dfs(edges, info, Head(next), n),
              n, Tail(next))

SdomNum(info, n) == info.dfsnum[info.sdom[n]]

\* The ancestor with the lowest semidominator, with path compression.  A node
\* without an ancestor is an index out of bounds.
RECURSIVE Eval(_, _)
Eval(info, n) ==
  LET p == info.ancestor[n]
  IN  IF p = UNINIT THEN [info EXCEPT !.panic = TRUE]
      ELSE IF info.ancestor[p] = UNINIT THEN info
      ELSE LET up == Eval(info, p)
               b == up.best[p]
           IN  [up EXCEPT !.ancestor[n] = up.ancestor[p],
                          !.best[n] = IF SdomNum(up, b) < SdomNum(up, @)
                                      THEN b ELSE @]

\* One predecessor of n, with the semidominator found so far.
Candidate(n, found, pred) ==
  LET info == found.info
      up == IF info.dfsnum[pred] <= info.dfsnum[n] THEN info ELSE Eval(info, pred)
      c == IF info.dfsnum[pred] <= info.dfsnum[n] THEN pred
           ELSE IF up.panic THEN found.semi ELSE up.sdom[up.best[pred]]
  IN  [info |-> up,
       semi |-> IF up.dfsnum[c] < up.dfsnum[found.semi] THEN c ELSE found.semi]

Semi(edges, info, n) ==
  LET found == FoldLeft(LAMBDA f, p : Candidate(n, f, p),
                        [info |-> info, semi |-> info.parent[n]],
                        Incoming(edges, n))
  IN  [found.info EXCEPT !.sdom[n] = found.semi,
                         !.ancestor[n] = info.parent[n], !.best[n] = n]

Semis(edges, info) ==
  FoldLeft(LAMBDA i, n : Semi(edges, i, n), info, Reverse(Tail(info.dfs)))

\* Mutant: the search for the dominator stops one step early.
X_Climb(info, idom, semi) ==
  IF info.dfsnum[idom] <= semi + 1 THEN idom ELSE info.idom[idom]

RECURSIVE Climb(_, _, _)
Climb(info, idom, semi) ==
  IF info.dfsnum[idom] <= semi THEN idom ELSE Climb(info, info.idom[idom], semi)

Idoms(info) ==
  FoldLeft(LAMBDA i, n : [i EXCEPT !.idom[n] = Climb(i, @, SdomNum(i, n))],
           info, Tail(info.dfs))

DomInfo(edges, n) ==
  LET info == Semis(edges, Dfs(edges, NoInfo(n), Root, UNINIT))
  IN  IF info.panic THEN info ELSE Idoms(info)

\* Up from a predecessor of b to its dominator.
RECURSIVE Runner(_, _, _)
Runner(info, n, bdom) ==
  IF n = bdom \/ n = UNINIT THEN {} ELSE {n} \union Runner(info, info.idom[n], bdom)

DomFrontier(edges, info) ==
  LET fronts(b) == UNION {Runner(info, p, info.idom[b]) :
                            p \in ToSet(Incoming(edges, b))}
      joins == {b \in DOMAIN info.idom : Len(Incoming(edges, b)) >= 2}
  IN  [n \in DOMAIN info.idom |-> {b \in joins : n \in fronts(b)}]

DomTree(info) ==
  [n \in DOMAIN info.idom |-> {k \in DOMAIN info.idom : info.idom[k] = n}]

(***************************************************************************)
(* The definitions                                                         *)
(***************************************************************************)
\* Nodes reachable from the root without going through `avoid'.
RECURSIVE Reach(_, _, _)
Reach(edges, avoid, seen) ==
  LET more == {edges[k].to : k \in {k \in DOMAIN edges : edges[k].from \in seen}}
              \ (seen \union {avoid})
  IN  IF more = {} THEN seen ELSE Reach(edges, avoid, seen \union more)
Reachable(edges) == Reach(edges, UNINIT, {Root})

\* Each node with the nodes that dominate it: every path to it meets them.
Dominated(edges) ==
  LET all == Reachable(edges)
      without == [d \in all |-> IF d = Root THEN {}
                                ELSE Reach(edges, d, {Root})]
  IN  [n \in all |-> {d \in all : n \notin without[d]}]

(* In a graph all of whose nodes can be reached, the tree holds the closest
   strict dominator of each node, and the frontier of a node the nodes where
   its dominance ends.  *)
IsDomInfo(edges, info) ==
  LET doms == Dominated(edges)
      front == DomFrontier(edges, info)
  IN  DOMAIN doms = DOMAIN info.idom =>
        /\ ~info.panic
        /\ \A n \in DOMAIN doms \ {Root} :
             info.idom[n] \in doms[n] \ {n}
               /\ \A d \in doms[n] \ {n} : d \in doms[info.idom[n]]
        /\ \A n, b \in DOMAIN doms :
             b \in front[n] <=>
               /\ \E p \in ToSet(Incoming(edges, b)) : n \in doms[p]
               /\ n \notin doms[b] \ {b}
=============================================================================
