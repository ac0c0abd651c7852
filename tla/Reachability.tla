---------------------------- MODULE Reachability ----------------------------
(* Directed graphs (petgraph): nodes, and edges as pairs of nodes.  *)

Successors(nodes, edges, n) == {m \in nodes : <<n, m>> \in edges}
Predecessors(nodes, edges, n) == {m \in nodes : <<m, n>> \in edges}

\* The node n and those a path leads to from it: the least set that holds n and
\* the successors of its nodes.
IsClosed(nodes, edges, S) == \A k \in S : Successors(nodes, edges, k) \subseteq S
Downstream(nodes, edges, n) ==
  {m \in nodes : \A S \in SUBSET nodes :
     n \in S /\ IsClosed(nodes, edges, S) => m \in S}
=============================================================================
