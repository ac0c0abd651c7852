------------------------------ MODULE Dataflow ------------------------------
(***************************************************************************)
(* The solver of the dataflow analyses (dataflow.rs, Analysis): keys carry *)
(* values of a join semilattice, an edge leads from a key to one it takes  *)
(* values from, and a worklist raises the values until nothing changes.    *)
(* Three analyses use it, all with plain joins on the edges: of the        *)
(* strings a register can hold, of the fields a program reads, of the      *)
(* input that reaches a command.                                           *)
(***************************************************************************)
EXTENDS Reachability, Naturals, FiniteSets

CONSTANTS
  Keys,         \* registers, variables, slots, functions
  Sentinel,     \* the node the queries hang on
  Values,       \* the semilattice
  Bottom,
  Join(_, _),
  MaxFacts      \* bound: the edges, keys with a source and queries together

ASSUME SentinelIsNoKey == Sentinel \notin Keys
ASSUME JoinIsClosed ==
  Bottom \in Values /\ \A a, b \in Values : Join(a, b) \in Values
ASSUME JoinIsLeastUpperBound ==
  \A a, b, c \in Values :
    /\ Join(a, a) = a
    /\ Join(a, b) = Join(b, a)
    /\ Join(a, Join(b, c)) = Join(Join(a, b), c)
    /\ Join(Bottom, a) = a

VARIABLES
  deps,         \* the edges, <<dst, src>>
  queries,
  val,          \* the weights of the nodes
  source,       \* the weights as they were given: no action reads them
  solved,
  wl,         \* the worklist
  at,           \* <<the node being computed>>, or <<>>
  start,        \* its weight, taken out of the graph
  left,         \* the nodes it has an edge to that were not looked at yet
  changed
dataVars == <<deps, queries, val, source, solved, wl, at, start, left, changed>>

Vertices == Keys \union {Sentinel}
Sources(n) == Successors(Vertices, deps, n)
Readers(n) == Predecessors(Vertices, deps, n)
ReachedFrom(n) == Downstream(Vertices, deps, n)
Facts == Cardinality(deps) + Cardinality(queries)
           + Cardinality({k \in Keys : source[k] # Bottom})

-----------------------------------------------------------------------------
DataflowInit ==
  /\ deps = {} /\ queries = {}
  /\ val = [n \in Vertices |-> Bottom] /\ source = val
  /\ solved = FALSE /\ wl = {}
  /\ at = <<>> /\ start = Bottom /\ left = {} /\ changed = FALSE

\* A second source of a key is joined with the first.
AddSrc(k, v) ==
  /\ ~solved
  /\ val' = [val EXCEPT ![k] = Join(v, @)]
  /\ source' = [source EXCEPT ![k] = Join(v, @)]
  /\ UNCHANGED <<deps, queries, solved, wl, at, start, left, changed>>
  /\ Facts' <= MaxFacts

AddDep(dst, src) ==
  /\ ~solved
  /\ deps' = deps \union {<<dst, src>>}
  /\ UNCHANGED <<queries, val, source, solved, wl, at, start, left, changed>>
  /\ Facts' <= MaxFacts

AddQuery(k) ==
  /\ ~solved
  /\ queries' = queries \union {k}
  /\ UNCHANGED <<deps, val, source, solved, wl, at, start, left, changed>>
  /\ Facts' <= MaxFacts

\* The first question (query or root) solves the constraints: the worklist
\* starts with everything the queries depend on.
Populate ==
  /\ ~solved
  /\ solved' = TRUE
  /\ deps' = deps \union ({Sentinel} \X queries)
  /\ wl' = Downstream(Vertices, deps', Sentinel)
  /\ UNCHANGED <<queries, val, source, at, start, left, changed>>

\* A node is taken from the worklist and its weight out of the graph: an edge
\* from a node to itself reads the bottom.
Pop(n) ==
  /\ at = <<>>
  /\ wl' = wl \ {n}
  /\ at' = <<n>>
  /\ start' = val[n]
  /\ val' = [val EXCEPT ![n] = Bottom]
  /\ left' = Sources(n)
  /\ UNCHANGED <<deps, queries, source, solved, changed>>

Invoke(m) ==
  /\ start' = Join(start, val[m])
  /\ changed' = (changed \/ start' # start)
  /\ left' = left \ {m}
  /\ UNCHANGED <<deps, queries, val, source, solved, wl, at>>

\* Mutants: the nodes that read a new weight are not told; or they are told of
\* a weight that has not changed.
X_PutBack(n) ==
  /\ left = {}
  /\ val' = [val EXCEPT ![n] = start]
  /\ at' = <<>> /\ start' = Bottom /\ changed' = FALSE
  /\ UNCHANGED <<deps, queries, source, solved, wl, left>>
Y_PutBack(n) ==
  /\ left = {}
  /\ val' = [val EXCEPT ![n] = start]
  /\ wl' = wl \union Readers(n)
  /\ at' = <<>> /\ start' = Bottom /\ changed' = FALSE
  /\ UNCHANGED <<deps, queries, source, solved, left>>

\* The weight goes back; if it has grown, so may those of the nodes that read
\* it.
PutBack(n) ==
  /\ left = {}
  /\ val' = [val EXCEPT ![n] = start]
  /\ wl' = IF changed THEN wl \union Readers(n) ELSE wl
  /\ at' = <<>> /\ start' = Bottom /\ changed' = FALSE
  /\ UNCHANGED <<deps, queries, source, solved, left>>

SolveStep == \/ \E n \in wl : Pop(n)
             \/ \E m \in left : Invoke(m)
             \/ \E n \in Vertices : at = <<n>> /\ PutBack(n)

DataflowNext ==
  \/ \E k \in Keys, v \in Values : AddSrc(k, v)
  \/ \E dst, src \in Keys : AddDep(dst, src)
  \/ \E k \in Keys : AddQuery(k)
  \/ Populate
  \/ SolveStep

DataflowSpec ==
  DataflowInit /\ [][DataflowNext]_dataVars /\ WF_dataVars(SolveStep)

-----------------------------------------------------------------------------
\* Properties

Leq(a, b) == Join(a, b) = b
Finished == solved /\ wl = {} /\ at = <<>>

(* When the worklist is empty, the weight of every node a query depends on is
   exactly the least upper bound of the sources it can be reached from
   (dataflow.rs, solve): nothing that flows to it is missed, around cycles and
   through edges from a node to itself, and nothing else is in it.  A weight
   too low folds a pattern that could be another, skips a field that is read,
   or lets input into a command; one too high refuses a harmless program.  *)
AnswersAreExact ==
  Finished => \A n \in ReachedFrom(Sentinel), v \in Values :
    Leq(val[n], v) <=> \A m \in ReachedFrom(n) : Leq(source[m], v)
=============================================================================
