---------------------------- MODULE WorklistProof ----------------------------
(****************************************************************************)
(* The three fixed points the compiler computes with a worklist, for every  *)
(* graph and every order of the list: phi functions, the globals of the     *)
(* functions, dataflow analyses.  Each result is the least set, or weight,  *)
(* that its definition allows: what is in it is wanted, an invariant of all *)
(* steps; and what is not on the worklist has been passed on, so that in    *)
(* the end the result is closed.                                            *)
(****************************************************************************)
EXTENDS PhiPlacement, GlobalRefs, Dataflow, TLAPS

-----------------------------------------------------------------------------
\* Graphs

(* A node is downstream of itself, and so are the successors of what is.  *)
LEMMA DownstreamSelf ==
  ASSUME NEW nodes, NEW edges, NEW n \in nodes
  PROVE  n \in Downstream(nodes, edges, n)
BY DEF Downstream

LEMMA DownstreamClosed ==
  ASSUME NEW nodes, NEW edges, NEW n
  PROVE  IsClosed(nodes, edges, Downstream(nodes, edges, n))
<1> SUFFICES ASSUME NEW k \in Downstream(nodes, edges, n),
                    NEW m \in Successors(nodes, edges, k),
                    NEW S \in SUBSET nodes, n \in S, IsClosed(nodes, edges, S)
             PROVE  m \in S
  BY DEF IsClosed, Downstream, Successors
<1>1. k \in S
  BY DEF Downstream
<1> QED BY <1>1 DEF IsClosed

(* It is the least such set.  *)
LEMMA DownstreamLeast ==
  ASSUME NEW nodes, NEW edges, NEW n, NEW S \in SUBSET nodes,
         n \in S, IsClosed(nodes, edges, S)
  PROVE  Downstream(nodes, edges, n) \subseteq S
BY DEF Downstream

LEMMA DownstreamOfSuccessor ==
  ASSUME NEW nodes, NEW edges, NEW n \in nodes,
         NEW m \in Successors(nodes, edges, n)
  PROVE  Downstream(nodes, edges, m) \subseteq Downstream(nodes, edges, n)
<1> DEFINE D == Downstream(nodes, edges, n)
<1>1. n \in D /\ IsClosed(nodes, edges, D)
  BY DownstreamSelf, DownstreamClosed
<1>2. m \in D
  BY <1>1 DEF IsClosed
<1>3. D \in SUBSET nodes
  BY DEF Downstream
<1> QED BY <1>1, <1>2, <1>3, DownstreamLeast

-----------------------------------------------------------------------------
\* Phi functions

(* No block has a phi function that the definition does not ask for; and the
   blocks that assign or have a phi function have given one to their frontier,
   or are on the worklist. *)
PhiTypes ==
  /\ front \in [Blocks -> SUBSET Blocks]
  /\ defs \in [DOMAIN defs -> SUBSET Blocks]
  /\ phis \in [DOMAIN defs -> SUBSET Joins]
  /\ todo \subseteq DOMAIN defs
  /\ worklist \subseteq Blocks
PhiRound ==
  worklist # {} => \E l \in DOMAIN defs \ todo :
                     ident = <<l>> /\ worklist \subseteq defs[l] \union phis[l]
PhiFresh == \A l \in todo : phis[l] = {}
PhisAreWanted ==
  \A l \in DOMAIN defs : \A S \in SUBSET Joins :
    FrontierClosed(defs[l], S) => phis[l] \subseteq S
FrontiersAreServed ==
  \A l \in DOMAIN defs \ todo : \A d \in defs[l] \union phis[l] :
    (ident = <<l>> /\ d \in worklist) \/ front[d] \subseteq phis[l]
PhiInv == PhiTypes /\ PhiRound /\ PhiFresh /\ PhisAreWanted /\ FrontiersAreServed

LEMMA PhiInvInit == PhiInit => PhiInv
BY DEF PhiInit, PhiStart, PhiInv, PhiTypes, PhiRound, PhiFresh, PhisAreWanted,
       FrontiersAreServed, Blocks, Joins

\* A round starts with all of its definitions on the worklist.
LEMMA PhiInvNextIdent ==
  ASSUME PhiInv, NEW l \in todo, NextIdent(l)
  PROVE  PhiInv'
<1> USE DEF PhiInv
<1>1. /\ l \in DOMAIN defs /\ worklist = {} /\ worklist' = defs[l]
      /\ front' = front /\ defs' = defs /\ phis' = phis
      /\ ident' = <<l>> /\ todo' = todo \ {l}
  BY DEF NextIdent, PhiTypes
<1>2. PhiTypes'
  BY <1>1 DEF PhiTypes, Blocks, Joins
<1>3. PhiRound'
  BY <1>1 DEF PhiRound, PhiTypes
<1>4. PhisAreWanted'
  BY <1>1 DEF PhisAreWanted, Joins, Blocks, FrontierClosed
<1>5. FrontiersAreServed'
  <2> SUFFICES ASSUME NEW k \in DOMAIN defs \ todo', NEW d \in defs[k] \union phis[k],
                      ~(<<l>> = <<k>> /\ d \in defs[l])
               PROVE  front[d] \subseteq phis[k]
    BY <1>1 DEF FrontiersAreServed
  <2>1. CASE k = l
    \* Nothing has been placed for l yet.
    <3>1. d \in phis[l]
      BY <2>1
    <3> QED BY <3>1, <2>1, <1>1 DEF PhiFresh
  <2>2. CASE k # l
    BY <2>2, <1>1 DEF FrontiersAreServed
  <2> QED BY <2>1, <2>2
<1>6. PhiFresh'
  BY <1>1 DEF PhiFresh
<1> QED BY <1>2, <1>3, <1>4, <1>5, <1>6

\* The block popped has served its frontier; what is new there is served later.
LEMMA PhiInvPopBlock ==
  ASSUME PhiInv, NEW l \in DOMAIN defs, NEW n \in worklist,
         ident = <<l>>, PopBlock(l, n)
  PROVE  PhiInv'
<1> DEFINE new == NewPhis(l, n)
<1> USE DEF PhiInv
<1>1. /\ l \in DOMAIN defs \ todo /\ n \in Blocks
      /\ worklist \subseteq defs[l] \union phis[l]
  BY DEF PhiTypes, PhiRound
<1>2. /\ front' = front /\ defs' = defs /\ todo' = todo /\ ident' = ident
      /\ worklist' = (worklist \ {n}) \union (new \ defs[l])
      /\ phis' = [phis EXCEPT ![l] = phis[l] \union new]
  BY DEF PopBlock
<1>3. phis'[l] = phis[l] \union new /\ \A k \in DOMAIN defs \ {l} : phis'[k] = phis[k]
  BY <1>2 DEF PhiTypes
<1>4. front[n] \subseteq phis[l] \union new /\ new \subseteq front[n]
  BY DEF NewPhis
<1>5. new \subseteq Joins /\ Joins \subseteq Blocks
  BY <1>1, <1>4 DEF PhiTypes, Joins, Blocks
<1> HIDE DEF new
<1>6. Joins' = Joins /\ Blocks' = Blocks
  BY <1>2 DEF Joins, Blocks
<1>7. PhiTypes'
  BY <1>1, <1>2, <1>5, <1>6 DEF PhiTypes
<1>8. PhiRound'
  BY <1>1, <1>2, <1>3 DEF PhiRound
<1>9. PhiFresh'
  BY <1>1, <1>2, <1>3 DEF PhiFresh, PhiTypes
<1>10. PhisAreWanted'
  <2> SUFFICES ASSUME NEW k \in DOMAIN defs, NEW S \in SUBSET Joins,
                      FrontierClosed(defs[k], S)
               PROVE  phis'[k] \subseteq S
    BY <1>2, <1>6 DEF PhisAreWanted, FrontierClosed
  <2>1. phis[k] \subseteq S
    BY DEF PhisAreWanted
  <2>2. CASE k = l
    <3>1. front[n] \subseteq S
      BY <2>1, <2>2, <1>1 DEF FrontierClosed
    <3> QED BY <3>1, <2>1, <2>2, <1>3, <1>4
  <2> QED BY <2>1, <2>2, <1>3
<1>11. FrontiersAreServed'
  <2> SUFFICES ASSUME NEW k \in DOMAIN defs \ todo, NEW d \in defs[k] \union phis'[k]
               PROVE  (ident = <<k>> /\ d \in worklist') \/ front[d] \subseteq phis'[k]
    BY <1>2 DEF FrontiersAreServed
  <2>1. CASE k # l
    BY <2>1, <1>3 DEF FrontiersAreServed
  <2>2. CASE k = l /\ d = n
    BY <2>2, <1>3, <1>4
  <2>3. CASE k = l /\ d # n /\ d \in defs[l] \union phis[l]
    BY <2>3, <1>2, <1>3 DEF FrontiersAreServed
  <2>4. CASE k = l /\ d \in new \ defs[l]
    BY <2>4, <1>2
  <2> QED BY <2>1, <2>2, <2>3, <2>4, <1>3
<1> QED BY <1>7, <1>8, <1>9, <1>10, <1>11

LEMMA PhiInvHolds == PhiSpec => []PhiInv
<1>1. PhiInv /\ UNCHANGED phiVars => PhiInv'
  BY DEF PhiInv, PhiTypes, PhiRound, PhiFresh, PhisAreWanted,
         FrontiersAreServed, Blocks, Joins, FrontierClosed, phiVars
<1>2. PhiInv /\ [PhiNext]_phiVars => PhiInv'
  BY <1>1, PhiInvNextIdent, PhiInvPopBlock DEF PhiNext
<1> QED BY PhiInvInit, <1>2, PTL DEF PhiSpec

(* A finished round leaves a set that is closed, and in every closed set. *)
LEMMA PlacedIsIterated ==
  ASSUME PhiInv, NEW l \in DOMAIN defs, Placed(l)
  PROVE  phis[l] = IteratedFrontier(defs[l])
<1>1. phis[l] \in SUBSET Joins
  BY DEF PhiInv, PhiTypes
<1>2. FrontierClosed(defs[l], phis[l])
  BY DEF PhiInv, FrontiersAreServed, Placed, FrontierClosed
<1>3. IteratedFrontier(defs[l]) \subseteq phis[l]
  BY <1>1, <1>2 DEF IteratedFrontier
<1>4. phis[l] \subseteq IteratedFrontier(defs[l])
  BY <1>1 DEF PhiInv, PhisAreWanted, IteratedFrontier
<1> QED BY <1>3, <1>4

(* Every round of insert_phis ends with the iterated dominance frontier of the
   definitions, for every graph, all definitions and every order of the
   worklist.  *)
THEOREM PhisAreTheIteratedFrontier == PhiSpec => []PhisAreIterated
<1>1. PhiInv => PhisAreIterated
  BY PlacedIsIterated DEF PhisAreIterated
<1> QED BY <1>1, PhiInvHolds, PTL

-----------------------------------------------------------------------------
\* Globals

(* While the globals are passed on, a function has noted its own, none that is
   not needed, and those of the functions it calls, but for the functions on
   the worklist.  *)
RefsTypes ==
  /\ refs \in [Frames -> SUBSET Globals]
  /\ phase \in {"typing", "passing", "cached"}
  /\ pending \subseteq Frames
  /\ phase # "passing" => pending = {}
  /\ phase = "typing" => refs = NoRefs
RefsAreNeeded ==
  \A f \in Frames : \A g \in refs[f] :
    \E h \in Downstream(Frames, calls, f) : g \in Own(h)
RefsHaveOwn == phase = "passing" => \A f \in Frames : Own(f) \subseteq refs[f]
RefsArePassed ==
  phase = "passing" =>
    \A f \in Frames : \A h \in Callees(f) :
      h \in pending \/ refs[h] \subseteq refs[f]
RefsInv == RefsTypes /\ RefsAreNeeded /\ RefsHaveOwn /\ RefsArePassed
             /\ GlobalsReachCallers

LEMMA RefsInvInit == RefsInit => RefsInv
BY DEF RefsInit, RefsInv, RefsTypes, RefsAreNeeded, RefsHaveOwn, RefsArePassed,
       GlobalsReachCallers, NoRefs

\* Nothing is noted while the call graph is made.
LEMMA RefsInvTyping ==
  ASSUME RefsInv, phase = "typing",
         phase' = phase, refs' = refs, pending' = pending
  PROVE  RefsInv'
BY DEF RefsInv, RefsTypes, RefsAreNeeded, RefsHaveOwn, RefsArePassed,
       GlobalsReachCallers, NoRefs

LEMMA RefsInvCollect ==
  ASSUME RefsInv, Collect
  PROVE  RefsInv'
<1>1. /\ phase' = "passing" /\ pending' = Frames
      /\ refs' = [f \in Frames |-> Own(f)]
      /\ calls' = calls /\ mentioned' = mentioned
  BY DEF Collect, RefsInv, RefsTypes, NoRefs
<1>2. \A f \in Frames : Own(f)' = Own(f) /\ Own(f) \subseteq Globals
  BY <1>1 DEF Own
<1>3. RefsTypes'
  BY <1>1, <1>2 DEF RefsTypes
<1>4. RefsAreNeeded'
  BY <1>1, <1>2, DownstreamSelf DEF RefsAreNeeded
<1>5. RefsHaveOwn' /\ RefsArePassed' /\ GlobalsReachCallers'
  BY <1>1, <1>2 DEF RefsHaveOwn, RefsArePassed, GlobalsReachCallers, Callees,
                    Successors
<1> QED BY <1>3, <1>4, <1>5 DEF RefsInv

\* What a callee needs its callers need; who got more is on the worklist.
LEMMA RefsInvPass ==
  ASSUME RefsInv, NEW f \in pending, Pass(f)
  PROVE  RefsInv'
<1> USE DEF RefsInv
<1>1. /\ f \in Frames /\ phase = "passing" /\ phase' = phase
      /\ calls' = calls /\ mentioned' = mentioned
      /\ pending' = (pending \ {f}) \union {c \in Frames : refs'[c] # refs[c]}
  BY DEF RefsTypes, Pass
<1>2. \A c \in Frames : refs'[c] = IF c \in Callers(f) THEN refs[c] \union refs[f]
                                   ELSE refs[c]
  BY DEF Pass
<1>3. refs' \in [Frames -> SUBSET Globals]
  BY <1>1 DEF RefsTypes, Pass
<1>4. \A k \in Frames : Own(k)' = Own(k) /\ Callees(k)' = Callees(k)
  BY <1>1 DEF Own, Callees
<1>5. \A k \in Frames : f \in Callees(k) => k \in Callers(f)
  BY DEF Callees, Callers, Successors, Predecessors
<1>6. RefsTypes'
  BY <1>1, <1>3 DEF RefsTypes
<1>7. RefsAreNeeded'
  <2> SUFFICES ASSUME NEW c \in Frames, NEW g \in refs'[c]
               PROVE  \E h \in Downstream(Frames, calls, c) : g \in Own(h)
    BY <1>1 DEF RefsAreNeeded, Own
  <2>1. CASE g \in refs[c]
    BY <2>1 DEF RefsAreNeeded
  <2>2. CASE g \in refs[f] /\ c \in Callers(f)
    <3>1. f \in Successors(Frames, calls, c)
      BY <2>2, <1>1 DEF Callers, Predecessors, Successors
    <3>2. PICK h \in Downstream(Frames, calls, f) : g \in Own(h)
      BY <2>2, <1>1 DEF RefsAreNeeded
    <3>3. h \in Downstream(Frames, calls, c)
      BY <3>1, DownstreamOfSuccessor
    <3> QED BY <3>2, <3>3
  <2> QED BY <2>1, <2>2, <1>2
<1>8. RefsHaveOwn'
  BY <1>1, <1>2, <1>4 DEF RefsHaveOwn
<1>9. RefsArePassed'
  <2> SUFFICES ASSUME NEW k \in Frames, NEW h \in Callees(k), h \notin pending'
               PROVE  refs'[h] \subseteq refs'[k]
    BY <1>4 DEF RefsArePassed
  <2>1. h \in Frames
    BY DEF Callees, Successors
  <2>2. refs'[h] = refs[h] /\ refs[k] \subseteq refs'[k]
    BY <1>1, <1>2, <2>1
  <2>3. CASE h = f
    BY <2>2, <2>3, <1>2, <1>5
  <2>4. CASE h # f
    BY <2>2, <2>4, <1>1 DEF RefsArePassed
  <2> QED BY <2>3, <2>4
<1>10. GlobalsReachCallers'
  BY <1>1 DEF GlobalsReachCallers
<1> QED BY <1>6, <1>7, <1>8, <1>9, <1>10

\* With the worklist empty, all downstream of a function has passed on its own.
LEMMA RefsInvReturn ==
  ASSUME RefsInv, Return
  PROVE  RefsInv'
<1> USE DEF RefsInv
<1>1. /\ phase = "passing" /\ phase' = "cached" /\ pending = {} /\ pending' = {}
      /\ refs' = NoRefs /\ cache' = refs
      /\ calls' = calls /\ mentioned' = mentioned
  BY DEF Return
<1>2. \A k \in Frames : Own(k)' = Own(k) /\ Callees(k)' = Callees(k)
  BY <1>1 DEF Own, Callees
<1>3. \A k \in Frames : \A h \in Callees(k) : refs[h] \subseteq refs[k]
  BY <1>1 DEF RefsArePassed
<1>4. ASSUME NEW f \in Frames
      PROVE  refs[f] = UNION {Own(h) : h \in Downstream(Frames, calls, f)}
  <2> DEFINE S == {k \in Frames : refs[k] \subseteq refs[f]}
  <2>1. IsClosed(Frames, calls, S)
    BY <1>3 DEF IsClosed, Callees, Successors
  <2>2. Downstream(Frames, calls, f) \subseteq S
    BY <2>1, DownstreamLeast
  <2>3. ASSUME NEW h \in Downstream(Frames, calls, f)
        PROVE  Own(h) \subseteq refs[f]
    BY <2>2, <1>1 DEF RefsHaveOwn
  <2>4. ASSUME NEW g \in refs[f]
        PROVE  \E h \in Downstream(Frames, calls, f) : g \in Own(h)
    BY DEF RefsAreNeeded
  <2> QED BY <2>3, <2>4
<1>5. GlobalsReachCallers'
  BY <1>1, <1>2, <1>3, <1>4 DEF GlobalsReachCallers, Own
<1>6. RefsTypes' /\ RefsAreNeeded' /\ RefsHaveOwn' /\ RefsArePassed'
  BY <1>1 DEF RefsTypes, RefsAreNeeded, RefsHaveOwn, RefsArePassed, NoRefs
<1> QED BY <1>5, <1>6

LEMMA RefsInvHolds == RefsSpec => []RefsInv
<1>1. ASSUME RefsInv, UNCHANGED refsVars PROVE RefsInv'
  BY <1>1 DEF RefsInv, RefsTypes, RefsAreNeeded, RefsHaveOwn, RefsArePassed,
    GlobalsReachCallers, NoRefs, Own, Callees, refsVars
<1>2. ASSUME RefsInv, NEW f \in Frames, NEW h \in Frames, AddCall(f, h)
      PROVE  RefsInv'
  BY <1>2, RefsInvTyping DEF AddCall
<1>3. ASSUME RefsInv, NEW f \in Frames, NEW g \in Globals, Mention(f, g)
      PROVE  RefsInv'
  BY <1>3, RefsInvTyping DEF Mention
<1>4. RefsInv /\ [RefsNext]_refsVars => RefsInv'
  BY <1>1, <1>2, <1>3, RefsInvCollect, RefsInvPass, RefsInvReturn
     DEF RefsNext, PassStep
<1> QED BY RefsInvInit, <1>4, PTL DEF RefsSpec

(* Each function gets exactly the globals that it and what it calls mention,
   and so a caller all those of its callees, whatever the call graph.  *)
THEOREM GlobalsReach == RefsSpec => []GlobalsReachCallers
<1>1. RefsInv => GlobalsReachCallers
  BY DEF RefsInv
<1> QED BY <1>1, RefsInvHolds, PTL

-----------------------------------------------------------------------------
\* Dataflow analyses

(* The semilattice: Leq is a preorder, and a join the least upper bound.  *)
LEMMA LeqSelf == \A a \in Values : Leq(a, a) /\ Leq(Bottom, a)
BY JoinIsLeastUpperBound, JoinIsClosed DEF Leq

LEMMA LeqTransitive ==
  ASSUME NEW a \in Values, NEW b \in Values, NEW c \in Values,
         Leq(a, b), Leq(b, c)
  PROVE  Leq(a, c)
<1>1. Join(a, Join(b, c)) = Join(Join(a, b), c)
  BY JoinIsLeastUpperBound
<1> QED BY <1>1 DEF Leq

LEMMA JoinIsUpper ==
  ASSUME NEW a \in Values, NEW b \in Values
  PROVE  Join(a, b) \in Values /\ Leq(a, Join(a, b)) /\ Leq(b, Join(a, b))
<1>1. Join(a, Join(a, b)) = Join(Join(a, a), b) /\ Join(a, a) = a
  BY JoinIsLeastUpperBound
<1>2. Join(a, Join(b, b)) = Join(Join(a, b), b) /\ Join(b, b) = b
  BY JoinIsLeastUpperBound
<1>3. Join(b, Join(a, b)) = Join(Join(a, b), b)
  BY JoinIsLeastUpperBound, JoinIsClosed
<1> QED BY <1>1, <1>2, <1>3, JoinIsClosed DEF Leq

LEMMA JoinIsLeast ==
  ASSUME NEW a \in Values, NEW b \in Values, NEW c \in Values,
         Leq(a, c), Leq(b, c)
  PROVE  Leq(Join(a, b), c)
<1>1. Join(a, Join(b, c)) = Join(Join(a, b), c)
  BY JoinIsLeastUpperBound
<1> QED BY <1>1 DEF Leq

(* The weight of a node, in the graph or taken out of it, is between its own
   source and the join of those it can be reached from; and it is above the
   weights it reads but for what the worklist, the rest of the edges or the
   flag still promise.  *)
Weight(n) == IF at = <<n>> THEN start ELSE val[n]
DataTypes ==
  /\ val \in [Vertices -> Values] /\ source \in [Vertices -> Values]
  /\ start \in Values
  /\ solved \in BOOLEAN
  /\ wl \subseteq Vertices
  /\ \/ at = <<>> /\ left = {} /\ changed = FALSE
     \/ \E n \in Vertices : /\ at = <<n>> /\ solved
                            /\ left \subseteq Sources(n)
                            /\ val[n] = Bottom
  /\ ~solved => wl = {} /\ val = source
SourcesAreKept == \A n \in Vertices : Leq(source[n], Weight(n))
NothingElseIsIn ==
  \A n \in Vertices, v \in Values :
    (\A m \in ReachedFrom(n) : Leq(source[m], v)) => Leq(Weight(n), v)
Promised(n, m) == n \in wl \/ (at = <<n>> /\ m \in left) \/ (at = <<m>> /\ changed)
WeightsAreAbove ==
  solved => \A n \in ReachedFrom(Sentinel) : \A m \in Sources(n) :
              Promised(n, m) \/ Leq(Weight(m), Weight(n))
DataInv == DataTypes /\ SourcesAreKept /\ NothingElseIsIn /\ WeightsAreAbove

LEMMA DataInvInit == DataflowInit => DataInv
<1> SUFFICES ASSUME DataflowInit PROVE DataInv
  OBVIOUS
<1>1. DataTypes
  BY JoinIsClosed DEF DataflowInit, DataTypes
<1>2. \A n \in Vertices : Weight(n) = Bottom /\ source[n] = Bottom
  BY DEF DataflowInit, Weight
<1>3. SourcesAreKept /\ NothingElseIsIn
  BY <1>2, LeqSelf, JoinIsClosed DEF SourcesAreKept, NothingElseIsIn
<1>4. ~solved
  BY DEF DataflowInit
<1> QED BY <1>1, <1>3, <1>4 DEF DataInv, WeightsAreAbove

(* Before the constraints are solved, a node has its source and no more.  *)
LEMMA DataInvBuild ==
  ASSUME DataInv, ~solved, DataTypes', at' = <<>>, val' = source',
         ~solved' \/ wl' = Downstream(Vertices, deps', Sentinel)
  PROVE  DataInv'
<1>1. SourcesAreKept' /\ NothingElseIsIn'
  <2>1. \A n \in Vertices : Weight(n)' = source'[n] /\ source'[n] \in Values
    BY DEF DataTypes, Weight
  <2>2. SourcesAreKept'
    BY <2>1, LeqSelf DEF SourcesAreKept
  <2>3. NothingElseIsIn'
    BY <2>1, DownstreamSelf DEF NothingElseIsIn, ReachedFrom
  <2> QED BY <2>2, <2>3
<1>2. WeightsAreAbove'
  BY DEF WeightsAreAbove, Promised, ReachedFrom
<1> QED BY <1>1, <1>2 DEF DataInv

LEMMA DataInvAddSrc ==
  ASSUME DataInv, NEW k \in Keys, NEW v \in Values, AddSrc(k, v)
  PROVE  DataInv'
<1>1. /\ ~solved /\ at = <<>> /\ val = source /\ k \in Vertices
      /\ val[k] \in Values
  BY DEF DataInv, DataTypes, AddSrc, Vertices
<1>2. Join(v, val[k]) \in Values
  BY <1>1, JoinIsClosed
<1>3. DataTypes' /\ at' = <<>> /\ val' = source' /\ ~solved'
  BY <1>1, <1>2 DEF DataInv, DataTypes, AddSrc
<1> QED BY <1>1, <1>3, DataInvBuild

LEMMA DataInvAdd ==
  ASSUME DataInv, ~solved, UNCHANGED <<val, source, at, start, left, changed>>,
         \/ UNCHANGED <<solved, wl>>
         \/ solved' = TRUE /\ wl' = Downstream(Vertices, deps', Sentinel)
  PROVE  DataInv'
<1>1. at' = <<>> /\ val' = source' /\ wl' \subseteq Vertices
  BY DEF DataInv, DataTypes, Downstream
<1>2. DataTypes'
  BY <1>1 DEF DataInv, DataTypes
<1>3. ~solved' \/ wl' = Downstream(Vertices, deps', Sentinel)
  OBVIOUS
<1> QED BY <1>1, <1>2, <1>3, DataInvBuild

\* No weight changes hands: one leaves the graph, with all of its edges to come.
LEMMA DataInvPop ==
  ASSUME DataInv, NEW n \in wl, Pop(n)
  PROVE  DataInv'
<1> USE DEF DataInv
<1>1. /\ n \in Vertices /\ solved /\ solved' = solved
      /\ at = <<>> /\ at' = <<n>> /\ start' = val[n]
      /\ val' = [val EXCEPT ![n] = Bottom]
      /\ wl' = wl \ {n} /\ left' = Sources(n)
      /\ deps' = deps /\ source' = source
  BY DEF DataTypes, Pop
<1>2. \A m \in Vertices : Weight(m)' = Weight(m)
  BY <1>1 DEF Weight, DataTypes
<1>3. \A m \in Vertices : Sources(m)' = Sources(m) /\ Sources(m) \subseteq Vertices
                            /\ ReachedFrom(m)' = ReachedFrom(m)
  BY <1>1 DEF Sources, ReachedFrom, Successors
<1>4. DataTypes'
  BY <1>1, <1>3, JoinIsClosed DEF DataTypes
<1>5. SourcesAreKept' /\ NothingElseIsIn'
  BY <1>1, <1>2, <1>3 DEF SourcesAreKept, NothingElseIsIn
<1>6. WeightsAreAbove'
  <2> SUFFICES ASSUME NEW k \in ReachedFrom(Sentinel), NEW m \in Sources(k),
                      ~Promised(k, m)'
               PROVE  Leq(Weight(m)', Weight(k)')
    BY <1>1, <1>3 DEF WeightsAreAbove, Vertices, ReachedFrom, Downstream
  <2>1. k \in Vertices /\ m \in Vertices
    BY DEF Sources, Successors, ReachedFrom, Downstream
  <2>2. k # n
    BY <1>1 DEF Promised
  <2>3. ~Promised(k, m)
    BY <1>1, <2>2 DEF Promised
  <2> QED BY <1>1, <1>2, <2>1, <2>3 DEF WeightsAreAbove
<1> QED BY <1>4, <1>5, <1>6

\* The weight grows by what is downstream. Those that read it are owed a visit.
LEMMA DataInvInvoke ==
  ASSUME DataInv, NEW m \in left, Invoke(m)
  PROVE  DataInv'
<1> USE DEF DataInv
<1>1. PICK n \in Vertices : /\ at = <<n>> /\ solved
                            /\ left \subseteq Sources(n) /\ val[n] = Bottom
  BY DEF DataTypes
<1>2. /\ m \in Vertices /\ val[m] \in Values /\ start \in Values
      /\ start' = Join(start, val[m])
      /\ changed' = (changed \/ start' # start)
      /\ left' = left \ {m}
      /\ deps' = deps /\ val' = val /\ source' = source /\ solved' = solved
      /\ wl' = wl /\ at' = at
  BY <1>1 DEF DataTypes, Invoke, Sources, Successors
<1>3. start' \in Values /\ Leq(start, start') /\ Leq(val[m], start')
  BY <1>2, JoinIsUpper
<1>4. /\ Weight(n)' = start' /\ Weight(n) = start
      /\ \A k \in Vertices \ {n} : Weight(k)' = val[k] /\ Weight(k) = val[k]
  BY <1>1, <1>2 DEF Weight
<1>5. \A k \in Vertices : Sources(k)' = Sources(k) /\ Sources(k) \subseteq Vertices
                            /\ ReachedFrom(k)' = ReachedFrom(k)
  BY <1>2 DEF Sources, ReachedFrom, Successors
<1>6. \A k \in Vertices : val[k] \in Values /\ source[k] \in Values
  BY DEF DataTypes
<1>7. DataTypes'
  BY <1>1, <1>2, <1>3, <1>5 DEF DataTypes
<1>8. SourcesAreKept'
  <2>1. Leq(source[n], start')
    BY <1>2, <1>3, <1>4, <1>6, LeqTransitive DEF SourcesAreKept
  <2> QED BY <2>1, <1>2, <1>4 DEF SourcesAreKept
<1>9. NothingElseIsIn'
  <2> SUFFICES ASSUME NEW k \in Vertices, NEW v \in Values,
                      \A j \in ReachedFrom(k) : Leq(source[j], v)
               PROVE  Leq(Weight(k)', v)
    BY <1>2, <1>5 DEF NothingElseIsIn
  <2>1. CASE k # n
    BY <2>1, <1>4 DEF NothingElseIsIn
  <2>2. CASE k = n
    <3>1. Leq(start, v)
      BY <2>2, <1>4 DEF NothingElseIsIn
    <3>2. Leq(val[m], v)
      <4>1. CASE m = n
        BY <4>1, <1>1, LeqSelf
      <4>2. CASE m # n
        <5>1. ReachedFrom(m) \subseteq ReachedFrom(n)
          BY <1>1, DownstreamOfSuccessor DEF ReachedFrom, Sources
        <5> QED BY <5>1, <4>2, <2>2, <1>2, <1>4 DEF NothingElseIsIn
      <4> QED BY <4>1, <4>2
    <3> QED BY <3>1, <3>2, <2>2, <1>2, <1>4, JoinIsLeast
  <2> QED BY <2>1, <2>2
<1>10. WeightsAreAbove'
  <2> SUFFICES ASSUME NEW k \in ReachedFrom(Sentinel), NEW j \in Sources(k),
                      ~Promised(k, j)'
               PROVE  Leq(Weight(j)', Weight(k)')
    BY <1>1, <1>2, <1>5 DEF WeightsAreAbove, Vertices, ReachedFrom, Downstream
  <2>1. k \in Vertices /\ j \in Vertices
    BY DEF Sources, Successors, ReachedFrom, Downstream
  <2>2. CASE k = n /\ j = n
    BY <2>2, <1>3, <1>4, LeqSelf
  <2>3. CASE k = n /\ j = m /\ j # n
    BY <2>3, <1>2, <1>3, <1>4
  <2>4. CASE k = n /\ j # m /\ j # n
    <3>1. ~Promised(k, j)
      BY <2>4, <1>1, <1>2 DEF Promised
    <3>2. Leq(val[j], start)
      BY <3>1, <2>1, <2>4, <1>1, <1>4 DEF WeightsAreAbove
    <3> QED BY <3>2, <2>1, <2>4, <1>2, <1>3, <1>4, <1>6, LeqTransitive
  <2>5. CASE k # n
    <3>1. j # n \/ start' = start
      BY <1>1, <1>2 DEF Promised
    <3>2. ~Promised(k, j)
      BY <2>5, <1>1, <1>2 DEF Promised
    <3>3. Leq(Weight(j), Weight(k))
      BY <3>2, <1>1 DEF WeightsAreAbove
    <3> QED BY <3>1, <3>3, <2>1, <2>5, <1>4
  <2> QED BY <2>2, <2>3, <2>4, <2>5
<1> QED BY <1>7, <1>8, <1>9, <1>10

\* And the worklist has them.
LEMMA DataInvPutBack ==
  ASSUME DataInv, NEW n \in Vertices, at = <<n>>, PutBack(n)
  PROVE  DataInv'
<1> USE DEF DataInv
<1>1. /\ solved /\ solved' = solved /\ left = {} /\ left' = {}
      /\ val' = [val EXCEPT ![n] = start]
      /\ at' = <<>> /\ start' = Bottom /\ changed' = FALSE
      /\ wl' = IF changed THEN wl \union Readers(n) ELSE wl
      /\ deps' = deps /\ source' = source
  BY DEF DataTypes, PutBack
<1>2. \A m \in Vertices : Weight(m)' = Weight(m)
  BY <1>1 DEF Weight, DataTypes
<1>3. \A m \in Vertices : Sources(m)' = Sources(m) /\ Sources(m) \subseteq Vertices
                            /\ ReachedFrom(m)' = ReachedFrom(m)
  BY <1>1 DEF Sources, ReachedFrom, Successors
<1>4. Readers(n) \subseteq Vertices
  BY DEF Readers, Predecessors
<1>5. DataTypes'
  BY <1>1, <1>4, JoinIsClosed DEF DataTypes
<1>6. SourcesAreKept' /\ NothingElseIsIn'
  BY <1>1, <1>2, <1>3 DEF SourcesAreKept, NothingElseIsIn
<1>7. WeightsAreAbove'
  <2> SUFFICES ASSUME NEW k \in ReachedFrom(Sentinel), NEW m \in Sources(k),
                      ~Promised(k, m)'
               PROVE  Leq(Weight(m)', Weight(k)')
    BY <1>1, <1>3 DEF WeightsAreAbove, Vertices, ReachedFrom, Downstream
  <2>1. k \in Vertices /\ m \in Vertices
    BY DEF Sources, Successors, ReachedFrom, Downstream
  <2>2. CASE m = n /\ changed
    <3>1. k \in Readers(n)
      BY <2>1, <2>2 DEF Readers, Predecessors, Sources, Successors
    <3> QED BY <3>1, <2>2, <1>1 DEF Promised
  <2>3. CASE ~(m = n /\ changed)
    <3>1. ~Promised(k, m)
      BY <2>3, <1>1 DEF Promised
    <3> QED BY <3>1, <2>1, <1>1, <1>2 DEF WeightsAreAbove
  <2> QED BY <2>2, <2>3
<1> QED BY <1>5, <1>6, <1>7

LEMMA DataInvHolds == DataflowSpec => []DataInv
<1>1. ASSUME DataInv, UNCHANGED dataVars PROVE DataInv'
  BY <1>1 DEF DataInv, DataTypes, SourcesAreKept, NothingElseIsIn,
    WeightsAreAbove, Promised, Weight, Sources, ReachedFrom, dataVars
<1>2. ASSUME DataInv, \/ \E dst, src \in Keys : AddDep(dst, src)
                      \/ \E k \in Keys : AddQuery(k)
      PROVE  DataInv'
  BY <1>2, DataInvAdd DEF AddDep, AddQuery
<1>3. ASSUME DataInv, Populate PROVE DataInv'
  BY <1>3, DataInvAdd DEF Populate
<1>4. DataInv /\ [DataflowNext]_dataVars => DataInv'
  BY <1>1, <1>2, <1>3, DataInvAddSrc, DataInvPop, DataInvInvoke, DataInvPutBack
     DEF DataflowNext, SolveStep
<1> QED BY DataInvInit, <1>4, PTL DEF DataflowSpec

(* When the worklist is empty the weights downstream of a node are below its
   own: the set of those that are is closed.  *)
LEMMA FinishedIsExact ==
  ASSUME DataInv, Finished, NEW n \in ReachedFrom(Sentinel), NEW v \in Values
  PROVE  Leq(val[n], v) <=> \A m \in ReachedFrom(n) : Leq(source[m], v)
<1> USE DEF DataInv
<1>1. solved /\ at = <<>> /\ \A k, m : ~Promised(k, m)
  BY DEF Finished, DataTypes, Promised
<1>2. \A k \in Vertices : Weight(k) = val[k] /\ val[k] \in Values
                           /\ source[k] \in Values /\ Leq(source[k], val[k])
  BY <1>1 DEF Weight, DataTypes, SourcesAreKept
<1>3. ReachedFrom(Sentinel) \subseteq Vertices /\ ReachedFrom(n) \subseteq Vertices
  BY DEF ReachedFrom, Downstream
<1>4. ASSUME \A m \in ReachedFrom(n) : Leq(source[m], v) PROVE Leq(val[n], v)
  BY <1>2, <1>3, <1>4 DEF NothingElseIsIn
<1>5. ASSUME Leq(val[n], v), NEW m \in ReachedFrom(n) PROVE Leq(source[m], v)
  <2> DEFINE S == {k \in ReachedFrom(Sentinel) : Leq(val[k], val[n])}
  <2>1. n \in S
    BY <1>2, <1>3, LeqSelf
  <2>2. ASSUME NEW k \in S, NEW j \in Successors(Vertices, deps, k)
        PROVE  j \in S
    <3>1. j \in ReachedFrom(Sentinel)
      BY DownstreamClosed DEF ReachedFrom, IsClosed
    <3>2. Leq(val[j], val[k])
      BY <3>1, <1>1, <1>2, <1>3 DEF WeightsAreAbove, Sources
    <3> QED BY <3>1, <3>2, <1>2, <1>3, LeqTransitive
  <2>3. IsClosed(Vertices, deps, S)
    BY <2>2 DEF IsClosed
  <2>4. S \in SUBSET Vertices
    BY <1>3
  <2>5. ReachedFrom(n) \subseteq S
    BY <2>1, <2>3, <2>4, DownstreamLeast DEF ReachedFrom
  <2>6. Leq(val[m], val[n])
    BY <2>5
  <2>7. Leq(source[m], val[n])
    BY <2>6, <1>2, <1>3, LeqTransitive
  <2> QED BY <2>7, <1>2, <1>3, <1>5, LeqTransitive
<1> QED BY <1>4, <1>5

(* When solve returns, what a query is told is the least upper bound of the
   sources that flow to it: for every graph, every semilattice, and every order
   in which nodes and edges are taken.  *)
THEOREM AnswersAreLeastUpperBounds == DataflowSpec => []AnswersAreExact
<1>1. DataInv => AnswersAreExact
  BY FinishedIsExact DEF AnswersAreExact
<1> QED BY <1>1, DataInvHolds, PTL
=============================================================================
