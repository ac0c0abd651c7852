---------------------------- MODULE PhiPlacement ----------------------------
(***************************************************************************)
(* Where the phi functions go (cfg.rs, insert_phis): for each identifier a *)
(* worklist of the blocks that define it gives one to each block in their  *)
(* dominance frontiers; a block that got one is a definition too.          *)
(***************************************************************************)

VARIABLES
  front,     \* the dominance frontier of each block
  defs,      \* the blocks that assign each identifier
  phis,      \* the blocks with a phi function for each identifier
  todo,      \* the identifiers to come
  ident,     \* the identifier of the round: <<ident>>, or <<>>
  worklist       \* the worklist
phiVars == <<front, defs, phis, todo, ident, worklist>>

Blocks == DOMAIN front

PhiStart ==
  /\ phis = [l \in DOMAIN defs |-> {}]
  /\ todo = DOMAIN defs
  /\ ident = <<>> /\ worklist = {}

\* A call with frontiers f and definitions d; its locals are gone afterwards.
PhiCall(f, d) ==
  /\ front' = f /\ defs' = d
  /\ phis' = [l \in DOMAIN d |-> {}]
  /\ todo' = DOMAIN d
  /\ ident' = <<>> /\ worklist' = {}
PhiReturn == PhiCall(<<>>, <<>>)

\* The next round starts with the definitions of an identifier.
NextIdent(l) ==
  /\ worklist = {}
  /\ ident' = <<l>>
  /\ todo' = todo \ {l}
  /\ worklist' = defs[l]
  /\ UNCHANGED <<front, defs, phis>>

NewPhis(l, n) == front[n] \ phis[l]

\* Mutant: a phi function is no definition.
X_PopBlock(l, n) ==
  /\ phis' = [phis EXCEPT ![l] = @ \union NewPhis(l, n)]
  /\ worklist' = worklist \ {n}
  /\ UNCHANGED <<front, defs, todo, ident>>

\* A block is taken from the worklist. The definitions were on it from the
\* start.
PopBlock(l, n) ==
  /\ phis' = [phis EXCEPT ![l] = @ \union NewPhis(l, n)]
  /\ worklist' = (worklist \ {n}) \union (NewPhis(l, n) \ defs[l])
  /\ UNCHANGED <<front, defs, todo, ident>>

PhiInit ==
  /\ front \in [Blocks -> SUBSET Blocks]
  /\ defs \in [DOMAIN defs -> SUBSET Blocks]
  /\ PhiStart

PhiNext == \/ \E l \in todo : NextIdent(l)
           \/ \E l \in DOMAIN defs, n \in worklist : ident = <<l>> /\ PopBlock(l, n)

PhiSpec == PhiInit /\ [][PhiNext]_phiVars

-----------------------------------------------------------------------------
\* Properties

\* The iterated dominance frontier of a set of blocks: the least set that has
\* the frontiers of those blocks and of its own.
Joins == UNION {front[b] : b \in Blocks}
FrontierClosed(D, S) == \A d \in D \union S : front[d] \subseteq S
IteratedFrontier(D) ==
  {n \in Joins : \A S \in SUBSET Joins : FrontierClosed(D, S) => n \in S}

Placed(l) == l \notin todo /\ (ident = <<l>> => worklist = {})

(* At the end of the round of an identifier the blocks with a phi function for
   it are the iterated dominance frontier of its definitions (insert_phis), in
   whatever order the worklist is taken: one too few and a join sees the
   definition of only one side; one too many merges variables nobody set.  *)
PhisAreIterated ==
  \A l \in DOMAIN defs : Placed(l) => phis[l] = IteratedFrontier(defs[l])
=============================================================================
