----------------------------- MODULE GlobalRefs -----------------------------
(***************************************************************************)
(* The global variables each function of a program needs (compile.rs,      *)
(* get_global_refs): its own and those of the functions it calls.  They    *)
(* are parameters of the generated functions, and the slots that carry     *)
(* variables from one stage to the next are chosen by them.                *)
(***************************************************************************)
EXTENDS Reachability, Naturals, FiniteSets

CONSTANTS
  Frames,       \* the functions, the stages among them
  Globals,
  MaxCalls,     \* bounds: the edges of the call graph, the globals mentioned
  MaxMentions

VARIABLES
  calls,        \* the edges of the call graph, <<caller, callee>>
  mentioned,    \* <<frame, global>>: the instructions that mention one
  refs,         \* the weights of the call graph
  phase,        \* "typing", "passing", or "cached"
  pending,      \* the worklist
  cache         \* global_refs
refsVars == <<calls, mentioned, refs, phase, pending, cache>>

NoRefs == [f \in Frames |-> {}]
Own(f) == {g \in Globals : <<f, g>> \in mentioned}
Callers(f) == Predecessors(Frames, calls, f)
Callees(f) == Successors(Frames, calls, f)

-----------------------------------------------------------------------------
RefsInit ==
  /\ calls = {} /\ mentioned = {} /\ refs = NoRefs
  /\ phase = "typing" /\ pending = {} /\ cache = NoRefs

\* One edge for all the calls between two functions.
AddCall(f, h) ==
  /\ phase = "typing"
  /\ calls' = calls \union {<<f, h>>}
  /\ Cardinality(calls') <= MaxCalls
  /\ UNCHANGED <<mentioned, refs, phase, pending, cache>>

Mention(f, g) ==
  /\ phase = "typing"
  /\ mentioned' = mentioned \union {<<f, g>>}
  /\ Cardinality(mentioned') <= MaxMentions
  /\ UNCHANGED <<calls, refs, phase, pending, cache>>

\* The first call of get_global_refs collects what each function mentions.
Collect ==
  /\ phase = "typing"
  /\ phase' = "passing"
  /\ refs' = [f \in Frames |-> refs[f] \union Own(f)]
  /\ pending' = Frames
  /\ UNCHANGED <<calls, mentioned, cache>>

\* Mutant: the callers of a function that got more are not looked at again.
X_Pass(f) ==
  /\ refs' = [c \in Frames |-> IF c \in Callers(f) THEN refs[c] \union refs[f]
                               ELSE refs[c]]
  /\ pending' = pending \ {f}
  /\ UNCHANGED <<calls, mentioned, phase, cache>>

\* The globals of a function go to its callers (which the code calls callees).
Pass(f) ==
  /\ refs' = [c \in Frames |-> IF c \in Callers(f) THEN refs[c] \union refs[f]
                               ELSE refs[c]]
  /\ pending' = (pending \ {f}) \union {c \in Frames : refs'[c] # refs[c]}
  /\ UNCHANGED <<calls, mentioned, phase, cache>>

\* The weights are swapped out of the call graph. Later calls return the cache.
Return ==
  /\ phase = "passing"
  /\ pending = {}
  /\ phase' = "cached"
  /\ cache' = refs
  /\ refs' = NoRefs
  /\ UNCHANGED <<calls, mentioned, pending>>

PassStep == (\E f \in pending : Pass(f)) \/ Return

RefsNext ==
  \/ \E f, h \in Frames : AddCall(f, h)
  \/ \E f \in Frames, g \in Globals : Mention(f, g)
  \/ Collect
  \/ PassStep

RefsSpec == RefsInit /\ [][RefsNext]_refsVars /\ WF_refsVars(PassStep)

-----------------------------------------------------------------------------
\* Properties

(* The result has, for each function, the globals it and the functions it
   calls, directly or not, mention: no more and no less, recursion included.
   And so a caller has every global of its callee, which call_udf (clif.rs)
   takes for granted: it fails with "functions disagree" otherwise.  *)
GlobalsReachCallers ==
  phase = "cached" =>
    /\ \A f \in Frames :
         cache[f] = UNION {Own(h) : h \in Downstream(Frames, calls, f)}
    /\ \A f \in Frames : \A h \in Callees(f) : cache[h] \subseteq cache[f]
=============================================================================
