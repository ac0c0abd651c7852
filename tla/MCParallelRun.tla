--------------------------- MODULE MCParallelRun ---------------------------
(* ParallelRun on a small input, with a variable for every set of stages that
   can share one. *)
EXTENDS ParallelRun, TLC

CONSTANTS r1, r2, r3, w1, w2

TwoChunks == {{r1, r2}, {r3}}
MCRefs == "x" :> {"loop", "end"} @@ "y" :> {"begin", "loop"}
            @@ "z" :> {"begin", "end"} @@ "u" :> {"begin", "loop", "end"}
MCVars == DOMAIN MCRefs
=============================================================================
