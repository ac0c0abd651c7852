------------------------------ MODULE Compile ------------------------------
(***************************************************************************)
(* The compiler: a script from its tree to its output, or one of the two   *)
(* fixed points the compilation computes on the way: the globals of each   *)
(* function, a dataflow analysis. Neither reads what the model of the      *)
(* other parts has of a program, so a behaviour is about one of the three. *)
(***************************************************************************)
EXTENDS ControlFlow, GlobalRefs, Dataflow

compileVars == <<flowVars, refsVars, dataVars>>

CompileInit ==
  /\ RefsInit /\ DataflowInit
  /\ \/ FlowInit
     \/ /\ stage \in {"globals", "dataflow"}
        /\ FlowIdle
        /\ prog = NoScript /\ tape = <<>> /\ graph = EmptyGraph

InFlow(A) == A /\ UNCHANGED <<refsVars, dataVars>>
InRefs(A) == stage = "globals" /\ A /\ UNCHANGED <<flowVars, dataVars>>
InDataflow(A) == stage = "dataflow" /\ A /\ UNCHANGED <<flowVars, refsVars>>

CompileNext == InFlow(FlowNext) \/ InRefs(RefsNext) \/ InDataflow(DataflowNext)

\* One thread compiles: what it has begun goes on.
CompileFairness ==
  /\ WF_compileVars(InFlow(PlacePhis))
  /\ WF_compileVars(InRefs(PassStep))
  /\ WF_compileVars(InDataflow(SolveStep))

CompileSpec == CompileInit /\ [][CompileNext]_compileVars /\ CompileFairness

-----------------------------------------------------------------------------
\* Properties

(* The three worklists become empty: a block, function or node comes back to
   one only after something has grown (insert_phis, get_global_refs, solve).  *)
WorklistsEnd ==
  /\ stage = "placing" ~> todo = {} /\ worklist = {}
  /\ phase = "passing" ~> phase = "cached"
  /\ solved ~> Finished
=============================================================================
