----------------------------- MODULE ControlFlow -----------------------------
(***************************************************************************)
(* A script from its syntax tree to its output: desugared (ast.rs), turned *)
(* into a graph (cfg.rs), given dominators (dom.rs) and SSA form, and run  *)
(* by the interpreter and by the code Cranelift is given, a block a step.  *)
(* What it writes is compared with what the tree means.                    *)
(***************************************************************************)
EXTENDS Machines, PhiPlacement

CONSTANTS
  Programs,  \* scripts: [begin, pats, end, esc, globals]
  Tapes,     \* inputs: sequences of records
  Graphs,    \* other graphs for the dominators: <<nodes, edges>>
  MaxSteps   \* the blocks a machine may run

Script == INSTANCE Scripts

VARIABLES
  stage,     \* where the compilation is
  prog,      \* the script
  tape,      \* its input
  graph,     \* the graph, as far as it is made
  doms,      \* its dominators
  imach,     \* the interpreter
  jmach      \* the generated code
flowVars == <<stage, prog, tape, graph, doms, phiVars, imach, jmach>>

Idle == Fresh(<<>>)
NoScript == [begin |-> <<>>, pats |-> <<>>, end |-> <<>>, globals |-> {}]

FlowIdle ==
  /\ imach = Idle /\ jmach = Idle /\ doms = NoInfo(0)
  /\ front = <<>> /\ defs = <<>> /\ PhiStart

FlowInit ==
  /\ FlowIdle
  /\ \/ /\ stage = "script" /\ prog \in Programs /\ tape \in Tapes
        /\ graph = EmptyGraph
     \/ /\ stage = "graph" /\ prog = NoScript /\ tape = <<>>
        /\ \E s \in Graphs :
             graph = [EmptyGraph EXCEPT !.q = [n \in 1 .. s[1] |-> <<>>],
                                        !.edges = s[2]]

-----------------------------------------------------------------------------
\* An error ends the compilation of the script.
MakeGraph ==
  /\ stage = "script"
  /\ graph' = Convert(Script!DesugarStage(prog))
  /\ stage' = IF graph'.err = "none" THEN "graph" ELSE "refused"
  /\ UNCHANGED <<prog, tape, doms, phiVars, imach, jmach>>

Dominate ==
  /\ stage = "graph"
  /\ doms' = DomInfo(graph.edges, Newest(graph))
  /\ stage' = IF doms'.panic THEN "panicked" ELSE "dominated"
  /\ UNCHANGED <<prog, tape, graph, phiVars, imach, jmach>>

BeginPhis ==
  /\ stage = "dominated"
  /\ prog # NoScript
  /\ PhiCall(DomFrontier(graph.edges, doms),
             [low \in {l \in Lows(graph) \ prog.globals : MayRename(l)} |->
                DefSites(graph, low)])
  /\ stage' = "placing"
  /\ UNCHANGED <<prog, tape, graph, doms, imach, jmach>>

\* One identifier after the other, in the order of a hash set: TLC takes one.
PlacePhis ==
  /\ stage = "placing"
  /\ \/ /\ todo # {}
        /\ NextIdent(CHOOSE l \in todo : TRUE)
        /\ UNCHANGED graph
     \/ \E n \in worklist :
          /\ PopBlock(ident[1], n)
          /\ graph' = AddPhis(graph, NewPhis(ident[1], n), ident[1])
  /\ UNCHANGED <<stage, prog, tape, doms, imach, jmach>>

RenameVars ==
  /\ stage = "placing"
  /\ todo = {} /\ worklist = {}
  /\ graph' = RenameAll(graph, DomTree(doms), prog.globals)
  /\ PhiReturn
  /\ stage' = "interpreted"
  /\ imach' = Fresh(tape)
  /\ UNCHANGED <<prog, tape, doms, jmach>>

Over(m) == m.done \/ m.steps = MaxSteps

Interpret ==
  /\ stage = "interpreted"
  /\ ~Over(imach)
  /\ imach' = Interpreted(graph, imach)
  /\ UNCHANGED <<stage, prog, tape, graph, doms, phiVars, jmach>>

\* The code generator gets the same graph.
Generate ==
  /\ stage = "interpreted"
  /\ Over(imach)
  /\ stage' = "generated"
  /\ jmach' = Fresh(tape)
  /\ UNCHANGED <<prog, tape, graph, doms, phiVars, imach>>

Execute ==
  /\ stage = "generated"
  /\ ~Over(jmach)
  /\ jmach' = Executed(graph, jmach)
  /\ UNCHANGED <<stage, prog, tape, graph, doms, phiVars, imach>>

FlowNext == MakeGraph \/ Dominate \/ BeginPhis \/ PlacePhis \/ RenameVars
          \/ Interpret \/ Generate \/ Execute
FlowSpec == FlowInit /\ [][FlowNext]_flowVars

-----------------------------------------------------------------------------
\* Parts of a script

Bodies(p) ==
  p.begin \o p.end \o [k \in DOMAIN p.pats |-> p.pats[k][Len(p.pats[k])]]
Whole(p) == <<"block", Bodies(p)>>

\* The statements in a statement, itself included.
RECURSIVE Stmts(_)
Stmts(s) ==
  {s} \union
  CASE s[1] = "block" -> UNION {Stmts(s[2][k]) : k \in DOMAIN s[2]}
    [] s[1] = "if" -> Stmts(s[3])
    [] s[1] = "ifelse" -> Stmts(s[3]) \union Stmts(s[4])
    [] s[1] = "while" -> Stmts(s[4])
    [] s[1] \in {"do", "foreach"} -> Stmts(s[3])
    [] s[1] = "for" -> Stmts(s[5])
    [] OTHER -> {}

LoopKinds == {"while", "do", "for", "foreach"}
JumpKinds == {"break", "continue", "next", "return"}

\* A statement that ends with a jump, and one in which something follows such
\* a statement: in a block, or the update of a for loop.
RECURSIVE EndsInJump(_)
EndsInJump(s) ==
  \/ s[1] \in JumpKinds
  \/ s[1] = "block" /\ s[2] # <<>> /\ EndsInJump(s[2][Len(s[2])])
DeadCode(s) ==
  \E t \in Stmts(s) :
    \/ t[1] = "block" /\ \E k \in 1 .. Len(t[2]) - 1 : EndsInJump(t[2][k])
    \/ t[1] = "for" /\ EndsInJump(t[5])

\* A break or continue that no loop of the script is around.
RECURSIVE Loose(_)
Loose(s) ==
  CASE s[1] \in {"break", "continue"} -> TRUE
    [] s[1] = "block" -> \E k \in DOMAIN s[2] : Loose(s[2][k])
    [] s[1] = "if" -> Loose(s[3])
    [] s[1] = "ifelse" -> Loose(s[3]) \/ Loose(s[4])
    [] OTHER -> FALSE
Misplaced(p) ==
  \/ Loose(Whole(p))
  \/ \E k \in DOMAIN p.begin : \E s \in Stmts(p.begin[k]) : s[1] = "next"

LoopBody(s) == s[IF s[1] = "while" THEN 4 ELSE IF s[1] = "for" THEN 5 ELSE 3]
Loops(stmts) == {s \in stmts : s[1] \in LoopKinds}
LoopInEnd(p) ==
  \E k \in DOMAIN p.end : \E s \in Loops(Stmts(p.end[k])) : Loose(LoopBody(s))

-----------------------------------------------------------------------------
\* Where a script does not run as it is written

\* A bytecode block leaves out a jump to the next block, and then jumps along
\* another edge: the body of a loop starts with a loop or getline.
FallsThrough(g) ==
  \E n \in Nodes(g) :
    LET always == SelectSeq(EdgesFrom(g, n), LAMBDA e : e.cond = NullEdge)
    IN  Len(always) > 1 /\ always[1].to = n + 1

\* `continue' in a for loop leaves out the update.
RECURSIVE Continues(_)
Continues(s) ==
  CASE s[1] = "continue" -> TRUE
    [] s[1] = "block" -> \E k \in DOMAIN s[2] : Continues(s[2][k])
    [] s[1] = "if" -> Continues(s[3])
    [] s[1] = "ifelse" -> Continues(s[3]) \/ Continues(s[4])
    [] OTHER -> FALSE
SkipsUpdate(p) ==
  \E s \in Stmts(Whole(p)) : s[1] = "for" /\ Continues(s[5])

\* A pattern as the condition of a loop is a string that is not empty.
ConstantLoop(p) ==
  \E s \in Stmts(Whole(p)) :
    \/ s[1] = "while" /\ s[3][1] = "pat"
    \/ s[1] = "do" /\ s[2][1] = "pat"

\* A value that takes several blocks is escaped in the first of them.
EscapesEarly(p) ==
  \E s \in Stmts(Whole(p)) :
    s[1] = "print" /\ s[3] /\ \E k \in DOMAIN s[2] :
      s[2][k][1] \in {"ite", "and", "or", "getline"}

-----------------------------------------------------------------------------
\* Properties

(* The tree of dominators and the frontiers cfg.rs works with are those of the
   definition (dom.rs), whatever the graph: loops with two entries included. *)
DominatorsAgree == stage = "dominated" => IsDomInfo(graph.edges, doms)

(* After renaming every subscript of a local variable is assigned once, and
   each use has the only definition that can reach it (cfg.rs, insert_phis and
   rename): through nested loops, jumps out of them and joins of joins.  *)
SsaIsSound ==
  stage = "interpreted" /\ imach.steps = 0 =>
    OneDefinition(graph, prog.globals) /\ UsesTheLatest(graph, prog.globals)

(* A script that is refused has a jump where none is allowed, a statement
   after a jump (cfg.rs, add_stmt), or a jump out of a loop in END, which
   do_break_continue takes for the main loop; dom.rs fails only on a statement
   after a jump; and a misplaced jump never gets through.  *)
RefusalsAreKnown ==
  /\ stage = "refused" =>
       Misplaced(prog) \/ DeadCode(Whole(prog)) \/ LoopInEnd(prog)
  /\ stage = "panicked" => DeadCode(Whole(prog))
  /\ stage # "script" /\ Misplaced(prog) => stage = "refused"

Agrees(meaning, m) ==
  IF meaning.sig = "fuel" THEN ~m.done ELSE m.done /\ m.out = meaning.out
BothAgree(meaning) ==
  \/ meaning.stray
  \/ /\ FallsThrough(graph) \/ Agrees(meaning, imach)
     /\ PhisAgree(graph) => Agrees(meaning, jmach)

(* The interpreter and the generated code print what the script means, record
   by record, or go on for ever when it does; but for the exceptions above, and
   the generated code but for loops of one block, whose two edges into the
   header give a phi function two operands of which one is never renamed.  *)
RunsAsWritten ==
  stage = "generated" /\ Over(jmach)
    /\ ~SkipsUpdate(prog) /\ ~ConstantLoop(prog) /\ ~EscapesEarly(prog) =>
      BothAgree(Script!Meaning(prog, tape, MaxSteps))
=============================================================================
