-------------------------- MODULE ParallelRunProof --------------------------
(****************************************************************************)
(* What holds of a run for every script, input and number of workers:       *)
(* the types, what the stages hand on to one another in the slots, and      *)
(* what exit does to the input.  The type invariant is not inductive by     *)
(* itself: Process reads registers that Enter has loaded, and the           *)
(* interpreter's rc takes the code of a result.                             *)
(****************************************************************************)
EXTENDS ParallelRun, TLAPS

Labels == {"begin", "flush", "unborn", "start", "enter", "read", "get", "eof",
           "send", "drop", "gone", "blocked", "panicked", "recv", "drain",
           "join", "end", "last"}

(* In its loop a thread has the variables of the loop in registers. *)
Loaded ==
  \A t \in Threads :
    pc[t] \in {"read", "get", "eof"} => DOMAIN regs[t] = LoopVars

(* In the interpreter every result has a code. *)
Coded ==
  ~Jit =>
    /\ \A w \in Workers : pc[w] = "send" => code[w] # NoCode
    /\ \A i \in 1..Len(results) : results[i].code # NoCode

(* The channel is a sequence. *)
Queue == \E S : results \in Seq(S)

TypeInv == TypeOK /\ Loaded /\ Coded /\ Queue

-----------------------------------------------------------------------------
(* The operators on values and slots keep their types. *)

LEMMA AddType ==
  ASSUME NEW x \in Value, NEW k \in Records \cup {First}
  PROVE  Add(x, k) \in Value
BY DEF Add, Value

LEMMA ZeroType == Zero \in Value
BY DEF Zero, Value

LEMMA AggType ==
  ASSUME NEW x \in Value, NEW y \in Value
  PROVE  Agg(x, y) \in Value
BY DEF Agg, Value

LEMMA StageVars ==
  /\ BeginStores \subseteq Vars /\ LoopStores \subseteq LoopVars
  /\ BeginStores \subseteq LoopVars /\ LoopVars \subseteq Vars
BY DEF BeginStores, LoopStores, LoopVars, BeginEnd, In

LEMMA CodesAreInts == \A c \in Codes \cup {NoCode, Failed, 0, 1} : c \in Int
BY ConstantsOK DEF NoCode, Failed

LEMMA StoreType ==
  ASSUME NEW s, SlotsOK(s), NEW vs, vs \subseteq Vars, NEW r,
         \A v \in vs : r[v] \in Value
  PROVE  /\ SlotsOK(Store(s, r, vs))
         /\ DOMAIN Store(s, r, vs) = DOMAIN s \cup Below(vs)
         /\ vs \subseteq DOMAIN Store(s, r, vs)
<1>1. Below(vs) \subseteq Vars /\ vs \subseteq Below(vs)
  BY StageVars DEF Below
<1> QED BY <1>1, ZeroType DEF SlotsOK, Store, SlotOf

LEMMA CombineType ==
  ASSUME NEW s, SlotsOK(s), NEW t, SlotsOK(t)
  PROVE  SlotsOK(Combine(s, t)) /\ DOMAIN Combine(s, t) = DOMAIN s \cup DOMAIN t
BY ZeroType, AggType DEF SlotsOK, Combine, SlotOf

LEMMA LoadType ==
  ASSUME NEW s, SlotsOK(s), NEW vs, vs \subseteq DOMAIN s,
         NEW mine, mine \subseteq Vars
  PROVE  SlotsOK(Load(s, vs, mine)) /\ DOMAIN Load(s, vs, mine) = mine \cup vs
BY ZeroType DEF SlotsOK, Load

LEMMA WriteType ==
  ASSUME NEW l \in Seq({"begin", "loop", "end"}), NEW b
  PROVE  Write(l, b) \in Seq({"begin", "loop", "end"})
BY DEF Write, Extend

LEMMA InitType == Init => TypeInv
BY ConstantsOK, ZeroType
DEF Init, TypeInv, TypeOK, Loaded, Coded, Queue, SlotsOK, Threads, NoCode

OutputOK ==
  /\ log \in Seq({"begin", "loop", "end"})
  /\ buf \in [Threads -> SUBSET {"begin", "loop", "end"}]

LEMMA OutputType ==
  ASSUME TypeOK, NEW t \in Threads
  PROVE  /\ Flush(t) => OutputOK'
         /\ \A s \in {"begin", "loop", "end"} : Emit(t, s) => OutputOK'
BY WriteType DEF Flush, Emit, TypeOK, OutputOK

(* Sending and receiving. *)
LEMMA QueueAppend ==
  ASSUME Queue, NEW e, results' = Append(results, e)
  PROVE  /\ Queue' /\ Len(results') = Len(results) + 1
         /\ \A i \in 1..Len(results) : results'[i] = results[i]
         /\ results'[Len(results) + 1] = e
<1>1. PICK S : results \in Seq(S) BY DEF Queue
<1>2. results \in Seq(S \cup {e}) BY <1>1
<1>3. results' \in Seq(S \cup {e}) BY <1>2
<1> QED BY <1>1, <1>3 DEF Queue

LEMMA QueueTail ==
  ASSUME Queue, results # << >>, results' = Tail(results)
  PROVE  /\ Queue' /\ Len(results') = Len(results) - 1 /\ Len(results) \in Nat
         /\ \A i \in 1..Len(results') :
              i + 1 \in 1..Len(results) /\ results'[i] = results[i + 1]
<1>1. PICK S : results \in Seq(S) BY DEF Queue
<1>2. results' \in Seq(S) BY <1>1
<1> QED BY <1>1, <1>2 DEF Queue

LEMMA StagesType ==
  ASSUME TypeInv, Running(Begin \/ BeginFails \/ Spawn \/ FlushFails
                            \/ End \/ EndFails \/ Return \/ MainPanics
                            \/ \E c \in Codes : BeginExit(c) \/ EndExit(c))
  PROVE  TypeInv'
<1>1. Flush(Main) => OutputOK' BY OutputType DEF TypeInv, Threads
<1>2. (Emit(Main, "begin") => OutputOK') /\ (Emit(Main, "end") => OutputOK')
  BY OutputType DEF TypeInv, Threads
<1>3. SlotsOK(Store(slots[Main], [v \in BeginStores |-> Add(Zero, First)],
                    BeginStores))
  BY StoreType, AddType, ZeroType, StageVars DEF TypeInv, TypeOK, Threads
<1>4. Add(nr[Main], First) \in Value BY AddType DEF TypeInv, TypeOK, Threads
<1>5. LoopStores \subseteq DOMAIN slots[Main] =>
        SlotsOK(Load(slots[Main], LoopStores, In("end")))
  BY LoadType DEF TypeInv, TypeOK, Threads, In
<1>6. build' = build /\ build \in Builds
  BY DEF Running, TypeInv, TypeOK
<1>a. ASSUME BeginFails \/ EndFails
      PROVE  /\ UNCHANGED <<pc, Input, Data, Ending>>
             /\ Exit(1) \/ Abort(1)
             /\ calls' \subseteq Codes \cup {1}
  <2>1. /\ UNCHANGED <<pc, Input, Data, Ending>>
        /\ (Exit(1) /\ Calls(1)) \/ (Abort(1) /\ UNCHANGED calls)
    BY <1>a DEF BeginFails, EndFails, FailStage
  <2>2. calls \subseteq Codes \cup {1} BY DEF TypeInv, TypeOK
  <2> QED BY <2>1, <2>2 DEF Calls
<1>7. \/ Begin \/ BeginFails \/ Spawn \/ FlushFails
      \/ End \/ EndFails \/ Return \/ MainPanics
      \/ \E c \in Codes : BeginExit(c) \/ EndExit(c)
  BY DEF Running
<1>q. results' = results => Queue' BY DEF TypeInv, Queue
<1> SUFFICES TypeInv' OBVIOUS
<1> USE <1>q, <1>1, <1>6, ConstantsOK
    DEF TypeInv, TypeOK, OutputOK, Loaded, Coded, Jit, Threads, NoCode, Failed,
        Goto, Input, Data, Ending, GoesOn, Exit, Abort
<1>8. CASE Begin BY <1>8, <1>2, <1>3, <1>4 DEF Begin, AfterBegin
<1>9. CASE BeginFails \/ EndFails
  BY <1>9, <1>a
<1>10. CASE Spawn BY <1>10 DEF Spawn
<1>11. CASE FlushFails BY <1>11 DEF FlushFails
<1>12. CASE End BY <1>12, <1>2, <1>5 DEF End
<1>14. CASE Return BY <1>14 DEF Return
<1>15. CASE MainPanics BY <1>15 DEF MainPanics
<1>16. ASSUME NEW c \in Codes, BeginExit(c) PROVE TypeInv'
  BY <1>16 DEF BeginExit, ExitStage, Calls, AfterBegin
<1>17. ASSUME NEW c \in Codes, EndExit(c) PROVE TypeInv'
  BY <1>17 DEF EndExit, ExitStage, Calls
<1> HIDE <1>q, <1>1, <1>6, ConstantsOK DEF TypeInv, TypeOK, Loaded, Coded
<1> QED
  BY <1>7, <1>8, <1>9, <1>10, <1>11, <1>12, <1>14, <1>15, <1>16, <1>17

LEMMA CollectType ==
  ASSUME TypeInv, Running(OwnResult \/ Receive \/ Received \/ Drain
                            \/ Drained \/ Join)
  PROVE  TypeInv'
<1>1. Flush(Main) => OutputOK' BY OutputType DEF TypeInv, Threads
<1>2. results # << >> =>
        /\ SlotsOK(Combine(slots[Main], Head(results).slots))
        /\ Agg(nr[Main], Head(results).nr) \in Value
        /\ Head(results).code \in Codes \cup {NoCode, Failed, 0, 1}
        /\ ~Jit => Head(results).code # NoCode
  <2>1. ASSUME results # << >> PROVE Head(results) = results[1] /\ Len(results) >= 1
    BY <2>1 DEF TypeInv, Queue
  <2>2. ASSUME results # << >>
        PROVE  /\ SlotsOK(Head(results).slots) /\ Head(results).nr \in Value
               /\ Head(results).code \in Codes \cup {NoCode, Failed, 0, 1}
               /\ ~Jit => Head(results).code # NoCode
    <3>1. 1 \in 1..Len(results) BY <2>1, <2>2 DEF TypeInv, Queue
    <3> QED BY <2>1, <2>2, <3>1 DEF TypeInv, TypeOK, Coded
  <2>3. SlotsOK(slots[Main]) /\ nr[Main] \in Value
    BY DEF TypeInv, TypeOK, Threads
  <2> QED BY <2>2, <2>3, CombineType, AggType
<1>3. build' = build /\ build \in Builds
  BY DEF Running, TypeInv, TypeOK
<1>a. code[Main] \in Int
  <2>1. code[Main] \in Codes \cup {NoCode, Failed, 0, 1}
    BY DEF TypeInv, TypeOK, Threads
  <2> QED BY <2>1, CodesAreInts
<1>4. OwnResult \/ Receive \/ Received \/ Drain \/ Drained \/ Join
  BY DEF Running
<1>q. results' = results => Queue' BY DEF TypeInv, Queue
<1> SUFFICES TypeInv' OBVIOUS
<1> USE <1>q, <1>1, <1>3, ConstantsOK
    DEF TypeInv, TypeOK, OutputOK, Loaded, Coded, Jit, Threads, NoCode, Failed,
        Goto, Input, Data, Ending, GoesOn, Exit, Abort
<1>5. CASE OwnResult BY <1>5 DEF OwnResult
<1>6. CASE Receive BY <1>6, <1>2, QueueTail DEF Receive, FirstCode
<1>7. CASE Received BY <1>7 DEF Received
<1>8. CASE Drain BY <1>8, QueueTail DEF Drain
<1>9. CASE Drained
  BY <1>9, <1>a DEF Drained
<1>10. CASE Join BY <1>10 DEF Join
<1> HIDE <1>q, <1>1, <1>3, ConstantsOK DEF TypeInv, TypeOK, Loaded, Coded
<1> QED BY <1>4, <1>5, <1>6, <1>7, <1>8, <1>9, <1>10

LEMMA LoopType ==
  ASSUME TypeInv, NEW t \in Threads, Running(LoopStep(t))
  PROVE  TypeInv'
<1>1. (Flush(Main) => OutputOK') /\ (Emit(t, "loop") => OutputOK')
  BY OutputType DEF TypeInv, Threads
<1>2. BeginStores \subseteq DOMAIN slots[t] =>
        /\ SlotsOK(Load(slots[t], BeginStores, LoopVars))
        /\ DOMAIN Load(slots[t], BeginStores, LoopVars) = LoopVars
  <2>1. SlotsOK(slots[t]) BY DEF TypeInv, TypeOK
  <2>2. LoopVars \cup BeginStores = LoopVars BY StageVars
  <2> QED BY <2>1, <2>2, LoadType, StageVars
<1>3. pc[t] = "eof" => SlotsOK(Store(slots[t], regs[t], LoopStores))
  <2>1. SlotsOK(slots[t]) /\ SlotsOK(regs[t]) BY DEF TypeInv, TypeOK
  <2>2. pc[t] = "eof" => \A v \in LoopStores : regs[t][v] \in Value
    BY <2>1, StageVars DEF TypeInv, Loaded, SlotsOK
  <2> QED BY <2>1, <2>2, StoreType, StageVars
<1>4. \A r \in Records : Add(nr[t], r) \in Value
  BY AddType DEF TypeInv, TypeOK
<1>5. \A r \in Records : Process(t, r) =>
        /\ SlotsOK(regs'[t]) /\ DOMAIN regs'[t] = DOMAIN regs[t]
        /\ \A u \in Threads : u # t => regs'[u] = regs[u]
        /\ DOMAIN regs' = Threads
  BY AddType DEF TypeInv, TypeOK, Process, SlotsOK
<1>6. build' = build /\ build \in Builds
  BY DEF Running, TypeInv, TypeOK
<1>7. LoopStep(t) BY DEF Running
<1>q. results' = results => Queue' BY DEF TypeInv, Queue
<1> SUFFICES TypeInv' OBVIOUS
<1> USE <1>q, <1>1, <1>6, ConstantsOK
    DEF TypeInv, TypeOK, OutputOK, Loaded, Coded, Jit, Threads, NoCode, Failed,
        Goto, Input, Data, Ending, GoesOn, Exit
<1>8. CASE Enter(t) BY <1>8, <1>2 DEF Enter
<1>9. CASE Check(t) BY <1>9 DEF Check
<1>10. CASE Get(t) BY <1>10 DEF Get, Records
<1>11. CASE Finish(t) BY <1>11, <1>3 DEF Finish, AfterLoop
<1>12. ASSUME NEW r \in Records, Process(t, r) PROVE TypeInv'
  BY <1>12, <1>4, <1>5 DEF Process, Take
<1>13. ASSUME NEW c \in Codes \cup {1, Failed}, Jit => c # Failed,
              NEW r \in Records, Take(t, r), LeaveLoop(t, c), UNCHANGED Data,
              calls' \subseteq Codes \cup {1}
       PROVE  TypeInv'
  BY <1>13 DEF Take, LeaveLoop, AfterLoop
<1> HIDE <1>q, <1>1, <1>6, ConstantsOK DEF TypeInv, TypeOK, Loaded, Coded
<1>14. calls \subseteq Codes \cup {1} BY DEF TypeInv, TypeOK
<1>15. ASSUME NEW r \in Records, LoopFails(t, r) PROVE TypeInv'
  BY <1>13, <1>14, <1>15 DEF LoopFails, Calls
<1>16. ASSUME NEW r \in Records, NEW c \in Codes, LoopExit(t, r, c) PROVE TypeInv'
  BY <1>13, <1>14, <1>16, ConstantsOK DEF LoopExit, Calls
<1> QED BY <1>7, <1>8, <1>9, <1>10, <1>11, <1>12, <1>15, <1>16 DEF LoopStep

LEMMA WorkerType ==
  ASSUME TypeInv, NEW w \in Workers,
         Running(Start(w) \/ SendResult(w) \/ DropCore(w))
  PROVE  TypeInv'
<1>1. Flush(w) => OutputOK' BY OutputType DEF TypeInv, Threads
<1>2. build' = build /\ build \in Builds
  BY DEF Running, TypeInv, TypeOK
<1>3. Start(w) \/ SendResult(w) \/ DropCore(w) BY DEF Running
<1>q. results' = results => Queue' BY DEF TypeInv, Queue
<1> SUFFICES TypeInv' OBVIOUS
<1> USE <1>q, <1>1, <1>2, ConstantsOK
    DEF TypeInv, TypeOK, OutputOK, Loaded, Coded, Jit, Threads, NoCode, Failed,
        Goto, Input, Data, Ending, GoesOn
<1>4. CASE Start(w) BY <1>4 DEF Start
<1>5. CASE SendResult(w)
  <2>1. SlotsOK(<< >>) BY DEF SlotsOK
  <2>2. Queue' /\ \A i \in 1..Len(results') :
           \/ i \in 1..Len(results) /\ results'[i] = results[i]
           \/ results'[i] = Result(w)
    BY <1>5, QueueAppend DEF SendResult
  <2>3. UNCHANGED <<log, buf>> BY <1>5 DEF SendResult
  <2> QED BY <1>5, <2>1, <2>2, <2>3 DEF SendResult, Result
<1>6. CASE DropCore(w) BY <1>6 DEF DropCore
<1> HIDE <1>q, <1>1, <1>2, ConstantsOK DEF TypeInv, TypeOK, Loaded, Coded
<1> QED BY <1>3, <1>4, <1>5, <1>6

(* The types, with what they rest on: loaded registers, results with a code and
   a channel that is a sequence (run_parallel).  *)
THEOREM TypeInvariance == Spec => []TypeInv
<1>1. TypeInv /\ [Next]_vars => TypeInv'
  <2> SUFFICES ASSUME TypeInv, [Next]_vars PROVE TypeInv' OBVIOUS
  <2>1. CASE MainThread
    BY <2>1, StagesType, CollectType, LoopType
    DEF MainThread, MainStep, Running, Threads
  <2>2. ASSUME NEW w \in Workers, Worker(w) PROVE TypeInv'
    BY <2>2, WorkerType, LoopType DEF Worker, WorkerStep, Running, Threads
  <2>3. CASE UNCHANGED vars
    BY <2>3 DEF vars, TypeInv, TypeOK, Loaded, Coded, Queue, Jit
  <2> QED BY <2>1, <2>2, <2>3 DEF Next, Gone
<1> QED BY <1>1, InitType, PTL DEF Spec

(* ParallelRun.TypeOK, for every input, script and number of workers. *)
THEOREM TypeCorrect == Spec => []TypeOK
<1>1. TypeInv => TypeOK BY DEF TypeInv
<1> QED BY <1>1, TypeInvariance, PTL

-----------------------------------------------------------------------------
Looping == {"read", "get", "eof"}

(* Where the main thread and the workers can be. *)
Places ==
  /\ pc[Main] \in {"begin", "flush", "enter", "recv", "drain", "join", "end",
                   "last", "panicked"} \cup Looping
  /\ \A w \in Workers :
       /\ pc[w] \in {"unborn", "start", "enter", "send", "drop", "gone",
                     "blocked", "panicked"} \cup Looping
       /\ pc[w] = "unborn" <=> pc[Main] \in {"begin", "flush"}
       /\ pc[w] = "blocked" => Jit

(* What BEGIN leaves in a slot. *)
BeginValue == Add(Zero, First)

(* Until its loop ends, a thread's slots are what BEGIN left, if anything. *)
FromBegin ==
  \A t \in Threads :
    /\ pc[t] \in {"begin", "unborn"} => DOMAIN slots[t] = {}
    /\ pc[t] \in {"flush", "start", "enter"} \cup Looping =>
         /\ DOMAIN slots[t] \in {{}, BeginStores}
         /\ \A v \in DOMAIN slots[t] : slots[t][v] = BeginValue
    /\ pc[t] \in Looping =>
         \A v \in In("begin") \cap In("loop") : regs[t][v][First] = 1

StartInv == Places /\ FromBegin

LEMMA StartShape ==
  ASSUME TypeInv
  PROVE  /\ pc \in [Threads -> Labels]
         /\ DOMAIN slots = Threads /\ DOMAIN regs = Threads
         /\ \A t \in Threads : pc[t] \in Looping => DOMAIN regs[t] = LoopVars
         /\ \A t \in Threads : \A v \in DOMAIN regs[t] : regs[t][v] \in Value
BY DEF TypeInv, TypeOK, Labels, Loaded, Looping, SlotsOK

LEMMA BeginValueFirst ==
  BeginValue[First] = 1 /\ \A r \in Records : BeginValue[r] = 0
BY ConstantsOK DEF BeginValue, Add, Zero

LEMMA BeginStoresBeginValue ==
  ASSUME NEW s, DOMAIN s = {}
  PROVE  LET n == Store(s, [v \in BeginStores |-> BeginValue], BeginStores)
         IN  DOMAIN n = BeginStores /\ \A v \in DOMAIN n : n[v] = BeginValue
BY DEF Store, Below, SlotOf

LEMMA MainKeepsStart ==
  ASSUME TypeInv, StartInv, Running(MainStep)
  PROVE  StartInv'
<1>1. MainStep /\ build' = build BY DEF Running
<1>2. LET n == Store(slots[Main], [v \in BeginStores |-> BeginValue], BeginStores)
      IN  pc[Main] = "begin" =>
            DOMAIN n = BeginStores /\ \A v \in DOMAIN n : n[v] = BeginValue
  BY BeginStoresBeginValue DEF StartInv, FromBegin, Threads
<1> SUFFICES StartInv' OBVIOUS
<1> USE <1>1, StartShape, ConstantsOK
    DEF StartInv, Places, FromBegin, Looping, Threads, Jit, Goto, Labels
<1>3. CASE Begin BY <1>2, <1>3 DEF Begin, AfterBegin, BeginValue, Ending
<1>4. CASE BeginFails BY <1>4 DEF BeginFails, FailStage, Data
<1>5. CASE Spawn BY <1>5 DEF Spawn
<1>6. CASE FlushFails BY <1>6 DEF FlushFails, Data
<1>7. CASE OwnResult BY <1>7 DEF OwnResult, Data
<1>8. CASE Receive BY <1>8 DEF Receive
<1>9. CASE Received BY <1>9 DEF Received, Data
<1>10. CASE Drain BY <1>10 DEF Drain, Data
<1>11. CASE Drained BY <1>11 DEF Drained, Data
<1>12. CASE Join BY <1>12 DEF Join, Data
<1>13. CASE MainPanics BY <1>13 DEF MainPanics, Data
<1>14. CASE End BY <1>14 DEF End
<1>15. CASE EndFails BY <1>15 DEF EndFails, FailStage, Data
<1>16. CASE Return BY <1>16 DEF Return, Data
<1>17. ASSUME NEW c \in Codes, BeginExit(c) PROVE StartInv'
  <2>1. CASE UNCHANGED pc BY <2>1, <1>17 DEF BeginExit, Data
  <2>2. CASE Goto(Main, AfterBegin)
    <3>1. CASE Workers = {} BY <3>1, <2>2, <1>17 DEF BeginExit, Data, AfterBegin
    <3>2. CASE Workers # {} BY <3>2, <2>2, <1>17 DEF BeginExit, Data, AfterBegin
    <3> QED BY <3>1, <3>2
  <2>3. UNCHANGED pc \/ Goto(Main, AfterBegin)
    BY <1>17 DEF BeginExit, ExitStage
  <2> QED BY <2>1, <2>2, <2>3
<1>18. ASSUME NEW c \in Codes, EndExit(c) PROVE StartInv'
  BY <1>18 DEF EndExit, ExitStage, Data
<1> HIDE StartShape DEF StartInv
<1> QED
  BY <1>3, <1>4, <1>5, <1>6, <1>7, <1>8, <1>9, <1>10, <1>11, <1>12, <1>13,
     <1>14, <1>15, <1>16, <1>17, <1>18 DEF MainStep

LEMMA LoopKeepsStart ==
  ASSUME TypeInv, StartInv, NEW t \in Threads, Running(LoopStep(t))
  PROVE  StartInv'
<1>1. LoopStep(t) /\ build' = build BY DEF Running
<1>2. pc[t] = "enter" /\ BeginStores \subseteq DOMAIN slots[t] =>
        \A v \in In("begin") \cap In("loop") :
           Load(slots[t], BeginStores, LoopVars)[v][First] = 1
  BY BeginValueFirst
  DEF StartInv, FromBegin, Load, BeginStores, LoopVars, BeginEnd
<1>3. \A r \in Records : Process(t, r) =>
        /\ \A u \in Threads : u # t => regs'[u] = regs[u]
        /\ \A v \in In("begin") \cap In("loop") : regs'[t][v][First] = 1
  BY StartShape, ConstantsOK
  DEF Process, Take, StartInv, FromBegin, Looping, LoopVars, Add, Value
<1> SUFFICES StartInv' OBVIOUS
<1> USE <1>1, StartShape, ConstantsOK
    DEF StartInv, Places, FromBegin, Looping, Threads, Jit, Goto, Labels
<1>4. CASE Enter(t) BY <1>2, <1>4 DEF Enter
<1>5. CASE Check(t) BY <1>5 DEF Check, Data
<1>6. CASE Get(t) BY <1>6 DEF Get, Data
<1>7. CASE Finish(t) BY <1>7 DEF Finish, AfterLoop
<1>8. ASSUME NEW r \in Records, Process(t, r) PROVE StartInv'
  <2>1. pc[t] = "read" /\ UNCHANGED <<pc, slots>> BY <1>8 DEF Process, Take
  <2> QED BY <1>3, <1>8, <2>1
<1>9. ASSUME NEW c, NEW r \in Records, Take(t, r), LeaveLoop(t, c), UNCHANGED Data
      PROVE  StartInv'
  BY <1>9 DEF Take, LeaveLoop, AfterLoop, Data
<1> HIDE StartShape DEF StartInv
<1>10. ASSUME NEW r \in Records, LoopFails(t, r) PROVE StartInv'
  BY <1>9, <1>10 DEF LoopFails
<1>11. ASSUME NEW r \in Records, NEW c \in Codes, LoopExit(t, r, c) PROVE StartInv'
  BY <1>9, <1>11 DEF LoopExit
<1> QED BY <1>1, <1>4, <1>5, <1>6, <1>7, <1>8, <1>10, <1>11 DEF LoopStep

LEMMA WorkerKeepsStart ==
  ASSUME TypeInv, StartInv, NEW w \in Workers,
         Running(Start(w) \/ SendResult(w) \/ DropCore(w))
  PROVE  StartInv'
<1>1. (Start(w) \/ SendResult(w) \/ DropCore(w)) /\ build' = build
  BY DEF Running
<1> USE <1>1, StartShape, ConstantsOK
    DEF StartInv, Places, FromBegin, Looping, Threads, Jit, Goto, Labels
<1>2. CASE Start(w) BY <1>2 DEF Start, Data
<1>3. CASE SendResult(w) BY <1>3 DEF SendResult
<1>4. CASE DropCore(w) BY <1>4 DEF DropCore, Data
<1> QED BY <1>1, <1>2, <1>3, <1>4

LEMMA InitStart == Init => StartInv
BY ConstantsOK DEF Init, StartInv, Places, FromBegin, Threads, Looping

(* Where the threads can be, and what BEGIN has left in their slots and
   registers (Core::shuttle, LoadSlots at the entry of the main loop).  *)
THEOREM StartInvariance == Spec => [](TypeInv /\ StartInv)
<1>1. TypeInv /\ StartInv /\ [Next]_vars => StartInv'
  <2> SUFFICES ASSUME TypeInv, StartInv, [Next]_vars PROVE StartInv' OBVIOUS
  <2>1. CASE MainThread
    BY <2>1, MainKeepsStart, LoopKeepsStart DEF MainThread, Running, Threads
  <2>2. ASSUME NEW w \in Workers, Worker(w) PROVE StartInv'
    BY <2>2, WorkerKeepsStart, LoopKeepsStart
    DEF Worker, WorkerStep, Running, Threads
  <2>3. CASE UNCHANGED vars
    BY <2>3 DEF vars, StartInv, Places, FromBegin, Jit
  <2> QED BY <2>1, <2>2, <2>3 DEF Next, Gone
<1> QED BY <1>1, InitStart, TypeInvariance, PTL DEF Spec

(* Core::shuttle: however many workers run, each starts its loop with what
   BEGIN left in the variables both mention, once.  *)
THEOREM BeginKnown == Spec => []BeginReachesLoop
<1>1. StartInv => BeginReachesLoop
  BY DEF StartInv, FromBegin, BeginReachesLoop, Looping
<1> QED BY <1>1, StartInvariance, PTL

-----------------------------------------------------------------------------
(* Only Get gives a thread records, and only Check lets it ask for them;
   it sends a thread to the end of its input once the signal is set.  *)
InputCut ==
  Jit /\ cancel # NoCode =>
    \A t \in Threads : pc[t] # "get" =>
      held'[t] \subseteq held[t] /\ pc'[t] # "get"

LEMMA StepCut == ASSUME TypeInv, Next PROVE InputCut
<1>1. pc \in [Threads -> Labels] /\ held \in [Threads -> SUBSET Records]
  BY DEF TypeInv, TypeOK, Labels
<1> USE <1>1 DEF InputCut, Goto, Input, Threads
<1>2. ASSUME MainStep PROVE InputCut
  <2>1. held' = held
    BY <1>2 DEF MainStep, Begin, BeginFails, Spawn, FlushFails, OwnResult,
       Receive, Received, Drain, Drained, Join, MainPanics, End, EndFails,
       Return, BeginExit, EndExit
  <2>2. \A t \in Threads : pc'[t] = "get" => pc[t] = "get"
    BY <1>2 DEF MainStep, Begin, BeginFails, Spawn, FlushFails, OwnResult,
       Receive, Received, Drain, Drained, Join, MainPanics, End, EndFails,
       Return, BeginExit, EndExit, FailStage, ExitStage, AfterBegin
  <2> QED BY <2>1, <2>2
<1>3. ASSUME NEW t \in Threads, LoopStep(t) PROVE InputCut
  <2>1. CASE Enter(t) BY <2>1 DEF Enter
  <2>2. CASE Check(t) BY <2>2 DEF Check
  <2>3. CASE Get(t) BY <2>3 DEF Get
  <2>4. CASE Finish(t) BY <2>4 DEF Finish, AfterLoop
  <2>5. ASSUME NEW r \in Records, Process(t, r) PROVE InputCut
    BY <2>5 DEF Process, Take
  <2>6. ASSUME NEW r \in Records, NEW c, Take(t, r), LeaveLoop(t, c)
        PROVE  InputCut
    BY <2>6 DEF Take, LeaveLoop, AfterLoop
  <2> QED BY <1>3, <2>1, <2>2, <2>3, <2>4, <2>5, <2>6
          DEF LoopStep, LoopFails, LoopExit
<1>4. ASSUME NEW w \in Workers, Start(w) \/ SendResult(w) \/ DropCore(w)
      PROVE  InputCut
  BY <1>4 DEF Start, SendResult, DropCore
<1> QED
  BY <1>2, <1>3, <1>4
  DEF Next, MainThread, Worker, WorkerStep, Running, Gone, vars

(* CancellableChunkProducer: once exit has set the signal, no thread asks for
   another chunk; each finishes the one it has, and at most the one it was
   about to get.  *)
THEOREM CutOff == Spec => InputCutOff
<1>1. TypeInv /\ [Next]_vars => [InputCut]_vars BY StepCut
<1> QED BY <1>1, TypeInvariance, PTL DEF Spec, InputCutOff, InputCut
=============================================================================
