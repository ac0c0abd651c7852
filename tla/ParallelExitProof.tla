-------------------------- MODULE ParallelExitProof --------------------------
(****************************************************************************)
(* How a run ends, for every script, input and number of workers: no call   *)
(* of exit is lost on its way to the status of the process, END does not    *)
(* start after one, and no slot is loaded that nobody stored.  What the     *)
(* main thread knows of the workers' codes is spread over their registers,  *)
(* the channel and rc: the invariants say which of them a code is in.       *)
(* The second part is about what it has written by then.                    *)
(****************************************************************************)
EXTENDS ParallelRunProof

(* Every code on its way is one that exit was called with.  The signal is only
   set by compiled programs, rc only by the interpreter.  *)
Known ==
  /\ \A t \in Threads :
       code[t] \in calls \cup {NoCode} \cup IF Jit THEN {} ELSE {0, Failed}
  /\ \A i \in 1..Len(results) :
       ~Jit => results[i].code \in calls \cup {0, Failed}
  /\ rc \in calls \cup {0, Failed} /\ (Jit => rc = 0)
  /\ cancel \in calls \cup {NoCode} /\ (~Jit => cancel = NoCode)
  /\ pc[Main] = "drain" => Jit /\ code[Main] \in calls

(* The main thread's own result comes before those of the workers. *)
OwnFirst == code[Main] # NoCode => rc = 0

(* The interpreter has a code other than 0 on its way to rc, or there. *)
Pending ==
  \/ rc # 0
  \/ pc[Main] = "recv" /\ code[Main] \notin {0, NoCode}
  \/ \E w \in Workers : pc[w] = "send" /\ code[w] \notin {0, NoCode}
  \/ \E i \in 1..Len(results) : results[i].code \notin {0, NoCode}

(* No call of exit is forgotten while the process runs. *)
Kept ==
  proc = "running" =>
    IF Jit THEN calls # {} => cancel # NoCode
           ELSE calls \ {0} # {} => Pending

(* Before the loop nobody has called exit, but for exit 0 in BEGIN. *)
Early ==
  proc = "running" /\ pc[Main] \in {"begin", "flush"} =>
    /\ calls \subseteq (IF Jit THEN {} ELSE {0})
    /\ rc = 0 /\ results = << >>

(* The main thread goes on to END only when every worker has reported. *)
Collected ==
  /\ rc # 0 => pc[Main] \in {"recv", "join"}
  /\ pc[Main] = "join" => ~Jit /\ (rc = 0 => Disconnected)
  /\ pc[Main] \in {"end", "last"} => Disconnected /\ (Jit => cancel = NoCode)

CodeInv == Known /\ OwnFirst /\ Kept /\ Early /\ Collected

LEMMA CodeShape ==
  ASSUME TypeInv
  PROVE  /\ pc \in [Threads -> Labels]
         /\ DOMAIN code = Threads
         /\ NoCode # Failed /\ 0 # NoCode /\ 0 # Failed
         /\ \A c \in Codes \cup {1} : c # NoCode /\ c # Failed
         /\ \A c \in calls : c # NoCode /\ c # Failed
<1>1. \A c \in Codes \cup {1} : c # NoCode /\ c # Failed
  BY ConstantsOK DEF NoCode, Failed
<1>2. calls \subseteq Codes \cup {1} BY DEF TypeInv, TypeOK
<1>3. pc \in [Threads -> Labels] /\ DOMAIN code = Threads
  BY DEF TypeInv, TypeOK, Labels
<1>4. NoCode # Failed /\ 0 # NoCode /\ 0 # Failed BY DEF NoCode, Failed
<1> QED BY <1>1, <1>2, <1>3, <1>4

LEMMA InitCode == Init => CodeInv
BY ConstantsOK
DEF Init, CodeInv, Known, OwnFirst, Kept, Early, Collected, Threads, Jit

LEMMA StagesKeepCode ==
  ASSUME TypeInv, StartInv, CodeInv,
         Running(Begin \/ BeginFails \/ Spawn \/ FlushFails
                   \/ End \/ EndFails \/ Return \/ MainPanics
                   \/ \E c \in Codes : BeginExit(c) \/ EndExit(c))
  PROVE  CodeInv'
<1>1. build' = build /\ proc = "running" BY DEF Running
<1>2. \/ Begin \/ BeginFails \/ Spawn \/ FlushFails
      \/ End \/ EndFails \/ Return \/ MainPanics
      \/ \E c \in Codes : BeginExit(c) \/ EndExit(c)
  BY DEF Running
<1>3. \A w \in Workers : w \in Threads /\ w # Main
  BY ConstantsOK DEF Threads
<1>4. Main \in Threads BY DEF Threads
<1>5. \A w \in Workers : pc[w] = "unborn" <=> pc[Main] \in {"begin", "flush"}
  BY DEF StartInv, Places
<1> SUFFICES CodeInv' OBVIOUS
<1> USE <1>1, <1>3, <1>4, CodeShape
    DEF CodeInv, Known, OwnFirst, Kept, Early, Collected, Pending, Jit, Goto,
        GoesOn, Ending, Calls, Labels, HasSender, Disconnected
<1>6. CASE Begin BY <1>6 DEF Begin, AfterBegin
<1>7. CASE BeginFails \/ EndFails BY <1>7 DEF BeginFails, EndFails, FailStage, Exit, Abort
<1>8. CASE Spawn BY <1>5, <1>8 DEF Spawn
<1>9. CASE FlushFails BY <1>9 DEF FlushFails
<1>10. CASE End BY <1>10 DEF End
<1>11. CASE Return BY <1>11 DEF Return, Exit
<1>12. CASE MainPanics BY <1>12 DEF MainPanics, Exit
<1>13. ASSUME NEW c \in Codes, BeginExit(c) PROVE CodeInv'
  BY <1>13 DEF BeginExit, ExitStage, Exit, AfterBegin
<1>14. ASSUME NEW c \in Codes, EndExit(c) PROVE CodeInv'
  BY <1>14 DEF EndExit, ExitStage, Exit
<1> HIDE CodeShape DEF CodeInv
<1> QED BY <1>2, <1>6, <1>7, <1>8, <1>9, <1>10, <1>11, <1>12, <1>13, <1>14

LEMMA CollectKeepsCode ==
  ASSUME TypeInv, StartInv, CodeInv,
         Running(OwnResult \/ Receive \/ Received \/ Drain \/ Drained \/ Join)
  PROVE  CodeInv'
<1>1. build' = build /\ proc = "running" BY DEF Running
<1>2. OwnResult \/ Receive \/ Received \/ Drain \/ Drained \/ Join
  BY DEF Running
<1>3. \A w \in Workers : w \in Threads /\ w # Main
  BY ConstantsOK DEF Threads
<1>4. Main \in Threads BY DEF Threads
<1>5. results # << >> /\ results' = Tail(results) =>
        /\ 1 \in 1..Len(results) /\ Head(results) = results[1]
        /\ \A i \in 1..Len(results') :
             i + 1 \in 1..Len(results) /\ results'[i] = results[i + 1]
        /\ \A i \in 1..Len(results) :
             i = 1 \/ (i - 1 \in 1..Len(results') /\ results[i] = results'[i - 1])
  <2> SUFFICES ASSUME results # << >>, results' = Tail(results)
               PROVE  /\ 1 \in 1..Len(results) /\ Head(results) = results[1]
                      /\ \A i \in 1..Len(results') :
                           i + 1 \in 1..Len(results) /\ results'[i] = results[i + 1]
                      /\ \A i \in 1..Len(results) :
                           i = 1 \/ (i - 1 \in 1..Len(results')
                                      /\ results[i] = results'[i - 1])
    OBVIOUS
  <2>1. PICK S : results \in Seq(S) BY DEF TypeInv, Queue
  <2> QED BY <2>1
<1> SUFFICES CodeInv' OBVIOUS
<1> USE <1>1, <1>3, <1>4, CodeShape
    DEF CodeInv, Known, OwnFirst, Kept, Early, Collected, Pending, Jit, Goto,
        GoesOn, Ending, Calls, Labels, HasSender, Disconnected
<1>6. CASE OwnResult BY <1>6 DEF OwnResult
<1>7. CASE Receive
  <2>1. UNCHANGED <<proc, calls, cancel, code>> /\ pc[Main] = "recv"
        /\ results # << >> /\ results' = Tail(results) /\ code[Main] = NoCode
        /\ (UNCHANGED pc \/ pc' = [pc EXCEPT ![Main] = "join"])
    BY <1>7 DEF Receive
  <2>2. IF ~Jit /\ results[1].code = Failed
        THEN rc' = Failed /\ pc' = [pc EXCEPT ![Main] = "join"]
        ELSE rc' = (IF Jit THEN rc ELSE FirstCode(rc, results[1].code))
             /\ UNCHANGED pc
    BY <1>5, <1>7 DEF Receive
  <2> HIDE CodeShape
  <2>3. rc' \in calls \cup {0, Failed} /\ (rc' = 0 => rc = 0)
        /\ (Jit => rc' = rc) /\ (~Jit /\ rc' = 0 => results[1].code = 0)
    BY <1>5, <2>1, <2>2, CodeShape DEF FirstCode
  <2>4. Known'
    <3>1. \A i \in 1..Len(results') : ~Jit => results'[i].code \in calls \cup {0, Failed}
      BY <1>5, <2>1
    <3>2. \A t \in Threads :
            code[t] \in calls \cup {NoCode} \cup IF Jit THEN {} ELSE {0, Failed}
      OBVIOUS
    <3>3. pc'[Main] # "drain" BY <2>1, CodeShape
    <3> QED BY <2>1, <2>3, <3>1, <3>2, <3>3
  <2>5. OwnFirst' /\ Early' /\ Collected' BY <2>1, <2>2, <2>3, CodeShape
  <2>6. ~Jit /\ Pending => Pending'
    <3>1. CASE rc' # 0 BY <3>1
    <3>2. CASE rc' = 0
      BY <3>2, <1>5, <2>1, <2>2, <2>3, CodeShape
    <3> QED BY <3>1, <3>2
  <2>7. Kept' BY <2>1, <2>6 DEF Pending
  <2> QED BY <2>4, <2>5, <2>7
<1>8. CASE Received BY <1>8 DEF Received, Exit
<1>9. CASE Drain BY <1>5, <1>9 DEF Drain
<1>10. CASE Drained BY <1>10 DEF Drained, Exit
<1>11. CASE Join BY <1>11 DEF Join, Exit, Abort
<1> HIDE CodeShape DEF CodeInv
<1> QED BY <1>2, <1>6, <1>7, <1>8, <1>9, <1>10, <1>11

LEMMA LoopKeepsCode ==
  ASSUME TypeInv, StartInv, CodeInv, NEW t \in Threads, Running(LoopStep(t))
  PROVE  CodeInv'
<1>1. build' = build /\ proc = "running" BY DEF Running
<1>2. LoopStep(t) BY DEF Running
<1>3. \A w \in Workers : w \in Threads /\ w # Main
  BY ConstantsOK DEF Threads
<1>4. Main \in Threads /\ (t = Main \/ t \in Workers) BY DEF Threads
<1>a. \A w \in Workers : pc[w] = "unborn" <=> pc[Main] \in {"begin", "flush"}
  BY DEF StartInv, Places
<1> SUFFICES CodeInv' OBVIOUS
<1> USE <1>1, <1>3, <1>4, CodeShape
    DEF CodeInv, Known, OwnFirst, Kept, Early, Collected, Pending, Jit, Goto,
        GoesOn, Ending, Calls, Labels, HasSender, Disconnected
<1>5. CASE Enter(t) BY <1>5 DEF Enter
<1>6. CASE Check(t) BY <1>6 DEF Check
<1>7. CASE Get(t) BY <1>7 DEF Get
<1>8. CASE Finish(t) BY <1>8 DEF Finish, AfterLoop
<1>9. ASSUME NEW r \in Records, Process(t, r) PROVE CodeInv'
  BY <1>9 DEF Process, Take
<1>10. ASSUME NEW c \in Codes \cup {1, Failed}, pc[t] = "read", LeaveLoop(t, c),
              IF c = Failed THEN ~Jit /\ calls' = calls
                            ELSE calls' = calls \cup {c}
       PROVE  CodeInv'
  <2>1. CASE Jit /\ Workers = {}
    BY <1>10, <2>1 DEF LeaveLoop, Exit
  <2>2. CASE Jit /\ Workers # {}
    <3>1. /\ code' = [code EXCEPT ![t] = c]
          /\ cancel' = IF cancel = NoCode THEN c ELSE cancel
          /\ pc' = [pc EXCEPT ![t] = IF t = Main THEN "drain" ELSE "send"]
          /\ UNCHANGED <<results, rc, proc>> /\ calls' = calls \cup {c}
      BY <1>10, <2>2 DEF LeaveLoop
    <3>2. Known' /\ OwnFirst' /\ Early' BY <1>10, <1>a, <2>2, <3>1
    <3>3. Collected' BY <1>10, <2>2, <3>1
    <3>4. Kept' BY <1>10, <2>2, <3>1
    <3> QED BY <3>2, <3>3, <3>4
  <2>3. CASE ~Jit
    <3>1. /\ code' = [code EXCEPT ![t] = c]
          /\ pc' = [pc EXCEPT ![t] = IF t = Main THEN "recv" ELSE "send"]
          /\ UNCHANGED <<results, cancel, rc, proc>>
      BY <1>10, <2>3 DEF LeaveLoop, AfterLoop
    <3>2. Known' /\ OwnFirst' /\ Early' BY <1>10, <1>a, <2>3, <3>1
    <3>3. Collected' BY <1>10, <2>3, <3>1
    <3>4. c # 0 => Pending' BY <1>10, <3>1
    <3>5. Pending => Pending' BY <1>10, <3>1
    <3>6. Kept' BY <1>10, <2>3, <3>1, <3>4, <3>5 DEF Pending
    <3> QED BY <3>2, <3>3, <3>6
  <2> QED BY <2>1, <2>2, <2>3
<1>11. ASSUME NEW r \in Records, LoopFails(t, r) PROVE CodeInv'
  BY <1>10, <1>11 DEF LoopFails, Take
<1>12. ASSUME NEW r \in Records, NEW c \in Codes, LoopExit(t, r, c) PROVE CodeInv'
  BY <1>10, <1>12 DEF LoopExit, Take
<1> HIDE CodeShape DEF CodeInv
<1> QED BY <1>2, <1>5, <1>6, <1>7, <1>8, <1>9, <1>11, <1>12 DEF LoopStep

LEMMA WorkerKeepsCode ==
  ASSUME TypeInv, StartInv, CodeInv, NEW w \in Workers,
         Running(Start(w) \/ SendResult(w) \/ DropCore(w))
  PROVE  CodeInv'
<1>1. build' = build /\ proc = "running" BY DEF Running
<1>2. Start(w) \/ SendResult(w) \/ DropCore(w) BY DEF Running
<1>3. \A u \in Workers : u \in Threads /\ u # Main
  BY ConstantsOK DEF Threads
<1>4. Main \in Threads BY DEF Threads
<1>a. \A u \in Workers : pc[u] = "unborn" <=> pc[Main] \in {"begin", "flush"}
  BY DEF StartInv, Places
<1>5. results' = Append(results, Result(w)) =>
         /\ \A i \in 1..Len(results') :
              \/ i \in 1..Len(results) /\ results'[i] = results[i]
              \/ results'[i] = Result(w)
         /\ \A i \in 1..Len(results) :
              i \in 1..Len(results') /\ results'[i] = results[i]
         /\ \E i \in 1..Len(results') : results'[i] = Result(w)
  <2> SUFFICES ASSUME results' = Append(results, Result(w))
               PROVE  /\ \A i \in 1..Len(results') :
                           \/ i \in 1..Len(results) /\ results'[i] = results[i]
                           \/ results'[i] = Result(w)
                      /\ \A i \in 1..Len(results) :
                           i \in 1..Len(results') /\ results'[i] = results[i]
                      /\ \E i \in 1..Len(results') : results'[i] = Result(w)
    OBVIOUS
  <2>1. /\ Len(results') = Len(results) + 1 /\ Len(results) \in Nat
        /\ \A i \in 1..Len(results) : results'[i] = results[i]
        /\ results'[Len(results) + 1] = Result(w)
    BY QueueAppend DEF TypeInv, Queue
  <2> QED BY <2>1
<1>6. ~Jit /\ pc[w] = "send" => code[w] # NoCode
  BY DEF TypeInv, Coded
<1> USE <1>1, <1>3, <1>4, CodeShape
    DEF CodeInv, Known, OwnFirst, Kept, Early, Collected, Pending, Jit, Goto,
        GoesOn, Ending, Calls, Labels, HasSender, Disconnected
<1>7. CASE Start(w) BY <1>7 DEF Start
<1>8. CASE SendResult(w)
  <2>1. UNCHANGED <<proc, calls, cancel, code, rc>> /\ pc[w] = "send"
        /\ results' = Append(results, Result(w))
        /\ pc' = [pc EXCEPT ![w] = "drop"] /\ Result(w).code = code[w]
    BY <1>8 DEF SendResult, Result
  <2>2. Known' BY <1>5, <1>6, <2>1
  <2>3. OwnFirst' /\ Early' /\ Collected' BY <1>5, <1>a, <2>1
  <2>4. Pending => Pending' BY <1>5, <2>1
  <2>5. Kept' BY <2>1, <2>4 DEF Pending
  <2> QED BY <2>2, <2>3, <2>5
<1>9. CASE DropCore(w) BY <1>9 DEF DropCore
<1> QED BY <1>2, <1>7, <1>8, <1>9

(* Where the codes are that exit was called with, until the process reports one
   of them (rc of run_parallel, CancelSignal).  *)
THEOREM CodeInvariance == Spec => [](TypeInv /\ StartInv /\ CodeInv)
<1>1. TypeInv /\ StartInv /\ CodeInv /\ [Next]_vars => CodeInv'
  <2> SUFFICES ASSUME TypeInv, StartInv, CodeInv, [Next]_vars PROVE CodeInv'
    OBVIOUS
  <2>1. CASE MainThread
    BY <2>1, StagesKeepCode, CollectKeepsCode, LoopKeepsCode
    DEF MainThread, MainStep, Running, Threads
  <2>2. ASSUME NEW w \in Workers, Worker(w) PROVE CodeInv'
    BY <2>2, WorkerKeepsCode, LoopKeepsCode
    DEF Worker, WorkerStep, Running, Threads
  <2>3. CASE UNCHANGED vars
    BY <2>3 DEF vars, CodeInv, Known, OwnFirst, Kept, Early, Collected, Pending,
       Jit, Disconnected, HasSender
  <2> QED BY <2>1, <2>2, <2>3 DEF Next, Gone
<1> QED BY <1>1, InitCode, StartInvariance, PTL DEF Spec

(* When END may start, nobody has called exit with a code other than 0; in a
   compiled program, nobody has called it at all.  *)
LEMMA AtEnd ==
  ASSUME CodeInv, proc = "running",
         pc[Main] \in {"end", "last"} \/ (pc[Main] = "join" /\ rc = 0)
  PROVE  /\ ~Pending /\ calls \subseteq {0} /\ (Jit => calls = {})
         /\ results = << >> /\ \A w \in Workers : ~HasSender(w)
<1>1. Disconnected /\ rc = 0 /\ (Jit => cancel = NoCode)
  BY DEF CodeInv, Collected, Known
<1>2. \A w \in Workers : ~HasSender(w) BY <1>1 DEF Disconnected
<1>3. \A w \in Workers : pc[w] # "send" BY <1>2 DEF HasSender
<1>4. results = << >> BY <1>1 DEF Disconnected
<1>5. ~Pending BY <1>1, <1>3, <1>4 DEF Pending
<1> QED BY <1>1, <1>2, <1>4, <1>5 DEF CodeInv, Kept

(* Only END changes what END has seen. *)
LEMMA OnlyEnd == ASSUME Next PROVE seen' = seen \/ (End /\ proc = "running")
BY DEF Next, MainThread, Worker, Running, Gone, vars, MainStep, LoopStep,
   WorkerStep, Begin, BeginFails, Spawn, FlushFails, OwnResult, Receive,
   Received, Drain, Drained, Join, MainPanics, EndFails, Return, BeginExit,
   EndExit, Enter, Check, Get, Finish, Process, LoopFails, LoopExit, Start,
   SendResult, DropCore, Data

Final == calls \ (IF Jit THEN {} ELSE {0}) # {} => seen' = seen

(* FailureIsFinal: after an exit in a compiled program, or an exit with a code
   other than 0 in the interpreter, END does not start, on however many threads
   the calls race with the end of the input.  *)
THEOREM FailureFinal == Spec => FailureIsFinal
<1>1. CodeInv /\ [Next]_vars => [Final]_vars
  <2> SUFFICES ASSUME CodeInv, Next PROVE Final OBVIOUS
  <2>1. CASE End /\ proc = "running"
    <3>1. calls \subseteq {0} /\ (Jit => calls = {}) BY <2>1, AtEnd DEF End
    <3> QED BY <3>1 DEF Final
  <2> QED BY <2>1, OnlyEnd DEF Final
<1> QED BY <1>1, CodeInvariance, PTL DEF FailureIsFinal, Final, Spec

-----------------------------------------------------------------------------
(* A thread that is to load slots that BEGIN did not store. *)
Missing(t) ==
  pc[t] \in {"start", "enter"} /\ ~(BeginStores \subseteq DOMAIN slots[t])

(* No thread is in its loop, or can get there. *)
NoLoop ==
  /\ calls \subseteq {0}
  /\ \A t \in Threads :
       /\ pc[t] \notin Looping
       /\ pc[t] \in {"start", "enter"} => Missing(t)

(* If slots are missing to one thread then they are to all. *)
Skipped == (\E t \in Threads : Missing(t)) \/ pc[Main] = "panicked" => NoLoop

(* Without an exit 0, BEGIN and the main loop store what they should. *)
There ==
  Jit \/ 0 \notin calls =>
    \A t \in Threads :
      pc[t] \in {"flush", "start", "enter"} => BeginStores \subseteq DOMAIN slots[t]
Quiet == calls = {} /\ (Jit \/ ~Pending)
Ready ==
  Quiet /\ pc[Main] \in {"recv", "join", "end"} =>
    LoopStores \subseteq DOMAIN slots[Main]

PanicInv == Skipped /\ There /\ Ready /\ NoPanic

(* A failure stays on its way. *)
LEMMA NotQuietAgain ==
  ASSUME TypeInv, StartInv, CodeInv, Next, Quiet'
  PROVE  Quiet
<1>1. PICK S : results \in Seq(S) BY DEF TypeInv, Queue
<1>2. \A w \in Workers : w \in Threads /\ w # Main
  BY ConstantsOK DEF Threads
<1>3. build' = build /\ calls \subseteq calls'
  BY DEF Next, MainThread, Worker, Running, Gone, vars, MainStep, LoopStep,
     WorkerStep, Begin, BeginFails, Spawn, FlushFails, OwnResult, Receive,
     Received, Drain, Drained, Join, MainPanics, End, EndFails, Return,
     BeginExit, EndExit, Enter, Check, Get, Finish, Process, LoopFails,
     LoopExit, Start, SendResult, DropCore, Calls, FailStage, ExitStage
<1>4. CASE Jit BY <1>3, <1>4 DEF Quiet, Jit
<1>5. ASSUME UNCHANGED <<rc, code, results>>,
             pc[Main] = "recv" => pc'[Main] = "recv",
             \A w \in Workers : pc[w] = "send" => pc'[w] = "send"
      PROVE  Quiet
  BY <1>3, <1>5 DEF Quiet, Pending, Jit
<1>6. pc \in [Threads -> Labels] /\ DOMAIN code = Threads
      /\ Main \in Threads /\ \A w \in Workers : w \in Threads
  BY CodeShape DEF Threads
<1>7. ASSUME ~Jit, MainStep PROVE Quiet
  <2> USE <1>2, <1>6 DEF Goto, Ending
  <2>1. CASE OwnResult
    BY <1>3, <1>7, <2>1 DEF OwnResult, Quiet, Pending, Jit, CodeInv, OwnFirst
  <2>2. CASE Receive
    <3>1. results[1] = Head(results) /\ Len(results) \in Nat /\ Len(results) >= 1
          /\ Len(results') = Len(results) - 1
          /\ \A i \in 1..Len(results') : results'[i] = results[i + 1]
      BY <1>1, <2>2 DEF Receive
    <3>2. ~Pending' /\ calls' = {}
      BY <1>3, <1>7 DEF Quiet, Jit
    <3>3. pc' = pc /\ code' = code /\ rc' = FirstCode(rc, results[1].code) /\ rc' = 0
      BY <1>7, <2>2, <3>1, <3>2, CodeShape DEF Receive, Pending
    <3>4. rc = 0 /\ results[1].code = 0 BY <3>3 DEF FirstCode
    <3>5. \A i \in 1..Len(results) : results[i].code \in {0, NoCode}
      <4> TAKE i \in 1..Len(results)
      <4>1. CASE i = 1 BY <3>4, <4>1
      <4>2. CASE i # 1
        <5>1. i - 1 \in 1..Len(results') /\ (i - 1) + 1 = i BY <3>1, <4>2
        <5>2. results'[i - 1] = results[i] BY <3>1, <5>1
        <5> QED BY <3>2, <5>1, <5>2 DEF Pending
      <4> QED BY <4>1, <4>2
    <3> QED BY <1>3, <3>2, <3>3, <3>4, <3>5 DEF Quiet, Pending
  <2>3. CASE Received
    BY <1>5, <1>7, <2>3, <1>3, CodeShape DEF Received, Quiet, Pending, Jit, Exit
  <2>4. CASE Begin \/ BeginFails \/ FlushFails \/ Join \/ MainPanics \/ End
             \/ EndFails \/ Return \/ Drain \/ Drained
    BY <1>5, <1>7, <2>4, CodeShape
    DEF Begin, BeginFails, FlushFails, Join, MainPanics, End, EndFails, Return,
        Drain, Drained, FailStage, CodeInv, Known
  <2>5. CASE Spawn
    <3>1. \A w \in Workers : pc[w] # "send"
      BY <2>5 DEF Spawn, StartInv, Places
    <3> QED BY <1>5, <2>5, <3>1 DEF Spawn
  <2>6. ASSUME NEW c \in Codes, BeginExit(c) \/ EndExit(c) PROVE Quiet
    BY <1>5, <2>6 DEF BeginExit, EndExit, ExitStage
  <2> QED BY <1>7, <2>1, <2>2, <2>3, <2>4, <2>5, <2>6 DEF MainStep
<1>8. ASSUME ~Jit, NEW t \in Threads, LoopStep(t) PROVE Quiet
  <2> USE <1>2, <1>6 DEF Goto, Ending
  <2>1. CASE Enter(t) BY <1>5, <2>1 DEF Enter
  <2>2. CASE Check(t) BY <1>5, <2>2 DEF Check
  <2>3. CASE Get(t) BY <1>5, <2>3 DEF Get
  <2>4. CASE Finish(t)
    BY <1>3, <1>8, <2>4, CodeShape DEF Finish, AfterLoop, Quiet, Pending, Jit, Threads
  <2>5. ASSUME NEW r \in Records, Process(t, r) PROVE Quiet
    BY <1>5, <2>5 DEF Process
  <2>6. ASSUME NEW r \in Records, NEW c, Take(t, r), LeaveLoop(t, c) PROVE Quiet
    BY <1>3, <1>8, <2>6, CodeShape
    DEF Take, LeaveLoop, AfterLoop, Quiet, Pending, Jit, Threads
  <2> QED BY <1>8, <2>1, <2>2, <2>3, <2>4, <2>5, <2>6
          DEF LoopStep, LoopFails, LoopExit
<1>9. ASSUME ~Jit, NEW w \in Workers, Start(w) \/ SendResult(w) \/ DropCore(w)
      PROVE  Quiet
  <2> USE <1>2, <1>6 DEF Goto, Ending
  <2>1. CASE Start(w) \/ DropCore(w) BY <1>5, <2>1 DEF Start, DropCore
  <2>2. CASE SendResult(w)
    <3>1. /\ Len(results') = Len(results) + 1 /\ Len(results) \in Nat
          /\ \A i \in 1..Len(results) : results'[i] = results[i]
          /\ results'[Len(results) + 1] = Result(w)
      BY <2>2, QueueAppend DEF SendResult, TypeInv
    <3>2. ~Pending' /\ calls' = {} BY <1>3, <1>9 DEF Quiet, Jit
    <3>3. rc = 0 /\ \A i \in 1..Len(results') : results'[i].code \in {0, NoCode}
      BY <3>2, <2>2 DEF Pending, SendResult
    <3>4. \A i \in 1..Len(results) : results[i].code \in {0, NoCode}
      BY <3>1, <3>3
    <3>5. code[w] \in {0, NoCode}
      <4>1. Len(results) + 1 \in 1..Len(results') BY <3>1
      <4>2. Result(w).code \in {0, NoCode} BY <3>1, <3>3, <4>1
      <4> QED BY <4>2 DEF Result
    <3>6. code' = code /\ pc' = [pc EXCEPT ![w] = "drop"] BY <2>2 DEF SendResult
    <3> QED BY <1>3, <3>2, <3>3, <3>4, <3>5, <3>6 DEF Quiet, Pending
  <2> QED BY <1>9, <2>1, <2>2
<1>10. CASE UNCHANGED vars BY <1>10 DEF vars, Quiet, Pending, Jit
<1> QED
  BY <1>4, <1>7, <1>8, <1>9, <1>10, <1>6
  DEF Next, MainThread, Worker, WorkerStep, Running, Gone

LEMMA InitPanic == Init => PanicInv
BY ConstantsOK
DEF Init, PanicInv, Skipped, Missing, There, Ready, NoPanic, Threads

LEMMA PanicShape ==
  ASSUME TypeInv, StartInv
  PROVE  /\ pc \in [Threads -> Labels] /\ DOMAIN slots = Threads
         /\ Main \in Threads /\ \A w \in Workers : w \in Threads /\ w # Main
         /\ \A w \in Workers : pc[w] = "unborn" <=> pc[Main] \in {"begin", "flush"}
         /\ \A t \in Threads : pc[t] = "flush" => t = Main
BY ConstantsOK DEF TypeInv, TypeOK, Labels, Threads, StartInv, Places, Looping

(* BEGIN, and what comes after the main loop. *)
LEMMA StagesKeepPanic ==
  ASSUME TypeInv, StartInv, CodeInv, PanicInv, Quiet' => Quiet, Running(MainStep)
  PROVE  PanicInv'
<1>1. build' = build /\ proc = "running" /\ MainStep BY DEF Running
<1>2. pc[Main] \in {"begin", "flush"} => calls \subseteq {0} /\ (Jit => calls = {})
  BY <1>1 DEF CodeInv, Early
<1>3. pc[Main] \in {"end", "last"} =>
        /\ calls \subseteq {0} /\ (Jit => calls = {}) /\ ~Pending
        /\ \A w \in Workers : pc[w] \notin {"start", "enter"} \cup Looping
  BY <1>1, AtEnd DEF HasSender, Looping
<1>4. pc[Main] = "begin" =>
        BeginStores \subseteq DOMAIN Store(slots[Main],
          [v \in BeginStores |-> Add(Zero, First)], BeginStores)
  BY StoreType, AddType, ZeroType, StageVars DEF TypeInv, TypeOK, Threads
<1> SUFFICES PanicInv' OBVIOUS
<1> USE <1>1, PanicShape
    DEF PanicInv, Skipped, Missing, NoLoop, There, Ready, NoPanic, Jit, Goto,
        Threads, Labels, Looping
<1>5. CASE Begin BY <1>2, <1>4, <1>5 DEF Begin, AfterBegin
<1>6. CASE BeginFails \/ EndFails
  BY <1>2, <1>3, <1>6 DEF BeginFails, EndFails, FailStage, Data, Calls
<1>7. CASE Spawn BY <1>2, <1>7 DEF Spawn
<1>8. CASE FlushFails BY <1>8 DEF FlushFails, Data
<1>9. CASE OwnResult BY <1>9 DEF OwnResult, Data
<1>10. CASE Receive
  <2>1. DOMAIN slots[Main] \subseteq DOMAIN slots'[Main]
    BY <1>10 DEF Receive, Combine
  <2> QED BY <1>10, <2>1 DEF Receive
<1>11. CASE Received BY <1>11 DEF Received, Data
<1>12. CASE Drain BY <1>12 DEF Drain, Data
<1>13. CASE Drained BY <1>13 DEF Drained, Data
<1>14. CASE Join BY <1>14 DEF Join, Data
<1>15. CASE MainPanics BY <1>15 DEF MainPanics, Data
<1>16. CASE End BY <1>3, <1>16 DEF End, Quiet
<1>17. CASE Return BY <1>17 DEF Return, Data
<1>18. ASSUME NEW c \in Codes, BeginExit(c) PROVE PanicInv'
  BY <1>2, <1>18 DEF BeginExit, ExitStage, Data, AfterBegin, Calls
<1>19. ASSUME NEW c \in Codes, EndExit(c) PROVE PanicInv'
  BY <1>3, <1>19 DEF EndExit, ExitStage, Data, Calls
<1> HIDE PanicShape DEF PanicInv
<1> QED
  BY <1>1, <1>5, <1>6, <1>7, <1>8, <1>9, <1>10, <1>11, <1>12, <1>13, <1>14,
     <1>15, <1>16, <1>17, <1>18, <1>19 DEF MainStep

LEMMA LoopKeepsPanic ==
  ASSUME TypeInv, StartInv, CodeInv, PanicInv, Quiet' => Quiet,
         NEW t \in Threads, Running(LoopStep(t))
  PROVE  PanicInv'
<1>1. build' = build /\ proc = "running" /\ LoopStep(t) BY DEF Running
<1>2. pc[t] = "eof" =>
        LoopStores \subseteq DOMAIN Store(slots[t], regs[t], LoopStores)
  BY DEF Store, Below
<1> SUFFICES PanicInv' OBVIOUS
<1> USE <1>1, PanicShape
    DEF PanicInv, Skipped, Missing, NoLoop, There, Ready, NoPanic, Jit, Goto,
        Threads, Labels, Looping
<1>3. CASE Enter(t) BY <1>3 DEF Enter
<1>4. CASE Check(t) BY <1>4 DEF Check, Data
<1>5. CASE Get(t) BY <1>5 DEF Get, Data
<1>6. CASE Finish(t) BY <1>2, <1>6 DEF Finish, AfterLoop
<1>7. ASSUME NEW r \in Records, Process(t, r) PROVE PanicInv'
  BY <1>7 DEF Process, Take
<1>8. ASSUME NEW r \in Records, NEW c, Take(t, r), LeaveLoop(t, c), UNCHANGED Data,
             calls \subseteq calls', calls' # {} \/ (~Jit /\ c = Failed)
      PROVE  PanicInv'
  <2>1. ~Quiet' \/ pc'[Main] \notin {"recv", "join", "end"}
    BY <1>8, CodeShape DEF Take, LeaveLoop, AfterLoop, Quiet, Pending
  <2>2. Ready' BY <2>1
  <2>3. pc[t] = "read" /\ slots' = slots
        /\ \/ UNCHANGED pc
           \/ pc' = [pc EXCEPT ![t] = "send"] \/ pc' = [pc EXCEPT ![t] = "recv"]
           \/ pc' = [pc EXCEPT ![t] = "drain"]
    BY <1>8 DEF Take, LeaveLoop, AfterLoop, Data
  <2>4. Skipped' /\ There' /\ NoPanic' BY <1>8, <2>3
  <2> QED BY <2>2, <2>4
<1> HIDE PanicShape DEF PanicInv
<1>9. ASSUME NEW r \in Records, LoopFails(t, r) PROVE PanicInv'
  BY <1>8, <1>9 DEF LoopFails, Calls
<1>10. ASSUME NEW r \in Records, NEW c \in Codes, LoopExit(t, r, c) PROVE PanicInv'
  BY <1>8, <1>10 DEF LoopExit, Calls
<1> QED BY <1>1, <1>3, <1>4, <1>5, <1>6, <1>7, <1>9, <1>10 DEF LoopStep

LEMMA WorkerKeepsPanic ==
  ASSUME TypeInv, StartInv, CodeInv, PanicInv, Quiet' => Quiet,
         NEW w \in Workers, Running(Start(w) \/ SendResult(w) \/ DropCore(w))
  PROVE  PanicInv'
<1>1. build' = build /\ proc = "running"
      /\ (Start(w) \/ SendResult(w) \/ DropCore(w))
  BY DEF Running
<1> SUFFICES PanicInv' OBVIOUS
<1> USE <1>1, PanicShape
    DEF PanicInv, Skipped, Missing, NoLoop, There, Ready, NoPanic, Jit, Goto,
        Threads, Labels, Looping
<1>2. CASE Start(w) BY <1>2 DEF Start, Data
<1>3. CASE SendResult(w) BY <1>3 DEF SendResult
<1>4. CASE DropCore(w) BY <1>4 DEF DropCore, Data
<1> QED BY <1>1, <1>2, <1>3, <1>4

(* Which slots a thread has when it is about to load them: an exit 0 of the
   interpreter is all that can skip the stage that stores them.  *)
THEOREM PanicInvariance == Spec => [](TypeInv /\ StartInv /\ CodeInv /\ PanicInv)
<1>1. TypeInv /\ StartInv /\ CodeInv /\ PanicInv /\ [Next]_vars => PanicInv'
  <2> SUFFICES ASSUME TypeInv, StartInv, CodeInv, PanicInv, [Next]_vars
               PROVE  PanicInv'
    OBVIOUS
  <2>1. CASE MainThread
    BY <2>1, StagesKeepPanic, LoopKeepsPanic, NotQuietAgain
    DEF MainThread, Running, Threads, Next
  <2>2. ASSUME NEW w \in Workers, Worker(w) PROVE PanicInv'
    BY <2>2, WorkerKeepsPanic, LoopKeepsPanic, NotQuietAgain
    DEF Worker, WorkerStep, Running, Threads, Next
  <2>3. CASE UNCHANGED vars
    BY <2>3 DEF vars, PanicInv, Skipped, Missing, NoLoop, There, Ready, Quiet,
       Pending, NoPanic, Jit
  <2> QED BY <2>1, <2>2, <2>3 DEF Next, Gone
<1> QED BY <1>1, InitPanic, CodeInvariance, PTL DEF Spec

(* A slot is stored before it is loaded, in every script and on every thread,
   as long as the interpreter does not go on after an exit 0.  *)
THEOREM SlotsThere == Spec => []NoPanic
<1>1. PanicInv => NoPanic BY DEF PanicInv
<1> QED BY <1>1, PanicInvariance, PTL

-----------------------------------------------------------------------------
LEMMA StepReports ==
  ASSUME TypeInv, StartInv, CodeInv, PanicInv, FailureIsReported, Next
  PROVE  FailureIsReported'
<1>1. CASE Gone
  BY <1>1 DEF Gone, vars, FailureIsReported, Jit
<1>2. CASE proc' = "running" \/ proc' = "aborted" BY <1>2 DEF FailureIsReported
<1>3. build' = build /\ (proc = "running" \/ Gone)
  BY DEF Next, MainThread, Worker, Running, Gone, vars
<1> SUFFICES ASSUME proc = "running", build' = build,
                    ~(proc' = "running" \/ proc' = "aborted")
             PROVE  FailureIsReported'
  BY <1>1, <1>2, <1>3
<1>4. ASSUME NEW c, Exit(c), c \in calls' \/ calls' \subseteq {0} \/ (Jit /\ 0 \in calls'),
             c # 0 \/ calls' \subseteq {0} \/ (Jit /\ 0 \in calls')
      PROVE  FailureIsReported'
  BY <1>4 DEF Exit, FailureIsReported, Jit
<1>5. pc[Main] \in {"begin", "flush"} => calls \subseteq {0} /\ (Jit => calls = {})
  BY DEF CodeInv, Early
<1>6. pc[Main] = "last" => calls \subseteq {0} /\ (Jit => calls = {})
  BY AtEnd
<1>7. CASE MainStep
  <2>1. CASE BeginFails \/ EndFails
    BY <2>1, <1>4, CodeShape DEF BeginFails, EndFails, FailStage, Calls, Abort
  <2>2. CASE FlushFails
    BY <2>2, <1>5 DEF FlushFails, FailureIsReported, Jit
  <2>3. CASE Return BY <2>3, <1>4, <1>6 DEF Return
  <2>4. CASE MainPanics
    <3>1. calls \subseteq {0} BY <2>4 DEF MainPanics, PanicInv, Skipped, NoLoop
    <3> QED BY <3>1, <2>4, <1>4 DEF MainPanics
  <2>5. CASE Received
    <3>1. Exit(cancel) /\ Jit /\ cancel # NoCode /\ calls' = calls
      BY <2>5 DEF Received, GoesOn
    <3> QED BY <3>1, <1>4 DEF CodeInv, Known
  <2>6. CASE Drained
    <3>1. Exit(code[Main]) /\ Jit /\ code[Main] \in calls /\ calls' = calls
      BY <2>6 DEF Drained, CodeInv, Known
    <3> QED BY <3>1, <1>4
  <2>7. CASE Join
    <3>1. Exit(rc) /\ rc # Failed /\ rc # 0 /\ calls' = calls
      BY <2>7 DEF Join, Abort, GoesOn
    <3>2. rc \in calls BY <3>1 DEF CodeInv, Known
    <3> QED BY <3>1, <3>2, <1>4
  <2>8. ASSUME NEW c \in Codes, BeginExit(c) \/ EndExit(c) PROVE FailureIsReported'
    <3>1. /\ Calls(c)
          /\ \/ Exit(c) /\ (Jit \/ c # 0)
             \/ Exit(0) /\ c = 0 /\ pc[Main] = "last"
      BY <2>8 DEF BeginExit, EndExit, ExitStage, GoesOn, AfterBegin
    <3>2. CASE Exit(c) /\ (Jit \/ c # 0) BY <3>1, <3>2, <1>4 DEF Calls
    <3>3. CASE Exit(0) /\ c = 0 /\ pc[Main] = "last"
      <4>1. calls' \subseteq {0} BY <3>1, <3>3, <1>6 DEF Calls
      <4> QED BY <4>1, <3>3, <1>4
    <3> QED BY <3>1, <3>2, <3>3
  <2>9. ~(Begin \/ Spawn \/ OwnResult \/ Receive \/ Drain \/ End)
    BY DEF Begin, Spawn, OwnResult, Receive, Drain, End, GoesOn
  <2> QED BY <1>7, <2>1, <2>2, <2>3, <2>4, <2>5, <2>6, <2>7, <2>8, <2>9
          DEF MainStep
<1>8. ASSUME NEW t \in Threads, LoopStep(t) PROVE FailureIsReported'
  <2>1. ASSUME NEW r \in Records, NEW c, LeaveLoop(t, c), Jit => Calls(c)
        PROVE  FailureIsReported'
    BY <2>1, <1>4 DEF LeaveLoop, GoesOn, Calls
  <2>2. ~(Enter(t) \/ Check(t) \/ Get(t) \/ Finish(t)
            \/ \E r \in Records : Process(t, r))
    BY DEF Enter, Check, Get, Finish, Process, GoesOn
  <2> QED BY <1>8, <2>1, <2>2 DEF LoopStep, LoopFails, LoopExit
<1>9. ASSUME NEW w \in Workers PROVE ~(Start(w) \/ SendResult(w) \/ DropCore(w))
  BY DEF Start, SendResult, DropCore, GoesOn
<1> QED
  BY <1>1, <1>7, <1>8, <1>9
  DEF Next, MainThread, Worker, WorkerStep, Running, Threads

(* FailureIsReported: the exit status is one of the codes that exit was called
   with, whichever threads called it, and whichever code won.  *)
THEOREM FailureReported == Spec => []FailureIsReported
<1>1. Init => FailureIsReported BY DEF Init, FailureIsReported
<1>2. TypeInv /\ StartInv /\ CodeInv /\ PanicInv /\ FailureIsReported /\ [Next]_vars
        => FailureIsReported'
  <2>1. FailureIsReported /\ UNCHANGED vars => FailureIsReported'
    BY DEF vars, FailureIsReported, Jit
  <2> QED BY <2>1, StepReports
<1> QED BY <1>1, <1>2, PanicInvariance, PTL DEF Spec

-----------------------------------------------------------------------------
(****************************************************************************)
(* The output of a run in the order of its stages, and all of it: what      *)
(* Core::drop and the joins of the interpreter's scope give.  The log is    *)
(* sorted by stage because no two threads hold output of different stages,  *)
(* but for BEGIN and the main loop of a serial run.                         *)
(****************************************************************************)
Names == {"begin", "loop", "end"}
Logged == {log[i] : i \in 1..Len(log)}

(* How far a stage's output is from the start of the file; the main loop and
   END of a compiled program may be mixed.  *)
Level(s) == IF s = "begin" THEN 1 ELSE IF Jit \/ s = "loop" THEN 2 ELSE 3
InOrder(l) ==
  \A i, j \in 1..Len(l) : i < j => Level(l[i]) <= Level(l[j])

(* The log is sorted, buffered output belongs after it, and what two threads
   have buffered may come in either order.  *)
Ordered ==
  /\ InOrder(log)
  /\ \A t \in Threads : \A s \in buf[t], x \in Logged : Level(x) <= Level(s)
  /\ \A t, u \in Threads : t # u =>
       \A s \in buf[t], x \in buf[u] : Level(x) = Level(s)

(* The places at which a worker has nothing buffered. *)
Emptied == {"unborn", "start", "enter", "gone", "panicked", "blocked"}
Opening == {"begin", "flush"}

(* Which stages' output there can be, by where the threads are. *)
Contents ==
  /\ pc[Main] \in Opening => Logged \cup buf[Main] \subseteq {"begin"}
  /\ "begin" \in buf[Main] => pc[Main] \in Opening \/ Workers = {}
  /\ "end" \in Logged \cup buf[Main] =>
       pc[Main] \in {"last", "panicked"} /\ (~Jit => Joined)
  /\ \A w \in Workers :
       buf[w] \subseteq {"loop"} /\ (pc[w] \in Emptied => buf[w] = {})
  /\ ~Jit /\ pc[Main] \in {"end", "last"} => Joined

OutInv == Ordered /\ Contents /\ NothingUnflushed

-----------------------------------------------------------------------------
(* Writing to the log. *)

LEMMA ExtendKeepsOrder ==
  ASSUME NEW l \in Seq(Names), InOrder(l), NEW b, NEW s \in Names,
         s \in b => \A i \in 1..Len(l) : Level(l[i]) <= Level(s)
  PROVE  /\ Extend(l, s, b) \in Seq(Names) /\ InOrder(Extend(l, s, b))
         /\ \A i \in 1..Len(Extend(l, s, b)) :
              \/ \E j \in 1..Len(l) : Extend(l, s, b)[i] = l[j]
              \/ s \in b /\ Extend(l, s, b)[i] = s
<1>1. CASE Extend(l, s, b) = l BY <1>1
<1>2. CASE s \in b /\ Extend(l, s, b) = Append(l, s)
  <2> DEFINE m == Append(l, s)
  <2>1. /\ m \in Seq(Names) /\ Len(m) = Len(l) + 1 /\ Len(l) \in Nat
        /\ \A i \in 1..Len(l) : m[i] = l[i]
        /\ m[Len(l) + 1] = s
    OBVIOUS
  <2>2. \A i \in 1..Len(m) : i \in 1..Len(l) \/ i = Len(l) + 1 BY <2>1
  <2>3. \A i \in 1..Len(m) : Level(m[i]) <= Level(s)
    BY <1>2, <2>1, <2>2 DEF Level
  <2> HIDE DEF m
  <2>4. InOrder(m)
    <3> SUFFICES ASSUME NEW i \in 1..Len(m), NEW j \in 1..Len(m), i < j
                 PROVE  Level(m[i]) <= Level(m[j])
      BY DEF InOrder
    <3>1. i \in 1..Len(l) BY <2>1, <2>2
    <3> QED BY <2>1, <2>2, <2>3, <3>1 DEF InOrder
  <2>5. Extend(l, s, b) = m BY <1>2 DEF m
  <2> QED BY <1>2, <2>1, <2>2, <2>4, <2>5
<1> QED BY <1>1, <1>2 DEF Extend

LEMMA WriteKeepsOrder ==
  ASSUME NEW l \in Seq(Names), InOrder(l), NEW b \in SUBSET Names,
         \A s \in b, i \in 1..Len(l) : Level(l[i]) <= Level(s)
  PROVE  /\ Write(l, b) \in Seq(Names) /\ InOrder(Write(l, b))
         /\ \A i \in 1..Len(Write(l, b)) :
              \/ \E j \in 1..Len(l) : Write(l, b)[i] = l[j]
              \/ Write(l, b)[i] \in b
<1> DEFINE One(m, s, n) ==
             /\ n \in Seq(Names) /\ InOrder(n)
             /\ \A i \in 1..Len(n) : \/ \E j \in 1..Len(m) : n[i] = m[j]
                                     \/ s \in b /\ n[i] = s
<1>1. ASSUME NEW m \in Seq(Names), InOrder(m), NEW s \in Names,
             s \in b => \A i \in 1..Len(m) : Level(m[i]) <= Level(s)
      PROVE  One(m, s, Extend(m, s, b))
  BY <1>1, ExtendKeepsOrder
<1>2. Level("begin") <= Level("loop") /\ Level("loop") <= Level("end")
      /\ Level("begin") <= Level("end")
  BY DEF Level
<1>3. "begin" \in Names /\ "loop" \in Names /\ "end" \in Names BY DEF Names
<1>4. PICK l1 : l1 = Extend(l, "begin", b) OBVIOUS
<1>5. PICK l2 : l2 = Extend(l1, "loop", b) OBVIOUS
<1>6. PICK l3 : l3 = Extend(l2, "end", b) OBVIOUS
<1> HIDE DEF One
<1>7. One(l, "begin", l1) BY <1>1, <1>3, <1>4
<1> USE DEF One
<1>8. "loop" \in b => \A i \in 1..Len(l1) : Level(l1[i]) <= Level("loop")
  BY <1>2, <1>7
<1>9. "end" \in b => \A i \in 1..Len(l1) : Level(l1[i]) <= Level("end")
  BY <1>2, <1>7
<1>10. l1 \in Seq(Names) /\ InOrder(l1) BY <1>7
<1> HIDE DEF One
<1>11. One(l1, "loop", l2) BY <1>1, <1>3, <1>5, <1>8, <1>10
<1> USE DEF One
<1>12. "end" \in b => \A i \in 1..Len(l2) : Level(l2[i]) <= Level("end")
  BY <1>2, <1>9, <1>11
<1>13. l2 \in Seq(Names) /\ InOrder(l2) BY <1>11
<1> HIDE DEF One
<1>14. One(l2, "end", l3) BY <1>1, <1>3, <1>6, <1>12, <1>13
<1> USE DEF One
<1>15. \A i \in 1..Len(l3) : (\E j \in 1..Len(l) : l3[i] = l[j]) \/ l3[i] \in b
  BY <1>7, <1>11, <1>14
<1>16. Write(l, b) = l3 BY <1>4, <1>5, <1>6 DEF Write
<1> QED BY <1>14, <1>15, <1>16

(* Thread t prints S, and may send what it has buffered, or lose it. *)
Out(t, S) ==
  \/ buf' = [buf EXCEPT ![t] = @ \cup S] /\ log' = log
  \/ buf' = [buf EXCEPT ![t] = {}] /\ log' = Write(log, buf[t] \cup S)
  \/ buf' = [buf EXCEPT ![t] = {}] /\ log' = log

LEMMA Shape ==
  ASSUME TypeInv
  PROVE  /\ pc \in [Threads -> Labels] /\ buf \in [Threads -> SUBSET Names]
         /\ log \in Seq(Names) /\ Main \in Threads
         /\ \A w \in Workers : w \in Threads /\ w # Main
         /\ \A t \in Threads : t = Main \/ t \in Workers
BY ConstantsOK DEF TypeInv, TypeOK, Labels, Threads, Names

LEMMA OutContents ==
  ASSUME TypeInv, Ordered, build' = build, NEW t \in Threads,
         NEW S \in SUBSET Names, Out(t, S),
         \A s \in S : /\ \A x \in Logged : Level(x) <= Level(s)
                      /\ \A u \in Threads : u # t =>
                           \A x \in buf[u] : Level(x) = Level(s)
  PROVE  /\ Ordered'
         /\ Logged' \subseteq Logged \cup buf[t] \cup S
         /\ \A u \in Threads :
              buf'[u] \subseteq buf[u] \cup IF u = t THEN S ELSE {}
<1> USE Shape
<1>1. \A s : Level(s)' = Level(s) BY DEF Level, Jit
<1>2. \A u \in Threads : buf'[u] \subseteq buf[u] \cup IF u = t THEN S ELSE {}
  BY DEF Out
<1>3. \A s \in buf[t] \cup S, x \in Logged : Level(x) <= Level(s)
  BY DEF Ordered
<1>4. \A s \in buf[t] \cup S, i \in 1..Len(log) : Level(log[i]) <= Level(s)
  BY <1>3 DEF Logged
<1>5. InOrder(log') /\ \A i \in 1..Len(log') :
        (\E j \in 1..Len(log) : log'[i] = log[j])
          \/ (buf'[t] = {} /\ log'[i] \in buf[t] \cup S)
  <2>1. CASE log' = log BY <2>1 DEF Ordered
  <2>2. CASE buf'[t] = {} /\ log' = Write(log, buf[t] \cup S)
    <3>1. buf[t] \cup S \in SUBSET Names OBVIOUS
    <3> QED BY <1>4, <2>2, <3>1, WriteKeepsOrder DEF Ordered
  <2> QED BY <2>1, <2>2 DEF Out
<1>6. \A x \in Logged' :
        x \in Logged \/ (buf'[t] = {} /\ x \in buf[t] \cup S)
  BY <1>5 DEF Logged
<1>7. \A u \in Threads : \A s \in buf'[u], x \in Logged' : Level(x) <= Level(s)
  <2> SUFFICES ASSUME NEW u \in Threads, NEW s \in buf'[u], NEW x \in Logged'
               PROVE  Level(x) <= Level(s)
    OBVIOUS
  <2>1. CASE x \in Logged BY <1>2, <1>3, <2>1 DEF Ordered
  <2>2. CASE u # t /\ x \in buf[t] \cup S
    <3>1. s \in buf[u] BY <1>2, <2>2
    <3>2. Level(s) = Level(x) BY <2>2, <3>1 DEF Ordered
    <3>3. Level(x) \in Int BY DEF Level
    <3> QED BY <3>2, <3>3
  <2> QED BY <1>6, <2>1, <2>2
<1>8. \A p, q \in Threads : p # q =>
        \A s \in buf'[p], x \in buf'[q] : Level(x) = Level(s)
  BY <1>2 DEF Ordered
<1>9. InOrder(log)' BY <1>1, <1>5 DEF InOrder
<1>10. Ordered' BY <1>1, <1>7, <1>8, <1>9 DEF Ordered
<1> QED BY <1>2, <1>6, <1>10

-----------------------------------------------------------------------------
(* A step in which t prints S: what it has to respect. *)
LEMMA OutStep ==
  ASSUME TypeInv, Ordered, Contents, build' = build, NEW t \in Threads,
         NEW S \in SUBSET Names, Out(t, S),
         \A s \in S : /\ \A x \in Logged : Level(x) <= Level(s)
                      /\ \A u \in Threads : u # t =>
                           \A x \in buf[u] : Level(x) = Level(s),
         t # Main => S \subseteq {"loop"},
         pc'[Main] \in Opening =>
           pc[Main] \in Opening /\ S \subseteq {"begin"}
             /\ \A w \in Workers : buf[w] = {},
         "begin" \in buf'[Main] => pc'[Main] \in Opening \/ Workers = {},
         pc[Main] \in {"last", "panicked"} => pc'[Main] = pc[Main],
         "end" \in S => pc'[Main] \in {"last", "panicked"} /\ (~Jit => Joined),
         Joined => Joined',
         \A w \in Workers : pc'[w] \in Emptied => buf'[w] = {},
         ~Jit /\ pc'[Main] \in {"end", "last"} => Joined
  PROVE  Ordered' /\ Contents'
<1> USE Shape
<1>1. /\ Ordered'
      /\ Logged' \subseteq Logged \cup buf[t] \cup S
      /\ \A u \in Threads : buf'[u] \subseteq buf[u] \cup IF u = t THEN S ELSE {}
  BY OutContents
<1>2. Jit' <=> Jit BY DEF Jit
<1>3. \A w \in Workers : buf'[w] \subseteq {"loop"}
  BY <1>1 DEF Contents
<1>4. Logged' \cup buf'[Main] \subseteq Logged \cup buf[Main] \cup buf[t] \cup S
  BY <1>1
<1>5. t # Main => buf[t] \subseteq {"loop"} BY DEF Contents
<1>6. pc'[Main] \in Opening => Logged' \cup buf'[Main] \subseteq {"begin"}
  BY <1>4 DEF Contents
<1>7. "end" \in Logged' \cup buf'[Main] =>
        pc'[Main] \in {"last", "panicked"} /\ (~Jit => Joined')
  BY <1>4, <1>5 DEF Contents
<1> QED BY <1>1, <1>2, <1>3, <1>6, <1>7 DEF Contents

LEMMA OutKinds ==
  ASSUME TypeInv, NEW t \in Threads
  PROVE  /\ Flush(t) => Out(t, {})
         /\ UNCHANGED <<buf, log>> => Out(t, {})
         /\ \A s : Emit(t, s) => Out(t, {s})
<1>1. buf[t] \cup {} = buf[t] OBVIOUS
<1>2. [buf EXCEPT ![t] = @ \cup {}] = buf BY Shape
<1> QED BY <1>1, <1>2 DEF Flush, Emit, Out

(* Before the workers start they have printed nothing. *)
LEMMA OpeningQuiet ==
  ASSUME TypeInv, StartInv, Contents, pc[Main] \in Opening
  PROVE  \A w \in Workers : pc[w] = "unborn" /\ buf[w] = {}
BY DEF StartInv, Places, Contents, Opening, Emptied

(* A step of the main thread that prints nothing. *)
LEMMA MainFrame ==
  ASSUME TypeInv, StartInv, Ordered, Contents, build' = build, Out(Main, {}),
         UNCHANGED pc \/ \E l : pc' = [pc EXCEPT ![Main] = l],
         pc'[Main] \in Opening => pc[Main] \in Opening,
         pc[Main] \in Opening => pc'[Main] \in Opening \/ Workers = {},
         pc[Main] \in {"last", "panicked"} => pc'[Main] = pc[Main],
         ~Jit /\ pc'[Main] \in {"end", "last"} => Joined
  PROVE  Ordered' /\ Contents'
<1> USE Shape
<1>1. \A w \in Workers : pc'[w] = pc[w] /\ buf'[w] = buf[w]
  BY DEF Out
<1>2. Joined => Joined' BY <1>1 DEF Joined
<1>3. pc'[Main] \in Opening => \A w \in Workers : buf[w] = {} BY OpeningQuiet
<1>4. "begin" \in buf'[Main] => pc'[Main] \in Opening \/ Workers = {}
  BY DEF Out, Contents
<1>5. \A w \in Workers : pc'[w] \in Emptied => buf'[w] = {}
  BY <1>1 DEF Contents
<1> QED BY <1>2, <1>3, <1>4, <1>5, OutStep

LEMMA MainKeepsOut ==
  ASSUME TypeInv, StartInv, Ordered, Contents, Running(MainStep)
  PROVE  Ordered' /\ Contents'
<1>1. MainStep /\ build' = build BY DEF Running
<1> USE <1>1, Shape DEF Goto, Opening
<1>2. Main \in Threads OBVIOUS
<1>3. CASE Begin
  <2>1. /\ pc[Main] = "begin" /\ Out(Main, {"begin"})
        /\ pc' = [pc EXCEPT ![Main] = AfterBegin]
        /\ AfterBegin \in Opening \/ (Workers = {} /\ AfterBegin = "enter")
    BY <1>3, OutKinds DEF Begin, AfterBegin
  <2>2. \A w \in Workers : pc'[w] = "unborn" /\ buf[w] = {} /\ buf'[w] = {}
    BY <2>1, OpeningQuiet DEF Out
  <2>3. \A x \in Logged : Level(x) <= Level("begin")
    BY <2>1 DEF Contents, Level
  <2>4. Joined => Joined' BY <2>1 DEF Joined
  <2>5. {"begin"} \in SUBSET Names BY DEF Names
  <2>6. pc'[Main] = AfterBegin BY <2>1
  <2>7. \A u \in Threads : u # Main => buf[u] = {} BY <2>2
  <2> QED BY <2>1, <2>2, <2>3, <2>4, <2>5, <2>6, <2>7, OutStep
<1>4. CASE Spawn
  <2>1. /\ pc[Main] = "flush" /\ Out(Main, {}) /\ buf'[Main] = {}
        /\ pc' = [t \in Threads |-> IF t = Main THEN "enter" ELSE "start"]
    BY <1>4, OutKinds DEF Spawn, Flush
  <2>2. \A w \in Workers : pc[w] = "unborn" /\ buf'[w] = {}
    BY <2>1, OpeningQuiet DEF Out
  <2>3. Joined => Joined' BY <2>2 DEF Joined
  <2>4. pc'[Main] = "enter" BY <2>1
  <2> QED BY <2>1, <2>2, <2>3, <2>4, OutStep
<1>5. CASE FlushFails
  <2>1. pc[Main] = "flush" /\ Out(Main, {}) /\ pc' = pc
    BY <1>5 DEF FlushFails, Out
  <2> QED BY <2>1, MainFrame
<1>6. CASE OwnResult \/ Receive \/ Received \/ Drain \/ Drained \/ Join
           \/ MainPanics \/ Return
  <2>1. /\ Flush(Main) \/ UNCHANGED <<buf, log>>
        /\ \/ UNCHANGED pc
           \/ pc[Main] = "recv" /\ pc' = [pc EXCEPT ![Main] = "join"]
           \/ pc[Main] = "recv" /\ Jit /\ pc' = [pc EXCEPT ![Main] = "end"]
           \/ pc[Main] = "join" /\ Joined /\ pc' = [pc EXCEPT ![Main] = "end"]
    BY <1>6 DEF OwnResult, Receive, Received, Drain, Drained, Join,
                MainPanics, Return, Exit, Abort
  <2>2. Out(Main, {}) BY <2>1, OutKinds
  <2>3. ~Jit /\ pc'[Main] \in {"end", "last"} => Joined
    BY <2>1 DEF Contents
  <2>4. UNCHANGED pc \/ \E l : pc' = [pc EXCEPT ![Main] = l] BY <2>1
  <2>5. /\ pc'[Main] \in Opening => pc[Main] \in Opening
        /\ pc[Main] \in Opening => pc'[Main] \in Opening \/ Workers = {}
        /\ pc[Main] \in {"last", "panicked"} => pc'[Main] = pc[Main]
    BY <2>1
  <2> QED BY <2>2, <2>3, <2>4, <2>5, MainFrame
<1>7. ASSUME \/ BeginFails \/ EndFails
             \/ \E c \in Codes : BeginExit(c) \/ EndExit(c)
      PROVE  Ordered' /\ Contents'
  <2>1. /\ Flush(Main) \/ UNCHANGED <<buf, log>>
        /\ \/ UNCHANGED pc
           \/ pc[Main] = "begin" /\ pc' = [pc EXCEPT ![Main] = AfterBegin]
    BY <1>7 DEF BeginFails, EndFails, FailStage, BeginExit, EndExit, ExitStage,
                Exit, Abort, AfterBegin
  <2>2. AfterBegin = "flush" \/ (Workers = {} /\ AfterBegin = "enter")
    BY DEF AfterBegin
  <2>3. Out(Main, {}) BY <2>1, OutKinds
  <2>4. ~Jit /\ pc'[Main] \in {"end", "last"} => Joined
    BY <2>1, <2>2 DEF Contents
  <2>5. UNCHANGED pc \/ \E l : pc' = [pc EXCEPT ![Main] = l] BY <2>1
  <2>6. /\ pc'[Main] \in Opening => pc[Main] \in Opening
        /\ pc[Main] \in Opening => pc'[Main] \in Opening \/ Workers = {}
        /\ pc[Main] \in {"last", "panicked"} => pc'[Main] = pc[Main]
    BY <2>1, <2>2
  <2> QED BY <2>3, <2>4, <2>5, <2>6, MainFrame
<1>8. CASE End
  <2>1. /\ pc[Main] = "end" /\ Out(Main, {"end"})
        /\ \E l \in {"last", "panicked"} : pc' = [pc EXCEPT ![Main] = l]
    BY <1>8, OutKinds DEF End
  <2>2. \A w \in Workers : pc'[w] = pc[w] /\ buf'[w] = buf[w]
    BY <2>1 DEF Out
  <2>3. /\ "begin" \in buf[Main] => Workers = {}
        /\ "begin" \in buf'[Main] => "begin" \in buf[Main]
    BY <2>1 DEF Contents, Out
  <2>4. ~Jit => Joined BY <2>1 DEF Contents
  <2>5. \A x \in Names : Level(x) <= Level("end") BY DEF Level
  <2>6. \A x \in Logged : Level(x) <= Level("end")
    BY <2>5 DEF Logged
  <2>7. \A u \in Threads : u # Main =>
          \A x \in buf[u] : Level(x) = Level("end")
    BY <2>4 DEF Contents, Joined, Emptied, Level
  <2>8. Joined => Joined' BY <2>2 DEF Joined
  <2>9. {"end"} \in SUBSET Names BY DEF Names
  <2>10. \A w \in Workers : pc'[w] \in Emptied => buf'[w] = {}
    BY <2>2 DEF Contents
  <2>11. pc'[Main] \in {"last", "panicked"} BY <2>1
  <2> HIDE DEF Opening
  <2>12. pc'[Main] \notin Opening BY <2>11 DEF Opening
  <2> QED BY <2>1, <2>3, <2>4, <2>6, <2>7, <2>8, <2>9, <2>10, <2>11, <2>12,
             OutStep
<1> QED BY <1>1, <1>3, <1>4, <1>5, <1>6, <1>7, <1>8 DEF MainStep

Active == {"start", "enter", "read", "get", "eof", "send", "drop"}

LEMMA ActiveShape ==
  ASSUME TypeInv, StartInv, NEW t \in Threads, pc[t] \in Active
  PROVE  /\ pc[Main] \notin Opening
         /\ t # Main => ~Joined
         /\ t = Main => pc[Main] \notin {"last", "panicked", "end"}
<1> USE Shape
<1>1. CASE t = Main BY <1>1 DEF Active, Opening, StartInv, Places
<1>2. CASE t # Main
  BY <1>2 DEF Active, Opening, StartInv, Places, Joined
<1> QED BY <1>1, <1>2

(* A step of the main loop, or of a worker around it, that prints nothing. *)
LEMMA ThreadFrame ==
  ASSUME TypeInv, StartInv, Ordered, Contents, build' = build,
         NEW t \in Threads, pc[t] \in Active, Out(t, {}),
         NEW l, l \notin Opening, l \notin {"end", "last"},
         UNCHANGED pc \/ pc' = [pc EXCEPT ![t] = l],
         t # Main /\ pc'[t] \in Emptied => buf'[t] = {}
  PROVE  Ordered' /\ Contents'
<1> USE Shape, ActiveShape
<1>1. \A u \in Threads : u # t => pc'[u] = pc[u] /\ buf'[u] = buf[u]
  BY DEF Out
<1>2. Joined => Joined'
  BY <1>1 DEF Joined
<1>3. pc'[Main] \notin Opening BY <1>1
<1>4. "begin" \in buf'[Main] => Workers = {}
  BY DEF Out, Contents
<1>5. \A w \in Workers : pc'[w] \in Emptied => buf'[w] = {}
  BY <1>1 DEF Contents
<1>6. pc[Main] \in {"last", "panicked"} => pc'[Main] = pc[Main] BY <1>1
<1>7. ~Jit /\ pc'[Main] \in {"end", "last"} => Joined BY <1>1 DEF Contents
<1> QED BY <1>2, <1>3, <1>4, <1>5, <1>6, <1>7, OutStep

LEMMA LoopKeepsOut ==
  ASSUME TypeInv, StartInv, Ordered, Contents, NEW t \in Threads,
         Running(LoopStep(t))
  PROVE  Ordered' /\ Contents'
<1>1. LoopStep(t) /\ build' = build BY DEF Running
<1> USE <1>1, Shape DEF Goto
<1>2. ASSUME NEW r \in Records, Process(t, r) PROVE Ordered' /\ Contents'
  <2>1. pc[t] = "read" /\ pc' = pc /\ Out(t, {"loop"})
    BY <1>2, OutKinds DEF Process, Take
  <2>2. \A u \in Threads : u # t => buf'[u] = buf[u] BY <2>1 DEF Out
  <2>3. /\ pc[Main] \notin Opening
        /\ t # Main => ~Joined
        /\ t = Main => pc[Main] \notin {"last", "panicked", "end"}
    BY <2>1, ActiveShape DEF Active
  <2>4. "begin" \in buf'[Main] => Workers = {}
    BY <2>1, <2>3 DEF Out, Contents
  <2>5. \A x \in Logged : Level(x) <= Level("loop")
    <3>1. Logged \subseteq Names BY DEF Logged
    <3>2. ~Jit => "end" \notin Logged BY <2>3 DEF Contents
    <3> QED BY <3>1, <3>2 DEF Level, Names
  <2>6. \A u \in Threads : u # t => \A x \in buf[u] : Level(x) = Level("loop")
    <3>1. \A u \in Workers : \A x \in buf[u] : x = "loop" BY DEF Contents
    <3>2. t # Main => "begin" \notin buf[Main] /\ (~Jit => "end" \notin buf[Main])
      BY <2>3 DEF Contents
    <3>3. t # Main => \A x \in buf[Main] : Level(x) = Level("loop")
      BY <3>2 DEF Level, Names
    <3> QED BY <3>1, <3>3
  <2>7. \A w \in Workers : pc'[w] \in Emptied => buf'[w] = {}
    BY <2>1, <2>2 DEF Contents, Emptied
  <2>8. {"loop"} \in SUBSET Names /\ "end" \notin {"loop"} BY DEF Names
  <2>9. ~Jit /\ pc[Main] \in {"end", "last"} => Joined BY DEF Contents
  <2>10. Joined => Joined' BY <2>1 DEF Joined
  <2> QED BY <2>1, <2>3, <2>4, <2>5, <2>6, <2>7, <2>8, <2>9, <2>10, OutStep
<1>3. CASE Enter(t) \/ Check(t) \/ Get(t) \/ Finish(t)
  <2>1. /\ pc[t] \in Active /\ UNCHANGED <<buf, log>>
        /\ \E l \in {"read", "panicked", "get", "eof", "recv", "send"} :
             pc' = [pc EXCEPT ![t] = l] /\ (l = "panicked" => pc[t] = "enter")
    BY <1>3 DEF Enter, Check, Get, Finish, AfterLoop, Active
  <2>2. Out(t, {}) BY <2>1, OutKinds
  <2>3. t # Main /\ pc'[t] \in Emptied => buf'[t] = {}
    BY <2>1 DEF Contents, Emptied
  <2>4. \A l \in {"read", "panicked", "get", "eof", "recv", "send"} :
          l \notin Opening /\ l \notin {"end", "last"}
    BY DEF Opening
  <2> QED BY <1>1, <2>1, <2>2, <2>3, <2>4, ThreadFrame
<1>4. ASSUME NEW r \in Records, NEW c, Take(t, r), LeaveLoop(t, c)
      PROVE  Ordered' /\ Contents'
  <2>1. pc[t] = "read" /\ pc[t] \in Active BY <1>4 DEF Take, Active
  <2>2. /\ (t = Main /\ Flush(Main)) \/ UNCHANGED <<buf, log>>
        /\ \/ UNCHANGED pc
           \/ \E l \in {"recv", "send", "drain"} : pc' = [pc EXCEPT ![t] = l]
    BY <1>4 DEF LeaveLoop, Exit, AfterLoop
  <2>3. Out(t, {}) BY <2>2, OutKinds
  <2>4. pc'[t] \notin Emptied BY <2>1, <2>2 DEF Emptied
  <2>5. \A l \in {"recv", "send", "drain"} :
          l \notin Opening /\ l \notin {"end", "last"}
    BY DEF Opening
  <2> QED BY <1>1, <2>1, <2>2, <2>3, <2>4, <2>5, ThreadFrame
<1> QED BY <1>1, <1>2, <1>3, <1>4 DEF LoopStep, LoopFails, LoopExit

LEMMA WorkerKeepsOut ==
  ASSUME TypeInv, StartInv, Ordered, Contents, NEW w \in Workers,
         Running(Start(w) \/ SendResult(w) \/ DropCore(w))
  PROVE  Ordered' /\ Contents'
<1>1. (Start(w) \/ SendResult(w) \/ DropCore(w)) /\ build' = build
  BY DEF Running
<1> USE <1>1, Shape DEF Goto
<1>2. /\ pc[w] \in {"start", "send", "drop"}
      /\ Out(w, {}) /\ (pc[w] = "drop" => buf'[w] = {}) /\ (pc[w] = "start" => buf' = buf)
      /\ \E l \in {"enter", "gone", "drop", "blocked"} :
           pc' = [pc EXCEPT ![w] = l] /\ (pc[w] = "send" => l = "drop")
  BY OutKinds DEF Start, SendResult, DropCore, Flush
<1>3. w # Main /\ pc'[w] \in Emptied => buf'[w] = {}
  BY <1>2 DEF Contents, Emptied
<1>4. \A l \in {"enter", "gone", "drop", "blocked"} :
        l \notin Opening /\ l \notin {"end", "last"}
  BY DEF Opening
<1>5. pc[w] \in Active BY <1>2 DEF Active
<1> QED BY <1>1, <1>2, <1>3, <1>4, <1>5, ThreadFrame

-----------------------------------------------------------------------------
(* NothingUnflushed: whoever ends the process, no worker is left with output
   unless exit was called in a compiled program.  *)
LEMMA StepFlushes ==
  ASSUME TypeInv, StartInv, CodeInv, Contents, NothingUnflushed, Next
  PROVE  NothingUnflushed'
<1> USE Shape
<1>1. CASE proc # "running"
  BY <1>1 DEF Next, MainThread, Worker, Running, Gone, vars, NothingUnflushed, Jit
<1>2. CASE proc = "running" /\ proc' = "running" BY <1>2 DEF NothingUnflushed
<1>3. CASE proc = "running" /\ proc' # "running"
  <2> SUFFICES ASSUME proc' = "exited", Jit' => calls' = {}
               PROVE  \A t \in Threads : buf'[t] = {}
    BY DEF NothingUnflushed
  <2>1. build' = build /\ calls \subseteq calls'
    BY <1>3 DEF Next, MainThread, Worker, Running, Gone, MainStep, LoopStep,
      WorkerStep, Begin, BeginFails, Spawn, FlushFails, OwnResult, Receive,
      Received, Drain, Drained, Join, MainPanics, End, EndFails, Return,
      BeginExit, EndExit, Enter, Check, Get, Finish, Process, LoopFails,
      LoopExit, Start, SendResult, DropCore, Calls, FailStage, ExitStage
  <2>2. Jit => calls = {} /\ calls' = {} BY <2>1 DEF Jit
  <2>3. ASSUME \A w \in Workers : buf[w] = {},
               Flush(Main) \/ buf' = [buf EXCEPT ![Main] = {}]
        PROVE  \A t \in Threads : buf'[t] = {}
    BY <2>3 DEF Flush
  <2>4. pc[Main] \in Opening => \A w \in Workers : buf[w] = {}
    BY OpeningQuiet
  <2>5. Joined => \A w \in Workers : buf[w] = {}
    BY DEF Joined, Contents, Emptied
  <2>6. CASE MainStep
    <3>1. CASE FlushFails BY <2>3, <2>4, <3>1 DEF FlushFails, Opening
    <3>2. CASE BeginFails \/ EndFails
      BY <1>3, <2>2, <3>2 DEF BeginFails, EndFails, FailStage, Calls, Abort
    <3>3. CASE Received
      BY <1>3, <2>2, <3>3 DEF Received, GoesOn, CodeInv, Known
    <3>4. CASE Drained
      BY <2>2, <3>4 DEF Drained, CodeInv, Known
    <3>5. CASE Join \/ MainPanics \/ Return
      <4>1. Joined /\ Flush(Main)
        BY <1>3, <3>5 DEF Join, MainPanics, Return, Exit, Abort, GoesOn
      <4> QED BY <2>3, <2>5, <4>1
    <3>6. ASSUME NEW c \in Codes, BeginExit(c) PROVE \A t \in Threads : buf'[t] = {}
      <4>1. pc[Main] \in Opening /\ Flush(Main)
        BY <1>3, <3>6 DEF BeginExit, ExitStage, Exit, GoesOn, AfterBegin, Opening
      <4> QED BY <2>3, <2>4, <4>1
    <3>7. ASSUME NEW c \in Codes, EndExit(c) PROVE \A t \in Threads : buf'[t] = {}
      <4>1. pc[Main] = "last" /\ Flush(Main) /\ ~Jit
        BY <1>3, <2>2, <3>7 DEF EndExit, ExitStage, Exit, GoesOn, Calls
      <4>2. Joined BY <4>1 DEF Contents
      <4> QED BY <2>3, <2>5, <4>1, <4>2
    <3>8. ~(Begin \/ Spawn \/ OwnResult \/ Receive \/ Drain \/ End)
      BY <1>3 DEF Begin, Spawn, OwnResult, Receive, Drain, End, GoesOn
    <3> QED BY <2>6, <3>1, <3>2, <3>3, <3>4, <3>5, <3>6, <3>7, <3>8
            DEF MainStep
  <2>7. ASSUME NEW t \in Threads, LoopStep(t) PROVE FALSE
    <3>1. ~(Enter(t) \/ Check(t) \/ Get(t) \/ Finish(t)
              \/ \E r \in Records : Process(t, r))
      BY <1>3 DEF Enter, Check, Get, Finish, Process, GoesOn
    <3>2. ASSUME NEW r \in Records, NEW c, LeaveLoop(t, c), Jit => Calls(c)
          PROVE  FALSE
      BY <1>3, <2>2, <3>2 DEF LeaveLoop, GoesOn, Calls
    <3> QED BY <2>7, <3>1, <3>2 DEF LoopStep, LoopFails, LoopExit
  <2>8. ASSUME NEW w \in Workers PROVE ~(Start(w) \/ SendResult(w) \/ DropCore(w))
    BY <1>3 DEF Start, SendResult, DropCore, GoesOn
  <2> QED BY <1>3, <2>6, <2>7, <2>8
          DEF Next, MainThread, Worker, WorkerStep, Running, Gone, Threads, vars
<1> QED BY <1>1, <1>2, <1>3

LEMMA UnchangedOut == OutInv /\ UNCHANGED vars => OutInv'
<1> SUFFICES ASSUME OutInv, UNCHANGED vars PROVE OutInv' OBVIOUS
<1> USE DEF vars
<1>1. \A s : Level(s)' = Level(s) BY DEF Level, Jit
<1>2. Logged' = Logged BY DEF Logged
<1>3. Ordered' BY <1>1, <1>2 DEF OutInv, Ordered, InOrder
<1>4. Contents' BY <1>2 DEF OutInv, Contents, Joined, Jit
<1>5. NothingUnflushed' BY DEF OutInv, NothingUnflushed, Jit
<1> QED BY <1>3, <1>4, <1>5 DEF OutInv

(* What is in the buffers and in the log is known at any time (Core::drop,
   flush_stdout, the joins at the end of run_parallel's scope).  *)
THEOREM OutInvariance == Spec => []OutInv
<1>1. Init => OutInv
  BY ConstantsOK
  DEF Init, OutInv, Ordered, InOrder, Contents, NothingUnflushed, Logged, Threads
<1>2. TypeInv /\ StartInv /\ CodeInv /\ OutInv /\ [Next]_vars => OutInv'
  <2> SUFFICES ASSUME TypeInv, StartInv, CodeInv, OutInv, Next PROVE OutInv'
    BY UnchangedOut
  <2>1. NothingUnflushed' BY StepFlushes DEF OutInv
  <2>2. Main \in Threads /\ \A w \in Workers : w \in Threads BY Shape
  <2>3. CASE MainThread
    <3>1. Running(MainStep) \/ Running(LoopStep(Main))
      BY <2>3 DEF MainThread, Running
    <3> QED BY <2>1, <2>2, <3>1, MainKeepsOut, LoopKeepsOut DEF OutInv
  <2>4. ASSUME NEW w \in Workers, Worker(w) PROVE OutInv'
    <3>1. \/ Running(Start(w) \/ SendResult(w) \/ DropCore(w))
          \/ Running(LoopStep(w))
      BY <2>4 DEF Worker, WorkerStep, Running
    <3> QED BY <2>1, <2>2, <3>1, WorkerKeepsOut, LoopKeepsOut DEF OutInv
  <2>5. CASE UNCHANGED vars BY <2>5, UnchangedOut
  <2> QED BY <2>3, <2>4, <2>5 DEF Next, Gone
<1> QED BY <1>1, <1>2, CodeInvariance, PTL DEF Spec

(* NothingUnflushed: what any thread printed is in the file when the process
   ends, for any number of workers, unless a compiled program was left by
   exit.  *)
THEOREM AllWritten == Spec => []NothingUnflushed
<1>1. OutInv => NothingUnflushed BY DEF OutInv
<1> QED BY <1>1, OutInvariance, PTL

LEMMA RankIs == Rank("begin") = 1 /\ Rank("loop") = 2 /\ Rank("end") = 3
BY DEF Rank, Stages

(* OutputInStageOrder: the output of BEGIN comes first, and the interpreter's
   END prints after every worker, for any number of workers.  *)
THEOREM StageOrder == Spec => []OutputInStageOrder
<1>1. TypeInv /\ OutInv => OutputInStageOrder
  <2> SUFFICES ASSUME TypeInv, OutInv, NEW i \in 1..Len(log),
                      NEW j \in 1..Len(log), i < j
               PROVE  /\ log[j] = "begin" => log[i] = "begin"
                      /\ ~Jit => Rank(log[i]) <= Rank(log[j])
    BY DEF OutputInStageOrder
  <2>1. Level(log[i]) <= Level(log[j]) BY DEF OutInv, Ordered, InOrder
  <2>2. log[i] \in Names /\ log[j] \in Names BY Shape
  <2> QED BY <2>1, <2>2, RankIs DEF Level, Names
<1>2. Spec => []TypeInv BY TypeInvariance
<1> QED BY <1>1, <1>2, OutInvariance, PTL
=============================================================================
