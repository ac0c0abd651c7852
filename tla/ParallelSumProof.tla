-------------------------- MODULE ParallelSumProof --------------------------
(****************************************************************************)
(* The aggregation, for every script, input and number of workers: END      *)
(* finds every record counted exactly once.  A record is in one place at a  *)
(* time (CountInv), it is somewhere as long as no stage was cut short, and  *)
(* nobody leaves the loop before the input is at its end (PlaceInv); what   *)
(* the slots and registers hold is what nr counts (Matching).  From there,  *)
(* every step is one that SerialRun allows (StepSimulates).                 *)
(****************************************************************************)
EXTENDS ParallelExitProof

(* A thread whose nr is still to be added up. *)
Counted(t) == t = Main \/ pc[t] \in {"unborn", "start", "enter", "send"} \cup Looping

Unread(r) == \E c \in unread : r \in c
Has(t, r) == Counted(t) /\ nr[t][r] = 1
Sent == 1..Len(results)

BeforeLoop == {"begin", "flush", "unborn", "start", "enter"}

(* Nobody has counted a record before its loop, and nobody counts one twice. *)
Bits ==
  /\ \A t \in Threads, r \in Records : nr[t][r] \in {0, 1}
  /\ \A t \in Threads :
       pc[t] \in BeforeLoop =>
         held[t] = {} /\ \A r \in Records : nr[t][r] = 0
  /\ \A i \in Sent, r \in Records : results[i].nr[r] \in {0, 1}

(* A record is in one place only: unread, with a thread that has still to
   process it, with a thread or in a result that has counted it.  *)
Apart ==
  \A r \in Records :
    /\ Unread(r) => /\ \A t \in Threads : r \notin held[t] /\ ~Has(t, r)
                    /\ \A i \in Sent : results[i].nr[r] = 0
    /\ \A t \in Threads : r \in held[t] =>
         /\ \A u \in Threads : (r \in held[u] => u = t) /\ ~Has(u, r)
         /\ \A i \in Sent : results[i].nr[r] = 0
    /\ \A t \in Threads : Has(t, r) =>
         /\ \A u \in Threads : Has(u, r) => u = t
         /\ \A i \in Sent : results[i].nr[r] = 0
    /\ \A i, j \in Sent : results[i].nr[r] = 1 /\ results[j].nr[r] = 1 => i = j

(* ... and, as long as no stage is cut short, it is in one. *)
Somewhere ==
  Quiet => \A r \in Records :
    \/ Unread(r)
    \/ \E t \in Threads : r \in held[t] \/ Has(t, r)
    \/ \E i \in Sent : results[i].nr[r] = 1

(* A thread leaves its loop with nothing to do, at the end of the input. *)
Done ==
  Quiet => \A t \in Threads :
    /\ pc[t] # "read" => held[t] = {}
    /\ pc[t] \in {"eof", "send", "recv", "join", "end"} => unread = {}

(* Only BEGIN adds First, and only on the main thread. *)
FirstOnce ==
  /\ calls = {} => nr[Main][First] = IF pc[Main] = "begin" THEN 0 ELSE 1
  /\ \A w \in Workers : nr[w][First] = 0
  /\ \A i \in Sent : results[i].nr[First] = 0

(* A variable of the loop and of END counts what nr counts, wherever it is. *)
Same(s, n) ==
  \A v \in In("loop") \cap In("end") :
    v \in DOMAIN s /\ \A r \in Records : s[v][r] = n[r]
Matching ==
  Quiet =>
    /\ \A t \in Threads : pc[t] \in Looping => Same(regs[t], nr[t])
    /\ \A t \in Threads :
         pc[t] \in {"send", "recv", "join", "end"} => Same(slots[t], nr[t])
    /\ \A i \in Sent : Same(results[i].slots, results[i].nr)

EndedAt == seen # << >> => pc[Main] = "last"

CountInv == Bits /\ Apart
PlaceInv == Somewhere /\ Done

LEMMA SumShape ==
  ASSUME TypeInv, StartInv
  PROVE  /\ pc \in [Threads -> Labels] /\ held \in [Threads -> SUBSET Records]
         /\ nr \in [Threads -> Value] /\ unread \subseteq Chunks
         /\ DOMAIN slots = Threads /\ DOMAIN regs = Threads
         /\ Main \in Threads /\ \A w \in Workers : w \in Threads /\ w # Main
         /\ First \notin Records
         /\ \A w \in Workers : pc[w] = "unborn" <=> pc[Main] \in {"begin", "flush"}
BY ConstantsOK DEF TypeInv, TypeOK, Labels, Threads, StartInv, Places

LEMMA InitCount == Init => CountInv
BY ConstantsOK
DEF Init, CountInv, Bits, Apart, Threads, Unread, Has, Sent, Zero, Records

(* Steps that move no record, but may drop some. *)
LEMMA CountFrame ==
  ASSUME CountInv, UNCHANGED <<nr, unread, results>>,
         \A t \in Threads : held'[t] \subseteq held[t],
         \A t \in Threads : pc'[t] \in BeforeLoop => pc[t] \in BeforeLoop,
         \A t \in Threads : Counted(t)' => Counted(t)
  PROVE  CountInv'
<1>1. \A t \in Threads, r \in Records : Has(t, r)' => Has(t, r) BY DEF Has
<1>2. \A r \in Records : Unread(r)' <=> Unread(r) BY DEF Unread
<1>3. Bits' BY DEF CountInv, Bits, Sent
<1>4. Apart' BY <1>1, <1>2 DEF CountInv, Apart, Sent
<1> QED BY <1>3, <1>4 DEF CountInv

LEMMA QueueHead ==
  ASSUME Queue, results # << >>, results' = Tail(results)
  PROVE  /\ 1 \in Sent /\ Head(results) = results[1]
         /\ \A i \in Sent' : i + 1 \in Sent /\ i + 1 # 1 /\ results'[i] = results[i + 1]
         /\ \A i, j \in Sent' : i + 1 = j + 1 => i = j
<1>1. PICK S : results \in Seq(S) BY DEF Queue
<1> QED BY <1>1 DEF Sent

(* The main thread takes a result, and adds it to its own or drops it. *)
LEMMA ReceiveKeepsCount ==
  ASSUME TypeInv, CountInv, results # << >>, results' = Tail(results),
         UNCHANGED <<unread, held>>,
         nr'[Main] \in {nr[Main], Agg(nr[Main], Head(results).nr)},
         \A w \in Workers : nr'[w] = nr[w],
         \A t \in Threads : Counted(t)' => Counted(t),
         \A t \in Threads :
           pc'[t] \in BeforeLoop => pc[t] \in BeforeLoop /\ t # Main
  PROVE  CountInv'
<1> DEFINE n(i, r) == results[i].nr[r]
           m(i, r) == results'[i].nr[r]
           old(i) == i + 1
<1>1. 1 \in Sent /\ Head(results) = results[1] BY QueueHead DEF TypeInv
<1>2. \A i \in Sent', r \in Records :
        old(i) \in Sent /\ old(i) # 1 /\ m(i, r) = n(old(i), r)
  BY QueueHead DEF TypeInv
<1>3. \A i, j \in Sent' : old(i) = old(j) => i = j BY QueueHead DEF TypeInv
<1>4. \A i \in Sent, r \in Records : n(i, r) \in {0, 1} BY DEF CountInv, Bits
<1>5. \A i, j \in Sent, r \in Records : n(i, r) = 1 /\ n(j, r) = 1 => i = j
  BY DEF CountInv, Apart
<1>6. \A r \in Records : Unread(r) \/ (\E t \in Threads : r \in held[t] \/ Has(t, r))
        => \A i \in Sent : n(i, r) = 0
  BY DEF CountInv, Apart
<1>7. Main \in Threads /\ Counted(Main) /\ \A t \in Threads : t = Main \/ t \in Workers
  BY DEF Threads, Counted
<1>8. \A r \in Records : nr'[Main][r] \in {nr[Main][r], nr[Main][r] + n(1, r)}
  BY <1>1 DEF Agg
<1>9. \A r \in Records : nr[Main][r] \in {0, 1} /\ (nr[Main][r] = 1 => n(1, r) = 0)
  BY <1>1, <1>6, <1>7 DEF CountInv, Bits, Has
<1> HIDE DEF n, m, old
<1>10. \A r \in Records :
         /\ nr'[Main][r] \in {0, 1}
         /\ nr'[Main][r] = 1 => nr[Main][r] = 1 \/ n(1, r) = 1
  BY <1>1, <1>4, <1>8, <1>9
<1>11. \A t \in Threads, r \in Records :
         Has(t, r)' => Has(t, r) \/ (t = Main /\ n(1, r) = 1)
  BY <1>7, <1>10 DEF Has
<1>12. \A r \in Records : Unread(r)' <=> Unread(r) BY DEF Unread
<1>13. \A r \in Records : n(1, r) = 1 => \A i \in Sent' : m(i, r) = 0
  BY <1>1, <1>2, <1>4, <1>5
<1>14. \A r \in Records : Unread(r) \/ (\E t \in Threads : r \in held[t] \/ Has(t, r))
         => n(1, r) = 0 /\ \A i \in Sent' : m(i, r) = 0
  BY <1>1, <1>2, <1>6
<1>15. \A i, j \in Sent', r \in Records : m(i, r) = 1 /\ m(j, r) = 1 => i = j
  BY <1>2, <1>3, <1>5
<1>16. Bits'
  <2> USE DEF m
  <2>1. \A i \in Sent', r \in Records : m(i, r) \in {0, 1} BY <1>2, <1>4
  <2>2. \A t \in Threads, r \in Records : nr'[t][r] \in {0, 1}
    BY <1>7, <1>10 DEF CountInv, Bits
  <2>3. \A t \in Threads : pc'[t] \in BeforeLoop =>
          held'[t] = {} /\ \A r \in Records : nr'[t][r] = 0
    BY <1>7 DEF CountInv, Bits
  <2> QED BY <2>1, <2>2, <2>3 DEF Bits
<1>17. Apart'
  <2>1. \A r \in Records :
          /\ Unread(r) => \A t \in Threads : r \notin held[t] /\ ~Has(t, r)
          /\ \A p, q \in Threads : r \in held[p] =>
               (r \in held[q] => q = p) /\ ~Has(q, r)
          /\ \A p, q \in Threads : Has(p, r) /\ Has(q, r) => p = q
    BY DEF CountInv, Apart
  <2>2. \A r \in Records : Unread(r)' => \A t \in Threads : r \notin held'[t] /\ ~Has(t, r)'
    BY <1>11, <1>12, <1>14, <2>1
  <2>3. \A r \in Records : \A t, u \in Threads : r \in held'[t] =>
          (r \in held'[u] => u = t) /\ ~Has(u, r)'
    BY <1>11, <1>14, <2>1
  <2>4. \A r \in Records : \A t, u \in Threads : Has(t, r)' /\ Has(u, r)' => t = u
    BY <1>11, <1>14, <2>1
  <2>5. \A r \in Records :
          Unread(r)' \/ (\E t \in Threads : r \in held'[t] \/ Has(t, r)')
            => \A i \in Sent' : m(i, r) = 0
    BY <1>11, <1>12, <1>13, <1>14
  <2> USE DEF m
  <2> QED BY <1>15, <2>2, <2>3, <2>4, <2>5 DEF Apart
<1> QED BY <1>16, <1>17 DEF CountInv

LEMMA MainKeepsCount ==
  ASSUME TypeInv, StartInv, CountInv, Running(MainStep)
  PROVE  CountInv'
<1>1. MainStep /\ build' = build BY DEF Running
<1> USE SumShape DEF Goto, Counted, Input, Data, Ending, BeforeLoop, Looping, Labels
<1>3. CASE Begin
  <2>1. \A t \in Threads, r \in Records : nr'[t][r] = nr[t][r]
    BY <1>3 DEF Begin, Add, Value
  <2>2. UNCHANGED <<unread, held, results>> /\ pc[Main] = "begin"
        /\ pc' = [pc EXCEPT ![Main] = AfterBegin] /\ AfterBegin \in {"enter", "flush"}
    BY <1>3 DEF Begin, AfterBegin
  <2>3. \A t \in Threads, r \in Records : Has(t, r)' <=> Has(t, r)
    BY <2>1, <2>2 DEF Has
  <2>4. Bits' BY <2>1, <2>2 DEF CountInv, Bits, Sent
  <2>5. Apart' BY <2>1, <2>2, <2>3 DEF CountInv, Apart, Sent, Unread
  <2> QED BY <2>4, <2>5 DEF CountInv
<1>4. CASE BeginFails \/ EndFails
  BY <1>4, CountFrame DEF BeginFails, EndFails, FailStage
<1>5. CASE Spawn BY <1>5, CountFrame DEF Spawn, Threads
<1>6. CASE FlushFails \/ OwnResult \/ Received \/ Drained \/ Join \/ MainPanics
           \/ End \/ Return
  BY <1>6, CountFrame DEF FlushFails, OwnResult, Received, Drained, Join,
     MainPanics, End, Return
<1>7. ASSUME NEW c \in Codes, BeginExit(c) \/ EndExit(c) PROVE CountInv'
  BY <1>7, CountFrame DEF BeginExit, EndExit, ExitStage, AfterBegin
<1>8. CASE Receive \/ Drain
  <2>1. /\ results # << >> /\ results' = Tail(results) /\ UNCHANGED <<unread, held>>
        /\ pc[Main] \in {"recv", "drain"}
        /\ UNCHANGED pc \/ pc' = [pc EXCEPT ![Main] = "join"]
        /\ nr' = nr \/ nr' = [nr EXCEPT ![Main] = Agg(@, Head(results).nr)]
    BY <1>8 DEF Receive, Drain
  <2>2. nr'[Main] \in {nr[Main], Agg(nr[Main], Head(results).nr)}
        /\ \A w \in Workers : nr'[w] = nr[w]
    BY <2>1
  <2>3. \A t \in Threads : Counted(t)' => Counted(t) BY <2>1
  <2>4. \A t \in Threads :
          pc'[t] \in BeforeLoop => pc[t] \in BeforeLoop /\ t # Main
    BY <2>1
  <2> HIDE SumShape DEF Counted, BeforeLoop
  <2> QED BY <2>1, <2>2, <2>3, <2>4, ReceiveKeepsCount
<1> QED BY <1>1, <1>3, <1>4, <1>5, <1>6, <1>7, <1>8 DEF MainStep

LEMMA LoopKeepsCount ==
  ASSUME TypeInv, StartInv, CountInv, NEW t \in Threads, Running(LoopStep(t))
  PROVE  CountInv'
<1>1. LoopStep(t) /\ build' = build BY DEF Running
<1> USE SumShape DEF Goto, Counted, Input, Data, Ending, BeforeLoop, Looping, Labels
<1>2. CASE Enter(t) BY <1>2, CountFrame DEF Enter
<1>3. CASE Check(t) BY <1>3, CountFrame DEF Check
<1>4. CASE Finish(t) BY <1>4, CountFrame DEF Finish, AfterLoop
<1>5. ASSUME NEW r \in Records, NEW c, Take(t, r), LeaveLoop(t, c), UNCHANGED Data
      PROVE  CountInv'
  BY <1>5, CountFrame DEF Take, LeaveLoop, AfterLoop
<1>6. CASE Get(t)
  <2>1. CASE unread = {} /\ UNCHANGED <<held, unread>>
    BY <1>6, <2>1, CountFrame DEF Get
  <2>2. ASSUME NEW chunk \in unread, unread' = unread \ {chunk},
               held' = [held EXCEPT ![t] = chunk]
        PROVE  CountInv'
    <3>1. pc[t] = "get" /\ pc'[t] \in {"eof", "read"} /\ UNCHANGED <<nr, results>>
          /\ \A u \in Threads : u # t => pc'[u] = pc[u]
      BY <1>6 DEF Get
    <3>2. \A r \in Records : r \in chunk => Unread(r) /\ ~Unread(r)'
      BY <2>2, ConstantsOK DEF Unread
    <3>3. \A r \in Records : Unread(r)' => Unread(r) /\ r \notin chunk
      BY <2>2, <3>2 DEF Unread
    <3>4. \A u \in Threads, r \in Records : Has(u, r)' <=> Has(u, r)
      BY <3>1 DEF Has
    <3>5. \A u \in Threads : held'[u] = IF u = t THEN chunk ELSE held[u] BY <2>2
    <3>6. Bits' BY <3>1, <3>5 DEF CountInv, Bits, Sent
    <3>7. Apart' BY <3>1, <3>2, <3>3, <3>4, <3>5 DEF CountInv, Apart, Sent
    <3> QED BY <3>6, <3>7 DEF CountInv
  <2> QED BY <1>6, <2>1, <2>2 DEF Get
<1>7. ASSUME NEW r \in Records, Process(t, r) PROVE CountInv'
  <2>1. /\ r \in held[t] /\ pc[t] = "read" /\ UNCHANGED <<pc, unread, results>>
        /\ held' = [held EXCEPT ![t] = held[t] \ {r}]
        /\ nr' = [nr EXCEPT ![t] = Add(@, r)]
    BY <1>7 DEF Process, Take
  <2>2. \A i \in Sent : results[i].nr[r] = 0 BY <2>1 DEF CountInv, Apart
  <2>3. \A u \in Threads : ~Has(u, r) /\ (r \in held[u] => u = t)
    BY <2>1 DEF CountInv, Apart
  <2>4. nr[t][r] = 0 BY <2>1, <2>3 DEF CountInv, Bits, Has
  <2>5. \A u \in Threads, k \in Records :
           nr'[u][k] = IF u = t /\ k = r THEN 1 ELSE nr[u][k]
    BY <2>1, <2>4 DEF Add, Value
  <2>6. \A u \in Threads, k \in Records :
           Has(u, k)' <=> IF k = r THEN u = t ELSE Has(u, k)
    BY <2>1, <2>3, <2>5 DEF Has
  <2>7. ~Unread(r) /\ \A k \in Records : Unread(k)' <=> Unread(k)
    BY <2>1 DEF CountInv, Apart, Unread
  <2>8. \A u \in Threads, k \in Records :
           k \in held'[u] <=> k \in held[u] /\ k # r
    BY <2>1, <2>3
  <2>9. Bits' BY <2>1, <2>5 DEF CountInv, Bits, Sent
  <2>10. Apart'
    BY <2>1, <2>2, <2>6, <2>7, <2>8 DEF CountInv, Apart, Sent
  <2> QED BY <2>9, <2>10 DEF CountInv
<1> QED BY <1>1, <1>2, <1>3, <1>4, <1>5, <1>6, <1>7
        DEF LoopStep, LoopFails, LoopExit

LEMMA WorkerKeepsCount ==
  ASSUME TypeInv, StartInv, CountInv, NEW w \in Workers,
         Running(Start(w) \/ SendResult(w) \/ DropCore(w))
  PROVE  CountInv'
<1>1. (Start(w) \/ SendResult(w) \/ DropCore(w)) /\ build' = build
  BY DEF Running
<1> USE SumShape DEF Goto, Counted, Input, Data, Ending, BeforeLoop, Looping, Labels
<1>2. CASE Start(w) BY <1>2, CountFrame DEF Start
<1>3. CASE DropCore(w) BY <1>3, CountFrame DEF DropCore
<1>4. CASE SendResult(w)
  <2>1. /\ UNCHANGED <<nr, held, unread>> /\ pc[w] = "send"
        /\ pc' = [pc EXCEPT ![w] = "drop"]
    BY <1>4 DEF SendResult
  <2>2. /\ Len(results') = Len(results) + 1 /\ Len(results) \in Nat
        /\ \A i \in 1..Len(results) : results'[i] = results[i]
        /\ results'[Len(results) + 1] = Result(w)
    BY <1>4, QueueAppend DEF SendResult, TypeInv
  <2>3. \A i \in Sent' :
          \/ i \in Sent /\ results'[i].nr = results[i].nr
          \/ i = Len(results) + 1 /\ results'[i].nr = nr[w]
    <3>1. Result(w).nr = nr[w] BY DEF Result
    <3>2. \A i \in Sent' : i \in 1..Len(results) \/ i = Len(results) + 1
      BY <2>2 DEF Sent
    <3> QED BY <2>2, <3>1, <3>2 DEF Sent
  <2>4. \A u \in Threads, r \in Records : Has(u, r)' <=> u # w /\ Has(u, r)
    BY <2>1 DEF Has
  <2>5. \A r \in Records : nr[w][r] # 0 => Has(w, r)
    BY <2>1 DEF CountInv, Bits, Has
  <2>6. Bits' BY <2>1, <2>3 DEF CountInv, Bits
  <2>7. Apart' BY <2>1, <2>3, <2>4, <2>5 DEF CountInv, Apart, Unread
  <2> QED BY <2>6, <2>7 DEF CountInv
<1> QED BY <1>1, <1>2, <1>3, <1>4

(* A record is unread, with a thread or in a result, and in one of them only
   (ParallelChunkProducer, StageResult).  *)
THEOREM CountInvariance == Spec => [](TypeInv /\ StartInv /\ CountInv)
<1>1. TypeInv /\ StartInv /\ CountInv /\ [Next]_vars => CountInv'
  <2> SUFFICES ASSUME TypeInv, StartInv, CountInv, [Next]_vars PROVE CountInv'
    OBVIOUS
  <2>1. CASE MainThread
    BY <2>1, MainKeepsCount, LoopKeepsCount DEF MainThread, Running, Threads
  <2>2. ASSUME NEW w \in Workers, Worker(w) PROVE CountInv'
    BY <2>2, WorkerKeepsCount, LoopKeepsCount
    DEF Worker, WorkerStep, Running, Threads
  <2>3. CASE UNCHANGED vars BY <2>3, CountFrame DEF vars, Counted
  <2> QED BY <2>1, <2>2, <2>3 DEF Next, Gone
<1> QED BY <1>1, InitCount, StartInvariance, PTL DEF Spec

-----------------------------------------------------------------------------
AllInv == TypeInv /\ StartInv /\ CodeInv /\ PanicInv /\ CountInv

(* What cuts a stage short is known: a code is on its way, or was reported. *)
LEMMA QuietShape ==
  ASSUME AllInv, Quiet
  PROVE  /\ calls = {} /\ cancel = NoCode /\ rc = 0 /\ pc[Main] # "drain"
         /\ pc[Main] = "recv" => code[Main] \in {0, NoCode}
<1>1. calls = {} /\ (Jit \/ ~Pending) BY DEF Quiet
<1>2. cancel = NoCode BY <1>1 DEF AllInv, CodeInv, Known
<1>3. pc[Main] # "drain" BY <1>1 DEF AllInv, CodeInv, Known
<1>4. rc = 0 BY <1>1 DEF AllInv, CodeInv, Known, Pending
<1>5. pc[Main] = "recv" => code[Main] \in {0, NoCode}
  <2>1. CASE Jit BY <1>1, <2>1 DEF AllInv, CodeInv, Known, Threads
  <2>2. CASE ~Jit BY <1>1, <2>2 DEF Pending
  <2> QED BY <2>1, <2>2
<1> QED BY <1>1, <1>2, <1>3, <1>4, <1>5

(* Without a code on its way, a result is added up. *)
LEMMA QuietReceive ==
  ASSUME AllInv, Quiet, Receive
  PROVE  /\ slots' = [slots EXCEPT ![Main] = Combine(@, Head(results).slots)]
         /\ nr' = [nr EXCEPT ![Main] = Agg(@, Head(results).nr)]
         /\ results # << >> /\ results' = Tail(results)
         /\ pc[Main] = "recv" /\ UNCHANGED <<pc, unread, held, regs, seen>>
<1>1. 1 \in 1..Len(results) /\ Head(results) = results[1]
  <2>1. results # << >> BY DEF Receive
  <2>2. PICK S : results \in Seq(S) BY DEF AllInv, TypeInv, Queue
  <2> QED BY <2>1, <2>2
<1>2. Jit \/ Head(results).code # Failed
  BY <1>1, CodeShape DEF AllInv, Quiet, Pending
<1> QED BY <1>2 DEF Receive, Input

(* A thread that leaves its loop with a code other than 0 is not quiet. *)
LEMMA LeavingIsLoud ==
  ASSUME AllInv, NEW t \in Threads, LoopStep(t), build' = build, Quiet'
  PROVE  Enter(t) \/ Check(t) \/ Get(t) \/ Finish(t) \/ \E r \in Records : Process(t, r)
<1>1. ASSUME NEW r \in Records, NEW c \in Codes, LoopExit(t, r, c) PROVE FALSE
  BY <1>1 DEF LoopExit, Calls, Quiet
<1>2. ASSUME NEW r \in Records, LoopFails(t, r) PROVE FALSE
  <2>1. CASE Jit BY <1>2, <2>1 DEF LoopFails, Calls, Quiet
  <2>2. CASE ~Jit
    <3>1. /\ pc' = [pc EXCEPT ![t] = IF t = Main THEN "recv" ELSE "send"]
          /\ code' = [code EXCEPT ![t] = Failed]
      BY <1>2, <2>2 DEF LoopFails, LeaveLoop, Goto, AfterLoop
    <3>2. pc'[t] = (IF t = Main THEN "recv" ELSE "send") /\ code'[t] = Failed
      BY <3>1, CodeShape DEF AllInv
    <3>3. Pending' BY <3>2, CodeShape DEF AllInv, Pending, Threads
    <3> QED BY <3>3, <2>2 DEF Quiet, Jit
  <2> QED BY <2>1, <2>2
<1> QED BY <1>1, <1>2 DEF LoopStep

LEMMA InitPlace == Init => PlaceInv
BY DEF Init, PlaceInv, Somewhere, Done, Unread, Records, Threads

(* Steps that move no record. *)
LEMMA PlaceFrame ==
  ASSUME AllInv, PlaceInv, Quiet' => Quiet, UNCHANGED <<nr, unread, held, results>>,
         \A t \in Threads : Counted(t) =>
           Counted(t)' \/ \A r \in Records : nr[t][r] = 0,
         Quiet' => \A t \in Threads :
           /\ pc'[t] # "read" => held[t] = {}
           /\ pc'[t] \in {"eof", "send", "recv", "join", "end"} => unread = {}
  PROVE  PlaceInv'
<1>1. Done' BY DEF Done
<1>2. Somewhere'
  <2> SUFFICES ASSUME Quiet', NEW r \in Records
               PROVE  \/ Unread(r)' \/ (\E t \in Threads : r \in held'[t] \/ Has(t, r)')
                      \/ \E i \in Sent' : results'[i].nr[r] = 1
    BY DEF Somewhere
  <2>1. \/ Unread(r) \/ (\E t \in Threads : r \in held[t] \/ Has(t, r))
        \/ \E i \in Sent : results[i].nr[r] = 1
    BY DEF PlaceInv, Somewhere
  <2>2. \A t \in Threads : Has(t, r) => Has(t, r)' BY DEF Has
  <2> QED BY <2>1, <2>2 DEF Unread, Sent
<1> QED BY <1>1, <1>2 DEF PlaceInv

LEMMA MainKeepsPlace ==
  ASSUME AllInv, PlaceInv, Quiet' => Quiet, Running(MainStep)
  PROVE  PlaceInv'
<1>1. MainStep /\ build' = build /\ proc = "running" BY DEF Running
<1>2. TypeInv /\ StartInv /\ CountInv BY DEF AllInv
<1>3. Quiet' => /\ \A t \in Threads : pc[t] # "read" => held[t] = {}
                /\ \A t \in Threads :
                     pc[t] \in {"eof", "send", "recv", "join", "end"} => unread = {}
  BY DEF PlaceInv, Done
<1>4. \A t \in Threads :
        pc[t] \in BeforeLoop => held[t] = {} /\ \A r \in Records : nr[t][r] = 0
  BY DEF AllInv, CountInv, Bits
<1>5. Quiet' => pc[Main] # "drain" BY QuietShape
<1> USE <1>2, <1>3, SumShape
    DEF Goto, Counted, Input, Data, Ending, BeforeLoop, Looping, Labels
<1>6. CASE Begin
  <2>1. \A t \in Threads, r \in Records : nr'[t][r] = nr[t][r]
    BY <1>6 DEF Begin, Add, Value
  <2>2. UNCHANGED <<unread, held, results>> /\ pc[Main] = "begin"
        /\ pc' = [pc EXCEPT ![Main] = AfterBegin] /\ AfterBegin \in {"enter", "flush"}
    BY <1>6 DEF Begin, AfterBegin
  <2>3. \A t \in Threads, r \in Records : Has(t, r)' <=> Has(t, r)
    BY <2>1, <2>2 DEF Has
  <2>4. Done' BY <2>2, <1>4 DEF Done
  <2>5. Somewhere' BY <2>2, <2>3 DEF PlaceInv, Somewhere, Unread, Sent
  <2> QED BY <2>4, <2>5 DEF PlaceInv
<1>7. CASE BeginFails \/ EndFails
  BY <1>7, PlaceFrame DEF BeginFails, EndFails, FailStage
<1>8. CASE Spawn BY <1>4, <1>8, PlaceFrame DEF Spawn, Threads
<1>9. CASE OwnResult BY <1>9, PlaceFrame DEF OwnResult
<1>10. CASE Received BY <1>10, PlaceFrame DEF Received
<1>11. CASE Join BY <1>11, PlaceFrame DEF Join
<1>12. CASE FlushFails \/ Drained \/ MainPanics \/ End \/ Return
  BY <1>12, PlaceFrame DEF FlushFails, Drained, MainPanics, End, Return
<1>13. ASSUME NEW c \in Codes, BeginExit(c) \/ EndExit(c) PROVE PlaceInv'
  <2>1. ~Quiet' BY <1>13 DEF BeginExit, EndExit, ExitStage, Calls, Quiet
  <2> QED BY <2>1 DEF PlaceInv, Somewhere, Done
<1>14. CASE Drain
  <2>1. ~Quiet' BY <1>5, <1>14 DEF Drain
  <2> QED BY <2>1 DEF PlaceInv, Somewhere, Done
<1>15. CASE Receive
  <2> SUFFICES ASSUME Quiet' PROVE PlaceInv'
    BY DEF PlaceInv, Somewhere, Done
  <2>1. /\ nr' = [nr EXCEPT ![Main] = Agg(@, Head(results).nr)]
        /\ results # << >> /\ results' = Tail(results)
        /\ UNCHANGED <<pc, unread, held>>
    BY <1>15, QuietReceive
  <2>2. Head(results) = results[1] /\ 1 \in Sent
    BY <2>1, QueueHead DEF TypeInv
  <2>3. \A r \in Records : nr'[Main][r] = nr[Main][r] + results[1].nr[r]
    BY <2>1, <2>2 DEF Agg
  <2>4. \A r \in Records : nr[Main][r] \in {0, 1} /\ results[1].nr[r] \in {0, 1}
    BY <2>2 DEF CountInv, Bits
  <2>5. \A r \in Records : Has(Main, r) \/ results[1].nr[r] = 1 => Has(Main, r)'
    <3> TAKE r \in Records
    <3>1. nr[Main][r] = 1 => results[1].nr[r] = 0
      BY <2>2 DEF CountInv, Apart, Has
    <3> QED BY <2>3, <2>4, <3>1 DEF Has
  <2>6. \A r \in Records, t \in Threads : Has(t, r) => Has(t, r)'
    BY <2>1, <2>5 DEF Has
  <2>7. \A i \in Sent : i = 1 \/ \E j \in Sent' : results'[j] = results[i]
    <3>1. PICK S : results \in Seq(S) BY DEF TypeInv, Queue
    <3>2. \A i \in 1..Len(results) :
            i = 1 \/ (i - 1 \in 1..Len(results') /\ results'[i - 1] = results[i])
      BY <2>1, <3>1
    <3> QED BY <3>2 DEF Sent
  <2>8. Somewhere'
    <3>1. Main \in Threads OBVIOUS
    <3>2. \A r \in Records : Unread(r) => Unread(r)' BY <2>1 DEF Unread
    <3>3. \A r \in Records : (\E i \in Sent : results[i].nr[r] = 1) =>
            Has(Main, r)' \/ \E j \in Sent' : results'[j].nr[r] = 1
      BY <2>5, <2>7
    <3> HIDE SumShape DEF Counted
    <3> QED BY <2>1, <2>6, <3>1, <3>2, <3>3 DEF PlaceInv, Somewhere
  <2>9. Done' BY <2>1 DEF PlaceInv, Done
  <2> QED BY <2>8, <2>9 DEF PlaceInv
<1> QED BY <1>1, <1>6, <1>7, <1>8, <1>9, <1>10, <1>11, <1>12, <1>13, <1>14, <1>15
        DEF MainStep

LEMMA LoopKeepsPlace ==
  ASSUME AllInv, PlaceInv, Quiet' => Quiet, NEW t \in Threads, Running(LoopStep(t))
  PROVE  PlaceInv'
<1>1. LoopStep(t) /\ build' = build BY DEF Running
<1>2. TypeInv /\ StartInv /\ CountInv BY DEF AllInv
<1> SUFFICES ASSUME Quiet' PROVE PlaceInv'
  BY DEF PlaceInv, Somewhere, Done
<1>3. /\ \A u \in Threads : pc[u] # "read" => held[u] = {}
      /\ \A u \in Threads :
           pc[u] \in {"eof", "send", "recv", "join", "end"} => unread = {}
  BY DEF PlaceInv, Done
<1>4. cancel = NoCode BY QuietShape
<1>5. pc[t] \in BeforeLoop => \A r \in Records : nr[t][r] = 0
  BY <1>2 DEF CountInv, Bits
<1> USE <1>2, <1>3, SumShape
    DEF Goto, Counted, Input, Data, Ending, BeforeLoop, Looping, Labels
<1>6. CASE Enter(t) BY <1>5, <1>6, PlaceFrame DEF Enter
<1>7. CASE Check(t) BY <1>4, <1>7, PlaceFrame DEF Check
<1>8. CASE Finish(t) BY <1>8, PlaceFrame DEF Finish, AfterLoop
<1>9. CASE Get(t)
  <2>1. CASE unread = {} /\ Goto(t, "eof") /\ UNCHANGED <<held, unread>>
    BY <1>9, <2>1, PlaceFrame DEF Get
  <2>2. ASSUME NEW chunk \in unread, unread' = unread \ {chunk},
               held' = [held EXCEPT ![t] = chunk], Goto(t, "read")
        PROVE  PlaceInv'
    <3>1. pc[t] = "get" /\ pc' = [pc EXCEPT ![t] = "read"] /\ UNCHANGED <<nr, results>>
      BY <1>9, <2>2 DEF Get
    <3>2. \A u \in Threads, r \in Records : Has(u, r)' <=> Has(u, r)
      BY <3>1 DEF Has
    <3>3. \A r \in Records : Unread(r) => Unread(r)' \/ r \in held'[t]
      BY <2>2 DEF Unread
    <3>4. \A u \in Threads : held'[u] = IF u = t THEN chunk ELSE held[u] BY <2>2
    <3>5. held[t] = {} BY <3>1
    <3>6. Somewhere'
      BY <3>1, <3>2, <3>3, <3>4, <3>5 DEF PlaceInv, Somewhere, Sent
    <3>7. /\ unread # {}
          /\ \A u \in Threads : pc[u] \notin {"eof", "send", "recv", "join", "end"}
      BY <2>2
    <3>8. Done' BY <2>2, <3>1, <3>4, <3>7 DEF Done
    <3> QED BY <3>6, <3>8 DEF PlaceInv
  <2> QED BY <1>9, <2>1, <2>2 DEF Get
<1>10. ASSUME NEW r \in Records, Process(t, r) PROVE PlaceInv'
  <2>1. /\ r \in held[t] /\ pc[t] = "read" /\ UNCHANGED <<pc, unread, results>>
        /\ held' = [held EXCEPT ![t] = held[t] \ {r}]
        /\ nr' = [nr EXCEPT ![t] = Add(@, r)]
    BY <1>10 DEF Process, Take
  <2>2. \A u \in Threads : ~Has(u, r) BY <2>1 DEF CountInv, Apart
  <2>3. nr[t][r] = 0 BY <2>1, <2>2 DEF CountInv, Bits, Has
  <2>4. \A u \in Threads, k \in Records :
           nr'[u][k] = IF u = t /\ k = r THEN 1 ELSE nr[u][k]
    BY <2>1, <2>3 DEF Add, Value
  <2>5. \A u \in Threads, k \in Records :
           Has(u, k)' <=> Has(u, k) \/ (k = r /\ u = t)
    BY <2>1, <2>4 DEF Has
  <2>6. \A u \in Threads, k \in Records : k \in held[u] /\ k # r => k \in held'[u]
    BY <2>1
  <2>7. Somewhere'
    <3> HIDE SumShape DEF Counted
    <3> QED BY <2>1, <2>5, <2>6 DEF PlaceInv, Somewhere, Unread, Sent
  <2>8. Done' BY <2>1 DEF Done
  <2> QED BY <2>7, <2>8 DEF PlaceInv
<1> HIDE SumShape DEF Counted
<1> QED BY <1>1, <1>6, <1>7, <1>8, <1>9, <1>10, LeavingIsLoud

LEMMA WorkerKeepsPlace ==
  ASSUME AllInv, PlaceInv, Quiet' => Quiet, NEW w \in Workers,
         Running(Start(w) \/ SendResult(w) \/ DropCore(w))
  PROVE  PlaceInv'
<1>1. (Start(w) \/ SendResult(w) \/ DropCore(w)) /\ build' = build
  BY DEF Running
<1>2. TypeInv /\ StartInv /\ CountInv BY DEF AllInv
<1>3. Quiet' => /\ \A t \in Threads : pc[t] # "read" => held[t] = {}
                /\ \A t \in Threads :
                     pc[t] \in {"eof", "send", "recv", "join", "end"} => unread = {}
  BY DEF PlaceInv, Done
<1>4. \A t \in Threads : pc[t] \in BeforeLoop => \A r \in Records : nr[t][r] = 0
  BY <1>2 DEF CountInv, Bits
<1> USE <1>2, <1>3, SumShape
    DEF Goto, Counted, Input, Data, Ending, BeforeLoop, Looping, Labels
<1>5. CASE Start(w) BY <1>4, <1>5, PlaceFrame DEF Start
<1>6. CASE DropCore(w) BY <1>6, PlaceFrame DEF DropCore
<1>7. CASE SendResult(w)
  <2>1. /\ UNCHANGED <<nr, held, unread>> /\ pc[w] = "send"
        /\ pc' = [pc EXCEPT ![w] = "drop"]
    BY <1>7 DEF SendResult
  <2>2. /\ Len(results') = Len(results) + 1 /\ Len(results) \in Nat
        /\ \A i \in 1..Len(results) : results'[i] = results[i]
        /\ results'[Len(results) + 1] = Result(w)
    BY <1>7, QueueAppend DEF SendResult, TypeInv
  <2>3. /\ \A i \in Sent : i \in Sent' /\ results'[i] = results[i]
        /\ \E i \in Sent' : results'[i] = Result(w)
    <3>1. \A i \in 1..Len(results) : i \in 1..Len(results') BY <2>2
    <3>2. Len(results) + 1 \in 1..Len(results') BY <2>2
    <3> QED BY <2>2, <3>1, <3>2 DEF Sent
  <2>4. Result(w).nr = nr[w] BY DEF Result
  <2>5. \A u \in Threads, r \in Records : Has(u, r) => u = w \/ Has(u, r)'
    BY <2>1 DEF Has
  <2>6. \A r \in Records : Has(w, r) => \E i \in Sent' : results'[i].nr[r] = 1
    BY <2>3, <2>4 DEF Has
  <2>7. Somewhere'
    <3> HIDE SumShape DEF Counted
    <3> QED BY <2>1, <2>3, <2>5, <2>6 DEF PlaceInv, Somewhere, Unread
  <2>8. Done' BY <2>1 DEF Done
  <2> QED BY <2>7, <2>8 DEF PlaceInv
<1> QED BY <1>1, <1>5, <1>6, <1>7

-----------------------------------------------------------------------------
LEMMA InitFirst == Init => FirstOnce
BY ConstantsOK DEF Init, FirstOnce, Sent, Zero, Threads

LEMMA MainKeepsFirst ==
  ASSUME AllInv, FirstOnce, Running(MainStep)
  PROVE  FirstOnce'
<1>1. MainStep BY DEF Running
<1>2. TypeInv /\ StartInv BY DEF AllInv
<1> USE <1>2, SumShape DEF FirstOnce, Goto, Data, Ending, Calls, Labels
<1>3. CASE Begin
  <2>1. UNCHANGED <<results, calls>> /\ pc[Main] = "begin"
        /\ pc' = [pc EXCEPT ![Main] = AfterBegin] /\ AfterBegin \in {"enter", "flush"}
        /\ nr' = [nr EXCEPT ![Main] = Add(@, First)]
    BY <1>3 DEF Begin, AfterBegin
  <2>2. calls = {} => nr'[Main][First] = 1 BY <2>1 DEF Add, Value
  <2> QED BY <2>1, <2>2 DEF Sent
<1>4. CASE Receive
  <2>1. /\ results # << >> /\ results' = Tail(results) /\ calls' = calls
        /\ pc[Main] = "recv" /\ pc'[Main] \in {"recv", "join"}
        /\ nr' = nr \/ nr' = [nr EXCEPT ![Main] = Agg(@, Head(results).nr)]
    BY <1>4 DEF Receive
  <2>2. /\ 1 \in Sent /\ Head(results) = results[1]
        /\ \A i \in Sent' : i + 1 \in Sent /\ results'[i] = results[i + 1]
    BY <2>1, QueueHead DEF TypeInv
  <2>3. calls = {} => nr'[Main][First] = 1
    <3>1. Agg(nr[Main], results[1].nr)[First] = nr[Main][First] + results[1].nr[First]
      BY DEF Agg
    <3> QED BY <2>1, <2>2, <3>1
  <2>4. \A w \in Workers : nr'[w] = nr[w] BY <2>1
  <2>5. \A i \in Sent' : results'[i].nr[First] = 0 BY <2>2
  <2> QED BY <2>1, <2>3, <2>4, <2>5
<1>5. CASE Drain
  <2>1. \A i \in Sent' : i + 1 \in Sent /\ results'[i] = results[i + 1]
    BY <1>5, QueueHead DEF TypeInv, Drain
  <2>2. UNCHANGED <<nr, pc, calls>> BY <1>5 DEF Drain
  <2> QED BY <2>1, <2>2
<1>6. CASE BeginFails \/ EndFails BY <1>6 DEF BeginFails, EndFails, FailStage, Sent
<1>7. CASE Spawn \/ FlushFails \/ OwnResult \/ Received \/ Drained \/ Join
           \/ MainPanics \/ End \/ Return
  BY <1>7 DEF Spawn, FlushFails, OwnResult, Received, Drained, Join,
     MainPanics, End, Return, Sent, Threads
<1>8. ASSUME NEW c \in Codes, BeginExit(c) \/ EndExit(c) PROVE FirstOnce'
  <2>1. calls' # {} /\ UNCHANGED <<nr, results>>
    BY <1>8 DEF BeginExit, EndExit, ExitStage
  <2> QED BY <2>1 DEF Sent
<1> HIDE SumShape DEF FirstOnce
<1> QED BY <1>1, <1>3, <1>4, <1>5, <1>6, <1>7, <1>8 DEF MainStep

LEMMA LoopKeepsFirst ==
  ASSUME AllInv, FirstOnce, NEW t \in Threads, Running(LoopStep(t))
  PROVE  FirstOnce'
<1>1. LoopStep(t) /\ build' = build BY DEF Running
<1>2. TypeInv /\ StartInv BY DEF AllInv
<1>3. \/ UNCHANGED pc
      \/ \E l \in Labels :
           l # "begin" /\ pc[t] # "begin" /\ pc' = [pc EXCEPT ![t] = l]
  <2> USE DEF Goto, Labels
  <2>1. CASE Enter(t) \/ Check(t) \/ Get(t) BY <2>1 DEF Enter, Check, Get
  <2>2. CASE Finish(t) BY <2>2 DEF Finish, AfterLoop
  <2>3. ASSUME NEW r \in Records, Process(t, r) PROVE UNCHANGED pc
    BY <2>3 DEF Process
  <2>4. ASSUME NEW r \in Records, NEW c, Take(t, r), LeaveLoop(t, c)
        PROVE  \/ UNCHANGED pc
               \/ \E l \in Labels :
                    l # "begin" /\ pc[t] # "begin" /\ pc' = [pc EXCEPT ![t] = l]
    BY <2>4 DEF Take, LeaveLoop, AfterLoop
  <2> QED BY <1>1, <2>1, <2>2, <2>3, <2>4 DEF LoopStep, LoopFails, LoopExit
<1>4. \A u \in Threads : nr'[u][First] = nr[u][First]
  <2>1. ASSUME NEW r \in Records, Process(t, r)
        PROVE  \A u \in Threads : nr'[u][First] = nr[u][First]
    BY <2>1, <1>2, SumShape DEF Process, Add, Value
  <2>2. (\E r \in Records : Process(t, r)) \/ nr' = nr
    BY <1>1 DEF LoopStep, Enter, Check, Get, Finish, LoopFails, LoopExit, Data
  <2> QED BY <2>1, <2>2
<1>5. results' = results /\ calls \subseteq calls'
  BY <1>1 DEF LoopStep, Enter, Check, Get, Finish, Process, LoopFails, LoopExit,
     LeaveLoop, Ending, Calls
<1>6. pc[Main] = "begin" <=> pc'[Main] = "begin"
  BY <1>2, <1>3, SumShape
<1> QED BY <1>2, <1>4, <1>5, <1>6, SumShape DEF FirstOnce, Sent

LEMMA WorkerKeepsFirst ==
  ASSUME AllInv, FirstOnce, NEW w \in Workers,
         Running(Start(w) \/ SendResult(w) \/ DropCore(w))
  PROVE  FirstOnce'
<1>1. Start(w) \/ SendResult(w) \/ DropCore(w) BY DEF Running
<1>2. TypeInv /\ StartInv BY DEF AllInv
<1>3. UNCHANGED <<nr, calls>> /\ pc'[Main] = pc[Main]
  BY <1>1, <1>2, SumShape DEF Start, SendResult, DropCore, Data, Goto
<1>4. CASE SendResult(w)
  <2>1. /\ Len(results') = Len(results) + 1 /\ Len(results) \in Nat
        /\ \A i \in 1..Len(results) : results'[i] = results[i]
        /\ results'[Len(results) + 1] = Result(w)
    BY <1>2, <1>4, QueueAppend DEF SendResult, TypeInv
  <2>2. Result(w).nr[First] = 0 BY DEF FirstOnce, Result
  <2>3. \A i \in 1..Len(results') : i \in 1..Len(results) \/ i = Len(results) + 1
    BY <2>1
  <2> QED BY <1>3, <2>1, <2>2, <2>3 DEF FirstOnce, Sent
<1>5. CASE Start(w) \/ DropCore(w)
  BY <1>3, <1>5 DEF Start, DropCore, Ending, Data, FirstOnce, Sent
<1> QED BY <1>1, <1>4, <1>5

-----------------------------------------------------------------------------
Both == In("loop") \cap In("end")

LEMMA BothStored ==
  /\ Both \subseteq LoopStores /\ Both \subseteq LoopVars /\ Both \subseteq In("end")
  /\ Both \subseteq In("loop")
BY DEF Both, LoopStores, LoopVars

LEMMA InitMatching == Init => Matching
BY DEF Init, Matching, Sent, Looping, Threads

(* Steps that leave alone what Matching is about. *)
LEMMA MatchingFrame ==
  ASSUME Matching, Quiet' => Quiet,
         Quiet' => results' = results,
         Quiet' => \A t \in Threads :
           /\ pc'[t] \in Looping =>
                pc[t] \in Looping /\ regs'[t] = regs[t] /\ nr'[t] = nr[t]
           /\ pc'[t] \in {"send", "recv", "join", "end"} =>
                /\ pc[t] \in {"send", "recv", "join", "end"}
                /\ slots'[t] = slots[t] /\ nr'[t] = nr[t]
  PROVE  Matching'
BY DEF Matching, Sent, Same

LEMMA MainKeepsMatching ==
  ASSUME AllInv, Matching, Quiet' => Quiet, Running(MainStep)
  PROVE  Matching'
<1>1. MainStep /\ build' = build BY DEF Running
<1>2. TypeInv /\ StartInv BY DEF AllInv
<1>3. Quiet' => pc[Main] # "drain" BY QuietShape
<1> USE <1>2, SumShape DEF Goto, Input, Data, Ending, Looping, Labels
<1>4. CASE Begin BY <1>4, MatchingFrame DEF Begin, AfterBegin
<1>5. CASE BeginFails \/ EndFails
  BY <1>5, MatchingFrame DEF BeginFails, EndFails, FailStage
<1>6. CASE Spawn BY <1>6, MatchingFrame DEF Spawn, Threads
<1>7. CASE OwnResult \/ Received \/ Join
  <2>1. UNCHANGED <<regs, nr, slots, results>>
        /\ \/ UNCHANGED pc
           \/ pc[Main] \in {"recv", "join"} /\ pc' = [pc EXCEPT ![Main] = "join"]
           \/ pc[Main] \in {"recv", "join"} /\ pc' = [pc EXCEPT ![Main] = "end"]
    BY <1>7 DEF OwnResult, Received, Join
  <2> QED BY <2>1, MatchingFrame
<1>8. CASE FlushFails \/ Drained \/ MainPanics \/ End \/ Return
  BY <1>8, MatchingFrame DEF FlushFails, Drained, MainPanics, End, Return
<1>9. ASSUME NEW c \in Codes, BeginExit(c) \/ EndExit(c) PROVE Matching'
  <2>1. ~Quiet' BY <1>9 DEF BeginExit, EndExit, ExitStage, Calls, Quiet
  <2> QED BY <2>1 DEF Matching
<1>10. CASE Drain
  <2>1. ~Quiet' BY <1>3, <1>10 DEF Drain
  <2> QED BY <2>1 DEF Matching
<1>11. CASE Receive
  <2> SUFFICES ASSUME Quiet' PROVE Matching' BY DEF Matching
  <2>1. /\ slots' = [slots EXCEPT ![Main] = Combine(@, Head(results).slots)]
        /\ nr' = [nr EXCEPT ![Main] = Agg(@, Head(results).nr)]
        /\ results # << >> /\ results' = Tail(results)
        /\ pc[Main] = "recv" /\ UNCHANGED <<pc, regs>>
    BY <1>11, QuietReceive
  <2>2. /\ 1 \in Sent /\ Head(results) = results[1]
        /\ \A i \in Sent' : i + 1 \in Sent /\ results'[i] = results[i + 1]
    BY <2>1, QueueHead DEF TypeInv
  <2>3. Same(slots[Main], nr[Main]) /\ Same(results[1].slots, results[1].nr)
        /\ \A i \in Sent : Same(results[i].slots, results[i].nr)
    BY <2>1, <2>2 DEF Matching
  <2>4. Same(Combine(slots[Main], results[1].slots), Agg(nr[Main], results[1].nr))
    BY <2>3 DEF Same, Combine, Agg, SlotOf
  <2>5. Same(slots'[Main], nr'[Main]) BY <2>1, <2>2, <2>4
  <2>6. \A i \in Sent' : Same(results'[i].slots, results'[i].nr) BY <2>2, <2>3
  <2>7. \A t \in Threads : pc'[t] \in Looping => Same(regs'[t], nr'[t])
    BY <2>1 DEF Matching
  <2>8. \A t \in Threads : pc'[t] \in {"send", "recv", "join", "end"} =>
           Same(slots'[t], nr'[t])
    BY <2>1, <2>5 DEF Matching
  <2> QED BY <2>6, <2>7, <2>8 DEF Matching, Same
<1> HIDE SumShape
<1> QED BY <1>1, <1>4, <1>5, <1>6, <1>7, <1>8, <1>9, <1>10, <1>11 DEF MainStep

LEMMA LoopKeepsMatching ==
  ASSUME AllInv, Matching, Quiet' => Quiet, NEW t \in Threads, Running(LoopStep(t))
  PROVE  Matching'
<1>1. LoopStep(t) /\ build' = build BY DEF Running
<1>2. TypeInv /\ StartInv /\ CountInv BY DEF AllInv
<1> SUFFICES ASSUME Quiet' PROVE Matching' BY DEF Matching
<1> USE <1>2, SumShape DEF Goto, Input, Data, Ending, Looping, Labels
<1>3. CASE Enter(t)
  <2>1. CASE pc' = [pc EXCEPT ![t] = "panicked"] /\ UNCHANGED regs
    BY <1>3, <2>1, MatchingFrame DEF Enter
  <2>2. CASE /\ BeginStores \subseteq DOMAIN slots[t]
             /\ regs' = [regs EXCEPT ![t] = Load(slots[t], BeginStores, LoopVars)]
             /\ pc' = [pc EXCEPT ![t] = "read"]
    <3>1. pc[t] = "enter" /\ UNCHANGED <<nr, slots, results>> BY <1>3 DEF Enter
    <3>2. \A r \in Records : nr[t][r] = 0
      BY <3>1 DEF CountInv, Bits, BeforeLoop
    <3>3. \A v \in DOMAIN slots[t] : slots[t][v] = BeginValue
      BY <3>1 DEF StartInv, FromBegin
    <3>4. Same(Load(slots[t], BeginStores, LoopVars), nr[t])
      BY <2>2, <3>2, <3>3, BeginValueFirst, BothStored DEF Same, Both, Load, Zero
    <3>5. Same(regs'[t], nr'[t]) BY <2>2, <3>1, <3>4
    <3>6. \A u \in Threads : u # t =>
            pc'[u] = pc[u] /\ regs'[u] = regs[u]
      BY <2>2
    <3>7. pc'[t] = "read" BY <2>2
    <3> QED BY <3>1, <3>5, <3>6, <3>7 DEF Matching, Same, Sent
  <2> QED BY <1>3, <2>1, <2>2 DEF Enter
<1>4. CASE Check(t) BY <1>4, MatchingFrame DEF Check
<1>5. CASE Get(t) BY <1>5, MatchingFrame DEF Get
<1>6. CASE Finish(t)
  <2>1. /\ pc[t] = "eof" /\ UNCHANGED <<regs, nr, results>>
        /\ slots' = [slots EXCEPT ![t] = Store(@, regs[t], LoopStores)]
        /\ pc' = [pc EXCEPT ![t] = AfterLoop(t)]
        /\ AfterLoop(t) \in {"send", "recv"}
    BY <1>6 DEF Finish, AfterLoop
  <2>2. Same(regs[t], nr[t]) BY <2>1 DEF Matching
  <2>3. Same(Store(slots[t], regs[t], LoopStores), nr[t])
    BY <2>2, BothStored DEF Same, Both, Store, Below
  <2>4. Same(slots'[t], nr'[t]) BY <2>1, <2>3
  <2>5. \A u \in Threads : u # t => pc'[u] = pc[u] /\ slots'[u] = slots[u]
    BY <2>1
  <2>6. pc'[t] \in {"send", "recv"} BY <2>1
  <2> QED BY <2>1, <2>4, <2>5, <2>6 DEF Matching, Same, Sent
<1>7. ASSUME NEW r \in Records, Process(t, r) PROVE Matching'
  <2>1. /\ pc[t] = "read" /\ UNCHANGED <<pc, slots, results>>
        /\ nr' = [nr EXCEPT ![t] = Add(@, r)]
        /\ regs'[t] = [v \in DOMAIN regs[t] |->
              IF v \in In("loop") THEN Add(regs[t][v], r) ELSE regs[t][v]]
        /\ \A u \in Threads : u # t => regs'[u] = regs[u]
    BY <1>7 DEF Process, Take
  <2>2. Same(regs[t], nr[t]) BY <2>1 DEF Matching
  <2>3. \A v \in Both : v \in DOMAIN regs[t] /\ regs[t][v] \in Value
    BY <2>2, StartShape DEF Same, Both
  <2>4. ASSUME NEW v \in Both, NEW k \in Records
        PROVE  regs'[t][v][k] = nr'[t][k]
    <3>1. regs'[t][v] = Add(regs[t][v], r) /\ nr'[t] = Add(nr[t], r)
      BY <2>1, <2>3, <2>4, BothStored
    <3>2. regs[t][v][k] = nr[t][k] /\ regs[t][v][r] = nr[t][r]
      BY <2>2, <2>4 DEF Same, Both
    <3>3. regs[t][v] \in Value /\ nr[t] \in Value BY <2>3, <2>4
    <3> QED BY <3>1, <3>2, <3>3 DEF Add, Value
  <2>5. Same(regs'[t], nr'[t]) BY <2>1, <2>3, <2>4 DEF Same, Both
  <2>6. \A u \in Threads : u # t => nr'[u] = nr[u] BY <2>1
  <2>7. \A u \in Threads : pc'[u] \in Looping => Same(regs'[u], nr'[u])
    BY <2>1, <2>5, <2>6 DEF Matching
  <2>8. \A u \in Threads : pc'[u] \in {"send", "recv", "join", "end"} =>
           u # t /\ Same(slots'[u], nr'[u])
    BY <2>1, <2>6 DEF Matching
  <2> HIDE SumShape DEF Looping
  <2> QED BY <2>1, <2>7, <2>8 DEF Matching, Same, Sent
<1> HIDE SumShape
<1> QED BY <1>1, <1>3, <1>4, <1>5, <1>6, <1>7, LeavingIsLoud

LEMMA WorkerKeepsMatching ==
  ASSUME AllInv, Matching, Quiet' => Quiet, NEW w \in Workers,
         Running(Start(w) \/ SendResult(w) \/ DropCore(w))
  PROVE  Matching'
<1>1. (Start(w) \/ SendResult(w) \/ DropCore(w)) /\ build' = build
  BY DEF Running
<1>2. TypeInv /\ StartInv BY DEF AllInv
<1> SUFFICES ASSUME Quiet' PROVE Matching' BY DEF Matching
<1> USE <1>2, SumShape DEF Goto, Input, Data, Ending, Looping, Labels
<1>3. CASE Start(w) BY <1>3, MatchingFrame DEF Start
<1>4. CASE DropCore(w) BY <1>4, MatchingFrame DEF DropCore
<1>5. CASE SendResult(w)
  <2>1. /\ Len(results') = Len(results) + 1 /\ Len(results) \in Nat
        /\ \A i \in 1..Len(results) : results'[i] = results[i]
        /\ results'[Len(results) + 1] = Result(w)
    BY <1>5, QueueAppend DEF SendResult, TypeInv
  <2>2. /\ pc[w] = "send" /\ pc' = [pc EXCEPT ![w] = "drop"]
        /\ UNCHANGED <<nr, regs>> /\ slots' = [slots EXCEPT ![w] = << >>]
    BY <1>5 DEF SendResult
  <2>3. Same(Result(w).slots, Result(w).nr)
    <3>1. Same(slots[w], nr[w]) BY <2>2 DEF Matching
    <3> QED BY <3>1 DEF Result
  <2>4. \A i \in 1..Len(results') : i \in 1..Len(results) \/ i = Len(results) + 1
    BY <2>1
  <2>5. \A i \in Sent' : Same(results'[i].slots, results'[i].nr)
    BY <2>1, <2>3, <2>4 DEF Sent, Matching
  <2>6. \A u \in Threads : u # w => pc'[u] = pc[u] /\ slots'[u] = slots[u]
    BY <2>2
  <2>7. pc'[w] = "drop" BY <2>2
  <2> QED BY <2>2, <2>5, <2>6, <2>7 DEF Matching, Same
<1> QED BY <1>1, <1>3, <1>4, <1>5

-----------------------------------------------------------------------------
(* At the start of END nothing is left anywhere but with the main thread. *)
LEMMA AllCounted ==
  ASSUME AllInv, PlaceInv, proc = "running", pc[Main] = "end", calls = {}
  PROVE  Quiet /\ \A r \in Records : nr[Main][r] = 1
<1>1. ~Pending /\ results = << >> /\ \A w \in Workers : ~HasSender(w)
  BY AtEnd DEF AllInv
<1>2. Quiet BY <1>1 DEF Quiet
<1>3. \A w \in Workers : pc[w] \notin {"unborn", "start", "enter", "send"} \cup Looping
  BY <1>1, SumShape DEF HasSender, Looping, AllInv
<1>4. \A t \in Threads : held[t] = {} /\ (Counted(t) => t = Main)
  <2>1. \A t \in Threads : t = Main \/ t \in Workers BY DEF Threads
  <2>2. \A t \in Threads : pc[t] # "read" BY <1>3, <2>1 DEF Looping
  <2> QED BY <1>2, <1>3, <2>1, <2>2 DEF PlaceInv, Done, Counted
<1>5. Main \in Threads /\ unread = {}
  BY <1>2 DEF PlaceInv, Done, Threads
<1>6. Sent = {} BY <1>1 DEF Sent
<1> QED BY <1>2, <1>4, <1>5, <1>6 DEF PlaceInv, Somewhere, Has, Unread

LEMMA EndAggregates ==
  ASSUME AllInv, PlaceInv, FirstOnce, Matching, EndedAt,
         proc = "running", End
  PROVE  Aggregated'
<1>1. pc[Main] = "end" /\ UNCHANGED <<nr, calls>> BY DEF End
<1> SUFFICES ASSUME seen' # << >>, calls = {} PROVE Aggregated'
  BY <1>1 DEF Aggregated, Ended
<1>2. Quiet /\ \A r \in Records : nr[Main][r] = 1 BY <1>1, AllCounted
<1>3. /\ LoopStores \subseteq DOMAIN slots[Main]
      /\ seen' = Load(slots[Main], LoopStores, In("end"))
  BY <1>1 DEF End, EndedAt
<1>4. Same(slots[Main], nr[Main]) BY <1>1, <1>2 DEF Matching, Threads
<1>5. ASSUME NEW v \in Both, NEW r \in Records PROVE seen'[v][r] = 1
  <2>1. seen'[v] = slots[Main][v] BY <1>3, BothStored DEF Load
  <2> QED BY <1>2, <1>4, <2>1 DEF Same, Both
<1>6. nr[Main] = [k \in Records \cup {First} |-> 1]
  <2>1. nr[Main][First] = 1 BY <1>1 DEF FirstOnce
  <2>2. nr[Main] \in Value BY SumShape DEF AllInv
  <2> QED BY <1>2, <2>1, <2>2 DEF Value
<1> QED BY <1>1, <1>5, <1>6 DEF Aggregated, Both

(* Once END has started, nothing changes what it counts. *)
LEMMA EndedStays ==
  ASSUME AllInv, EndedAt, Next, seen' = seen
  PROVE  EndedAt' /\ (Aggregated => Aggregated')
<1> SUFFICES ASSUME seen # << >>
             PROVE  EndedAt' /\ (Aggregated => Aggregated')
  BY DEF EndedAt, Aggregated, Ended
<1>1. pc[Main] = "last" BY DEF EndedAt
<1>2. \A w \in Workers : w # Main BY ConstantsOK
<1>3. pc \in [Threads -> Labels] /\ DOMAIN nr = Threads /\ Main \in Threads
  BY SumShape DEF AllInv
<1>4. ASSUME MainStep
      PROVE  pc'[Main] = "last" /\ nr' = nr /\ calls \subseteq calls'
  BY <1>1, <1>4
  DEF MainStep, Begin, BeginFails, Spawn, FlushFails, OwnResult, Receive,
      Received, Drain, Drained, Join, MainPanics, End, EndFails, Return,
      BeginExit, EndExit, ExitStage, FailStage, Calls, Data
<1>5. ~LoopStep(Main)
  BY <1>1
  DEF LoopStep, Enter, Check, Get, Finish, Process, LoopFails, LoopExit, Take
<1>6. ASSUME NEW w \in Workers, WorkerStep(w)
      PROVE  /\ pc'[Main] = pc[Main] /\ nr'[Main] = nr[Main]
             /\ calls \subseteq calls'
  <2> USE <1>2, <1>3 DEF Goto, Data
  <2>1. CASE Start(w) \/ SendResult(w) \/ DropCore(w)
    BY <2>1 DEF Start, SendResult, DropCore
  <2>2. CASE Enter(w) \/ Check(w) \/ Get(w) \/ Finish(w)
    BY <2>2 DEF Enter, Check, Get, Finish, AfterLoop
  <2>3. ASSUME NEW r \in Records, Process(w, r)
        PROVE  /\ pc'[Main] = pc[Main] /\ nr'[Main] = nr[Main]
               /\ calls \subseteq calls'
    BY <2>3 DEF Process
  <2>4. ASSUME NEW c, LeaveLoop(w, c) PROVE pc'[Main] = pc[Main]
    BY <2>4 DEF LeaveLoop, AfterLoop
  <2> QED
    BY <1>6, <2>1, <2>2, <2>3, <2>4
    DEF WorkerStep, LoopStep, LoopFails, LoopExit, Calls
<1>7. pc'[Main] = "last" /\ nr'[Main] = nr[Main] /\ calls \subseteq calls'
  BY <1>1, <1>4, <1>5, <1>6 DEF Next, MainThread, Worker, Running, Gone, vars
<1> QED BY <1>7 DEF EndedAt, Aggregated, Ended

LEMMA StepAggregates ==
  ASSUME AllInv, PlaceInv, FirstOnce, Matching, EndedAt, Aggregated, Next
  PROVE  EndedAt' /\ Aggregated'
<1>1. CASE seen' = seen BY <1>1, EndedStays
<1>2. CASE End /\ proc = "running"
  <2>1. EndedAt'
    BY <1>2, SumShape DEF End, EndedAt, Goto, AllInv
  <2> QED BY <1>2, <2>1, EndAggregates
<1> QED BY <1>1, <1>2, OnlyEnd

SumInv ==
  /\ PlaceInv /\ FirstOnce /\ Matching
  /\ EndedAt /\ Aggregated

LEMMA UnchangedSum == SumInv /\ UNCHANGED vars => SumInv'
<1> SUFFICES ASSUME SumInv, UNCHANGED vars PROVE SumInv' OBVIOUS
<1> USE DEF vars
<1>1. Sent' = Sent /\ (Quiet' <=> Quiet)
  BY DEF Sent, Quiet, Pending, Jit
<1>2. PlaceInv'
  BY <1>1
  DEF SumInv, PlaceInv, Somewhere, Done, Unread, Has, Counted, Looping
<1>3. FirstOnce' BY <1>1 DEF SumInv, FirstOnce
<1>4. Matching' BY <1>1 DEF SumInv, Matching, Same
<1>5. EndedAt' /\ Aggregated' BY DEF SumInv, EndedAt, Aggregated, Ended
<1> QED BY <1>2, <1>3, <1>4, <1>5 DEF SumInv

(* A step of the program keeps what has been counted. *)
LEMMA StepKeepsSum ==
  ASSUME AllInv, SumInv, Next
  PROVE  SumInv'
<1>1. Quiet' => Quiet BY NotQuietAgain DEF AllInv
<1>2. EndedAt' /\ Aggregated' BY StepAggregates DEF SumInv
<1>3. CASE MainThread
  <2>1. Running(MainStep) \/ Running(LoopStep(Main)) BY <1>3 DEF MainThread, Running
  <2>2. Main \in Threads BY DEF Threads
  <2>3. PlaceInv' BY <1>1, <2>1, <2>2, MainKeepsPlace, LoopKeepsPlace DEF SumInv
  <2>4. FirstOnce' BY <2>1, <2>2, MainKeepsFirst, LoopKeepsFirst DEF SumInv
  <2>5. Matching' BY <1>1, <2>1, <2>2, MainKeepsMatching, LoopKeepsMatching DEF SumInv
  <2> QED BY <1>2, <2>3, <2>4, <2>5 DEF SumInv
<1>4. ASSUME NEW w \in Workers, Worker(w) PROVE SumInv'
  <2>1. \/ Running(Start(w) \/ SendResult(w) \/ DropCore(w))
        \/ Running(LoopStep(w))
    BY <1>4 DEF Worker, WorkerStep, Running
  <2>2. w \in Threads BY DEF Threads
  <2>3. PlaceInv' BY <1>1, <2>1, <2>2, WorkerKeepsPlace, LoopKeepsPlace DEF SumInv
  <2>4. FirstOnce' BY <2>1, <2>2, WorkerKeepsFirst, LoopKeepsFirst DEF SumInv
  <2>5. Matching'
    BY <1>1, <2>1, <2>2, WorkerKeepsMatching, LoopKeepsMatching DEF SumInv
  <2> QED BY <1>2, <2>3, <2>4, <2>5 DEF SumInv
<1>5. CASE UNCHANGED vars BY <1>5, UnchangedSum
<1> QED BY <1>3, <1>4, <1>5 DEF Next, Gone

(* What is counted, and where, is known at any time: the invariant from which
   Aggregated follows (StageResult, Slots::combine, run_parallel).  *)
THEOREM SumInvariance == Spec => []SumInv
<1>1. Init => SumInv
  <2> SUFFICES ASSUME Init PROVE SumInv OBVIOUS
  <2>1. EndedAt /\ Aggregated BY DEF Init, EndedAt, Aggregated, Ended
  <2> QED BY <2>1, InitPlace, InitFirst, InitMatching DEF SumInv
<1>2. AllInv /\ SumInv /\ [Next]_vars => SumInv'
  BY UnchangedSum, StepKeepsSum
<1>3. Spec => []AllInv
  <2>1. (TypeInv /\ StartInv /\ CodeInv /\ PanicInv) /\ CountInv => AllInv
    BY DEF AllInv
  <2> QED BY <2>1, PanicInvariance, CountInvariance, PTL
<1> QED BY <1>1, <1>2, <1>3, PTL DEF Spec

(* Aggregated: when no thread called exit, END finds every record of the input
   counted exactly once, in every variable of the main loop and in NR, for any
   number of workers, any chunks and any order of the results.  *)
THEOREM Summed == Spec => []Aggregated
<1>1. SumInv => Aggregated BY DEF SumInv
<1> QED BY <1>1, SumInvariance, PTL

-----------------------------------------------------------------------------
(* The refinement of SerialRun, step by step. *)

Waiting(r) == Unread(r) \/ \E t \in Threads : r \in held[t]
Read(r) == \E t \in Threads : nr[t][r] = 1

(* What has been counted once is with nobody who would count it again, and is
   never forgotten: a worker keeps its nr when it has sent it.  *)
Spent == \A r \in Records : Read(r) => ~Waiting(r)
Reported ==
  \A i \in Sent, r \in Records : results[i].nr[r] = 1 => \E w \in Workers : nr[w][r] = 1
ReadInv == Spent /\ Reported

LEMMA InitRead == Init => ReadInv
BY DEF Init, ReadInv, Spent, Reported, Read, Sent, Zero, Records

SameRead == \A r \in Records : Read(r)' <=> Read(r)
OneMore ==
  \E t \in Threads, r \in Records :
    Process(t, r) /\ ~Read(r) /\ \A k \in Records : Read(k)' <=> Read(k) \/ k = r

(* Steps that move no record but from unread to held, and may drop some. *)
LEMMA ReadFrame ==
  ASSUME ReadInv, results' = results,
         \A t \in Threads, r \in Records : nr'[t][r] = nr[t][r],
         \A r \in Records : Waiting(r)' => Waiting(r)
  PROVE  ReadInv' /\ SameRead
<1>1. \A r \in Records : Read(r)' <=> Read(r) BY DEF Read
<1>2. Spent' BY <1>1 DEF ReadInv, Spent
<1>3. Reported' BY DEF ReadInv, Reported, Sent, Threads
<1> QED BY <1>1, <1>2, <1>3 DEF ReadInv, SameRead

LEMMA WaitingFrame ==
  ASSUME unread' = unread, \A t \in Threads : held'[t] \subseteq held[t]
  PROVE  \A r \in Records : Waiting(r)' => Waiting(r)
BY DEF Waiting, Unread

LEMMA MainReads ==
  ASSUME TypeInv, StartInv, CountInv, ReadInv, Running(MainStep)
  PROVE  ReadInv' /\ SameRead
<1>1. MainStep BY DEF Running
<1> USE SumShape
<1>2. CASE Begin
  <2>1. \A t \in Threads, r \in Records : nr'[t][r] = nr[t][r]
    BY <1>2 DEF Begin, Add, Value
  <2>2. UNCHANGED <<unread, held, results>> BY <1>2 DEF Begin, Input, Ending
  <2> QED BY <2>1, <2>2, ReadFrame, WaitingFrame
<1>3. ASSUME UNCHANGED <<nr, unread, held, results>> PROVE ReadInv' /\ SameRead
  BY <1>3, ReadFrame, WaitingFrame
<1>4. CASE Receive \/ Drain
  <2>1. /\ results # << >> /\ results' = Tail(results) /\ UNCHANGED <<unread, held>>
        /\ nr' = nr \/ nr' = [nr EXCEPT ![Main] = Agg(@, Head(results).nr)]
    BY <1>4 DEF Receive, Drain, Data, Input
  <2>2. /\ 1 \in Sent /\ Head(results) = results[1]
        /\ \A i \in Sent' : i + 1 \in Sent /\ results'[i] = results[i + 1]
    BY <2>1, QueueHead DEF TypeInv
  <2>3. \A w \in Workers : nr'[w] = nr[w] BY <2>1
  <2>4. \A r \in Records : nr[Main][r] \in {0, 1} /\ results[1].nr[r] \in {0, 1}
    BY <2>2 DEF CountInv, Bits
  <2>5. \A r \in Records :
          nr'[Main][r] \in {nr[Main][r], nr[Main][r] + results[1].nr[r]}
    BY <2>1, <2>2 DEF Agg
  <2>6. \A r \in Records : nr[Main][r] = 1 => results[1].nr[r] = 0
    BY <2>2 DEF CountInv, Apart, Has, Counted
  <2>7. \A r \in Records : nr'[Main][r] = 1 => nr[Main][r] = 1 \/ results[1].nr[r] = 1
    BY <2>4, <2>5
  <2>8. \A r \in Records : nr[Main][r] = 1 => nr'[Main][r] = 1
    BY <2>4, <2>5, <2>6
  <2>9. \A t \in Threads : t = Main \/ t \in Workers BY DEF Threads
  <2>10. \A r \in Records : Read(r)' <=> Read(r)
    BY <2>2, <2>3, <2>7, <2>8, <2>9 DEF Read, ReadInv, Reported
  <2>11. Spent' BY <2>1, <2>10, WaitingFrame DEF ReadInv, Spent
  <2>12. Reported' BY <2>2, <2>3 DEF ReadInv, Reported
  <2> QED BY <2>10, <2>11, <2>12 DEF ReadInv, SameRead
<1>5. Begin \/ Receive \/ Drain \/ UNCHANGED <<nr, unread, held, results>>
  BY <1>1
  DEF MainStep, BeginFails, Spawn, FlushFails, OwnResult, Received, Drained, Join,
      MainPanics, End, EndFails, Return, BeginExit, EndExit, Data, Input, Ending
<1> QED BY <1>2, <1>3, <1>4, <1>5

LEMMA LoopReads ==
  ASSUME TypeInv, StartInv, CountInv, ReadInv, NEW t \in Threads, LoopStep(t)
  PROVE  ReadInv' /\ (SameRead \/ OneMore)
<1> USE SumShape
<1>1. CASE Enter(t) \/ Check(t) \/ Finish(t)
  <2>1. UNCHANGED <<nr, unread, held, results>>
    BY <1>1 DEF Enter, Check, Finish, Input, Data, Ending
  <2> QED BY <2>1, ReadFrame, WaitingFrame
<1>2. ASSUME NEW r \in Records, NEW c, Take(t, r), LeaveLoop(t, c), UNCHANGED Data
      PROVE  ReadInv' /\ SameRead
  <2>1. UNCHANGED <<nr, unread, results>> BY <1>2 DEF Take, LeaveLoop, Data, Ending
  <2>2. \A u \in Threads : held'[u] \subseteq held[u] BY <1>2 DEF Take
  <2> QED BY <2>1, <2>2, ReadFrame, WaitingFrame
<1>3. CASE Get(t)
  <2>1. UNCHANGED <<nr, results>> BY <1>3 DEF Get, Data, Ending
  <2>2. \A r \in Records : Waiting(r)' => Waiting(r)
    <3>1. CASE UNCHANGED <<held, unread>> BY <3>1, WaitingFrame
    <3>2. ASSUME NEW chunk \in unread, unread' = unread \ {chunk},
                 held' = [held EXCEPT ![t] = chunk]
          PROVE  \A r \in Records : Waiting(r)' => Waiting(r)
      <4>1. \A u \in Threads : held'[u] = IF u = t THEN chunk ELSE held[u] BY <3>2
      <4> QED BY <3>2, <4>1 DEF Waiting, Unread
    <3> QED BY <1>3, <3>1, <3>2 DEF Get, Input
  <2> QED BY <2>1, <2>2, ReadFrame
<1>4. ASSUME NEW r \in Records, Process(t, r) PROVE ReadInv' /\ OneMore
  <2>1. /\ r \in held[t] /\ UNCHANGED <<pc, unread, results>>
        /\ held' = [held EXCEPT ![t] = held[t] \ {r}]
        /\ nr' = [nr EXCEPT ![t] = Add(@, r)]
    BY <1>4 DEF Process, Take, Ending
  <2>2. Waiting(r) BY <2>1 DEF Waiting
  <2>3. ~Read(r) BY <2>2 DEF ReadInv, Spent
  <2>4. nr[t][r] = 0 BY <2>3 DEF CountInv, Bits, Read
  <2>5. \A u \in Threads, k \in Records :
           nr'[u][k] = IF u = t /\ k = r THEN 1 ELSE nr[u][k]
    BY <2>1, <2>4 DEF Add, Value
  <2>6. \A k \in Records : Read(k)' <=> Read(k) \/ k = r
    BY <2>5, <2>3 DEF Read
  <2>7. \A u \in Threads, k \in Records : k \in held'[u] => k \in held[u] /\ k # r
    BY <2>1 DEF CountInv, Apart
  <2>8. ~Unread(r) /\ \A k \in Records : Unread(k)' <=> Unread(k)
    BY <2>1 DEF CountInv, Apart, Unread
  <2>9. Spent' BY <2>6, <2>7, <2>8 DEF ReadInv, Spent, Waiting
  <2>10. Reported' BY <2>1, <2>5 DEF ReadInv, Reported, Sent
  <2>11. OneMore BY <1>4, <2>3, <2>6 DEF OneMore
  <2> QED BY <2>9, <2>10, <2>11 DEF ReadInv
<1> QED BY <1>1, <1>2, <1>3, <1>4 DEF LoopStep, LoopFails, LoopExit

LEMMA WorkerReads ==
  ASSUME TypeInv, StartInv, ReadInv, NEW w \in Workers,
         Start(w) \/ SendResult(w) \/ DropCore(w)
  PROVE  ReadInv' /\ SameRead
<1> USE SumShape
<1>1. CASE Start(w) \/ DropCore(w)
  <2>1. UNCHANGED <<nr, unread, held, results>>
    BY <1>1 DEF Start, DropCore, Input, Data, Ending
  <2> QED BY <2>1, ReadFrame, WaitingFrame
<1>2. CASE SendResult(w)
  <2>1. UNCHANGED <<nr, held, unread>> BY <1>2 DEF SendResult, Input
  <2>2. /\ Len(results') = Len(results) + 1 /\ Len(results) \in Nat
        /\ \A i \in 1..Len(results) : results'[i] = results[i]
        /\ results'[Len(results) + 1] = Result(w)
    BY <1>2, QueueAppend DEF SendResult, TypeInv, Queue
  <2>3. \A i \in Sent' : i \in Sent \/ i = Len(results) + 1 BY <2>2 DEF Sent
  <2>4. Result(w).nr = nr[w] BY DEF Result
  <2>5. Reported' BY <2>1, <2>2, <2>3, <2>4 DEF ReadInv, Reported, Sent
  <2>6. SameRead BY <2>1 DEF SameRead, Read
  <2>7. Spent' BY <2>1, <2>6, WaitingFrame DEF ReadInv, Spent, SameRead
  <2> QED BY <2>5, <2>6, <2>7 DEF ReadInv
<1> QED BY <1>1, <1>2

(* A step counts nothing, or the loop processes a record nobody has counted. *)
LEMMA StepReads ==
  ASSUME TypeInv, StartInv, CountInv, ReadInv, [Next]_vars
  PROVE  ReadInv' /\ (SameRead \/ OneMore)
<1>1. CASE MainThread
  BY <1>1, MainReads, LoopReads DEF MainThread, Running, Threads
<1>2. ASSUME NEW w \in Workers, Worker(w) PROVE ReadInv' /\ (SameRead \/ OneMore)
  BY <1>2, WorkerReads, LoopReads DEF Worker, WorkerStep, Running, Threads
<1>3. CASE UNCHANGED vars BY <1>3, ReadFrame, WaitingFrame DEF vars
<1> QED BY <1>1, <1>2, <1>3 DEF Next, Gone

(* Nobody goes back to BEGIN, and what was called stays called. *)
LEMMA NeverBack ==
  ASSUME TypeInv, Next
  PROVE  /\ pc'[Main] = "begin" => pc[Main] = "begin"
         /\ calls \subseteq calls'
<1> USE SumShape DEF Goto
<1>1. pc \in [Threads -> Labels] /\ Main \in Threads BY DEF TypeInv, TypeOK, Labels, Threads
<1>2. calls \subseteq calls'
  BY DEF Next, MainThread, Worker, Running, Gone, vars, MainStep, LoopStep,
     WorkerStep, Begin, BeginFails, Spawn, FlushFails, OwnResult, Receive,
     Received, Drain, Drained, Join, MainPanics, End, EndFails, Return,
     BeginExit, EndExit, Enter, Check, Get, Finish, Process, LoopFails,
     LoopExit, Start, SendResult, DropCore, Calls, FailStage, ExitStage
<1>3. ASSUME MainStep PROVE pc'[Main] = "begin" => pc[Main] = "begin"
  BY <1>1, <1>3
  DEF MainStep, Begin, BeginFails, Spawn, FlushFails, OwnResult, Receive,
      Received, Drain, Drained, Join, MainPanics, End, EndFails, Return,
      BeginExit, EndExit, FailStage, ExitStage, AfterBegin
<1>4. ASSUME NEW t \in Threads, LoopStep(t)
      PROVE  pc'[Main] = "begin" => pc[Main] = "begin"
  <2>1. ASSUME NEW c, LeaveLoop(t, c) PROVE pc'[Main] = "begin" => pc[Main] = "begin"
    BY <1>1, <2>1 DEF LeaveLoop, AfterLoop
  <2>2. CASE Enter(t) \/ Check(t) \/ Get(t) \/ Finish(t)
    BY <1>1, <2>2 DEF Enter, Check, Get, Finish, AfterLoop
  <2>3. ASSUME NEW r \in Records, Process(t, r) PROVE pc' = pc BY <2>3 DEF Process
  <2> QED BY <1>4, <2>1, <2>2, <2>3 DEF LoopStep, LoopFails, LoopExit
<1>5. ASSUME NEW w \in Workers, Start(w) \/ SendResult(w) \/ DropCore(w)
      PROVE  pc'[Main] = "begin" => pc[Main] = "begin"
  BY <1>1, <1>5 DEF Start, SendResult, DropCore, Threads
<1>6. CASE UNCHANGED vars BY <1>6 DEF vars
<1>7. \A w \in Workers : w \in Threads BY DEF Threads
<1> QED BY <1>1, <1>2, <1>3, <1>4, <1>5, <1>6, <1>7
    DEF Next, MainThread, Worker, WorkerStep, Running, Gone

SerialInv == AllInv /\ SumInv /\ ReadInv

LEMMA SerialShape ==
  ASSUME SerialInv, SerialInv'
  PROVE  /\ SerialRead = IF Left THEN {} ELSE {r \in Records : Read(r)}
         /\ SerialRead' = IF Left' THEN {} ELSE {r \in Records : Read(r)'}
<1>1. \A r \in Records : (\E t \in Threads : nr[t][r] > 0) <=> Read(r)
  BY DEF SerialInv, AllInv, CountInv, Bits, Read
<1>2. \A r \in Records : (\E t \in Threads : nr'[t][r] > 0) <=> Read(r)'
  BY DEF SerialInv, AllInv, CountInv, Bits, Read
<1> QED BY <1>1, <1>2 DEF SerialRead

(* END begins when every record is counted, and finds each counted once. *)
LEMMA EndSimulates ==
  ASSUME SerialInv, SerialInv', End, proc = "running", ~Left, ~Left',
         seen' # seen, SameRead
  PROVE  Serial!End
<1>1. pc[Main] = "end" /\ UNCHANGED <<nr, calls>> BY DEF End
<1>2. seen = << >> /\ Ended' /\ ~Ended
  BY <1>1 DEF SerialInv, SumInv, EndedAt, Ended
<1>3. calls = {} /\ proc' = "running"
  BY <1>1, AtEnd DEF SerialInv, AllInv, Left
<1>4. Main \in Threads /\ \A r \in Records : nr[Main][r] = 1
  BY <1>1, <1>3, AllCounted DEF SerialInv, SumInv, Threads
<1>5. SerialStage = "loop" /\ SerialStage' = "end"
  BY <1>1, <1>2, <1>3 DEF SerialStage, Left
<1>6. SerialRead = Records /\ SerialRead' = SerialRead
  <2>1. \A r \in Records : Read(r) BY <1>4 DEF Read
  <2> QED BY <2>1, SerialShape DEF SameRead, Left
<1>7. SerialFound' = [v \in Counters |-> [r \in Records |-> 1]]
  <2>1. \A v \in In("loop") \cap In("end"), r \in Records : seen'[v][r] = 1
    BY <1>1, <1>2, <1>3 DEF SerialInv, SumInv, Aggregated
  <2>2. \A v \in Counters, r \in Records : seen'[v][r] = 1
    BY <2>1 DEF Counters
  <2>3. SerialFound' = [v \in Counters |-> [r \in Records |-> seen'[v][r]]]
    BY <1>2 DEF SerialFound
  <2>4. [v \in Counters |-> [r \in Records |-> seen'[v][r]]]
        = [v \in Counters |-> [r \in Records |-> 1]]
    BY <2>2
  <2> QED BY <2>3, <2>4
<1> QED BY <1>5, <1>6, <1>7 DEF Serial!End

(* The loop processes a record that nobody has processed. *)
LEMMA ProcessSimulates ==
  ASSUME SerialInv, SerialInv', OneMore, proc = "running", ~Left, ~Left'
  PROVE  \E r \in Records : Serial!Record(r)
<1>1. PICK t \in Threads, r \in Records :
        Process(t, r) /\ ~Read(r) /\ \A k \in Records : Read(k)' <=> Read(k) \/ k = r
  BY DEF OneMore
<1>2. pc[t] = "read" /\ UNCHANGED <<pc, proc, seen, calls>>
  BY <1>1 DEF Process, Take, GoesOn
<1>3. t = Main \/ t \in Workers BY DEF Threads
<1>4. pc[Main] \notin {"begin", "end", "last"}
  <2>1. CASE t = Main BY <1>2, <2>1
  <2>2. CASE t \in Workers
    <3>1. pc[Main] # "begin"
      BY <1>2, <2>2, SumShape DEF SerialInv, AllInv
    <3>2. HasSender(t) BY <1>2 DEF HasSender
    <3> QED BY <2>2, <3>1, <3>2, AtEnd DEF SerialInv, AllInv
  <2> QED BY <1>3, <2>1, <2>2
<1>5. ~Ended /\ ~Ended' BY <1>2, <1>4 DEF SerialInv, SumInv, EndedAt, Ended
<1>6. SerialStage = "loop" /\ SerialStage' = "loop"
  BY <1>2, <1>4, <1>5 DEF SerialStage
<1>7. SerialFound' = SerialFound BY <1>5 DEF SerialFound
<1>8. SerialRead = {k \in Records : Read(k)} /\ SerialRead' = {k \in Records : Read(k)'}
  BY SerialShape
<1>9. r \notin SerialRead /\ SerialRead' = SerialRead \cup {r}
  BY <1>1, <1>8
<1> QED BY <1>6, <1>7, <1>9 DEF Serial!Record

LEMMA StepSimulates ==
  ASSUME SerialInv, SerialInv', [Next]_vars
  PROVE  [Serial!Next]_(Serial!vars)
<1> USE DEF Serial!vars
<1>1. CASE UNCHANGED vars
  <2>1. (Left' <=> Left) /\ (Ended' <=> Ended)
    BY <1>1 DEF vars, Left, Ended
  <2>2. SerialStage' = SerialStage BY <1>1, <2>1 DEF vars, SerialStage
  <2>3. SerialRead' = SerialRead BY <1>1, <2>1 DEF vars, SerialRead
  <2>4. SerialFound' = SerialFound BY <1>1, <2>1 DEF vars, SerialFound
  <2> QED BY <2>2, <2>3, <2>4
<1>2. ASSUME Next, proc = "running" PROVE [Serial!Next]_(Serial!vars)
  <2>1. calls \subseteq calls' /\ (pc'[Main] = "begin" => pc[Main] = "begin")
    BY <1>2, NeverBack DEF SerialInv, AllInv
  <2>2. CASE proc' # "running"
    <3>1. SerialStage # "over" /\ SerialStage' = "over"
      BY <1>2, <2>2 DEF SerialStage
    <3>2. SerialRead' = {} /\ SerialFound' = << >>
      BY <2>2 DEF SerialRead, SerialFound, Left
    <3> QED BY <3>1, <3>2 DEF Serial!Next, Serial!Stop
  <2>3. CASE proc' = "running" /\ Left
    <3>1. Left' BY <1>2, <2>1, <2>3 DEF Left
    <3>2. SerialStage' = SerialStage BY <1>2, <2>3, <3>1 DEF SerialStage
    <3>3. SerialRead' = SerialRead /\ SerialFound' = SerialFound
      BY <2>3, <3>1 DEF SerialRead, SerialFound
    <3> QED BY <3>2, <3>3
  <2>4. CASE proc' = "running" /\ ~Left /\ Left'
    <3>1. SerialStage \notin {"left", "over"} /\ SerialStage' = "left"
      BY <1>2, <2>4 DEF SerialStage
    <3>2. SerialRead' = {} /\ SerialFound' = << >>
      BY <2>4 DEF SerialRead, SerialFound
    <3> QED BY <3>1, <3>2 DEF Serial!Next, Serial!Leave
  <2>5. CASE proc' = "running" /\ ~Left /\ ~Left'
    <3>1. SameRead \/ OneMore BY <1>2, StepReads DEF SerialInv, AllInv
    <3>2. CASE OneMore
      BY <1>2, <2>5, <3>2, ProcessSimulates DEF Serial!Next
    <3>3. CASE SameRead /\ seen' # seen
      BY <1>2, <2>5, <3>3, OnlyEnd, EndSimulates DEF Serial!Next
    <3>4. CASE SameRead /\ seen' = seen
      <4>1. Ended' <=> Ended BY <3>4 DEF Ended
      <4>2. SerialRead' = SerialRead
        BY <2>5, <3>4, SerialShape DEF SameRead
      <4>3. SerialFound' = SerialFound
        BY <2>5, <3>4, <4>1 DEF SerialFound
      <4>4. CASE SerialStage' = SerialStage BY <4>2, <4>3, <4>4
      <4>5. CASE SerialStage' # SerialStage
        <5>1. SerialStage = "begin" /\ SerialStage' = "loop"
          BY <1>2, <2>1, <2>5, <4>1, <4>5 DEF SerialStage
        <5> QED BY <4>2, <4>3, <5>1 DEF Serial!Next, Serial!Begin
      <4> QED BY <4>4, <4>5
    <3> QED BY <3>1, <3>2, <3>3, <3>4
  <2> QED BY <2>2, <2>3, <2>4, <2>5
<1>3. Next => proc = "running" \/ UNCHANGED vars
  BY DEF Next, MainThread, Worker, Running, Gone
<1> QED BY <1>1, <1>2, <1>3

LEMMA InitSimulates == Init => Serial!Init
<1> SUFFICES ASSUME Init PROVE Serial!Init OBVIOUS
<1>1. proc = "running" /\ ~Left /\ ~Ended /\ pc[Main] = "begin"
  BY DEF Init, Left, Ended, Threads
<1>2. \A r \in Records, t \in Threads : ~(nr[t][r] > 0)
  BY DEF Init, Zero
<1> QED BY <1>1, <1>2 DEF Serial!Init, SerialStage, SerialRead, SerialFound

(* No record is forgotten or processed twice, whatever is called and whatever
   fails: the invariant of the refinement (ParallelChunkProducer, Stage 3).  *)
THEOREM SerialInvariance == Spec => []SerialInv
<1>1. SerialInv => TypeInv /\ StartInv /\ CountInv BY DEF SerialInv, AllInv
<1>2. TypeInv /\ StartInv /\ CountInv /\ ReadInv /\ [Next]_vars => ReadInv'
  BY StepReads
<1>3. (TypeInv /\ StartInv /\ CodeInv /\ PanicInv) /\ (TypeInv /\ StartInv /\ CountInv)
        => AllInv
  BY DEF AllInv
<1>4. AllInv /\ SumInv /\ ReadInv => SerialInv BY DEF SerialInv
<1> QED BY <1>2, <1>3, <1>4, InitRead, PanicInvariance, CountInvariance,
           SumInvariance, PTL DEF Spec

(* Every step of a parallel run, with any number of workers, is one that the
   serial run allows: BEGIN, a record that was not processed yet, END after all
   of them with each counted once, or the early end that exit or an error brings
   (run_parallel in interp.rs, run_main).  With the liveness that the runs check
   this is LikeSerial.  *)
THEOREM StepsLikeSerial == Spec => Serial!Init /\ [][Serial!Next]_(Serial!vars)
<1>1. SerialInv /\ SerialInv' /\ [Next]_vars => [Serial!Next]_(Serial!vars)
  BY StepSimulates
<1> QED BY <1>1, InitSimulates, SerialInvariance, PTL DEF Spec
=============================================================================
