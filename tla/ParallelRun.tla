---------------------------- MODULE ParallelRun ----------------------------
(***************************************************************************)
(* One parallel run of a script: the three stages BEGIN, main loop and END *)
(* that Interp::run_parallel (interp.rs) executes for the bytecode         *)
(* interpreter and run_main (codegen/mod.rs) for compiled programs.        *)
(*                                                                         *)
(* The main thread runs BEGIN, hands a copy of its slots to the workers,   *)
(* runs the main loop like them, adds up the slots that the workers send   *)
(* over a channel, and runs END.  `exit' and runtime errors may cut every  *)
(* stage short, in ways that differ between the two implementations.       *)
(*                                                                         *)
(* The value of an integer variable is kept as what was added to it:       *)
(* value[k] is how often the contribution k is in the sum.  BEGIN adds     *)
(* `First' to each variable it mentions, and the main loop adds the record *)
(* it reads.  A map from keys to integers has the same aggregation.        *)
(*                                                                         *)
(* A thread's unflushed output is the set of stages that printed it; the   *)
(* order within a stage is that of Writers.                                *)
(***************************************************************************)
EXTENDS Integers, Sequences, FiniteSets

CONSTANTS
  Main,      \* the main thread
  Workers,   \* the threads asked for by try_resize; none: a serial run
  Chunks,    \* the input: disjoint sets of records
  First,     \* the contribution of BEGIN (the line its getline reads)
  Vars,      \* global variables of the script
  Refs,      \* the stages that mention each of them
  Builds,    \* who may run the script: "interp", "jit" or either
  Codes,     \* the codes the script calls exit with; 0 also stands for a
             \* failed print, which both treat as exit 0
  Errors     \* may an instruction fail?

Records == UNION Chunks
Threads == Workers \cup {Main}
Stages == <<"begin", "loop", "end">>
NoCode == -1    \* SENTINEL
Failed == -2    \* Err(_) in place of a code

ASSUME ConstantsOK ==
  /\ Main \notin Workers
  /\ First \notin Records
  /\ \A c, d \in Chunks : c = d \/ c \cap d = {}
  /\ {} \notin Chunks
  /\ Refs \in [Vars -> SUBSET {"begin", "loop", "end"}]
  /\ Codes \subseteq Nat
  /\ Builds \subseteq {"interp", "jit"} /\ Errors \in BOOLEAN

VARIABLES
  build,    \* who runs the script
  pc,       \* where each thread is
  unread,   \* chunks that no thread has taken
  held,     \* records of its chunk a thread has still to process
  regs,     \* the global variables, as the running stage sees them
  nr,       \* vars.nr
  slots,    \* Core.slots
  code,     \* what the thread's main loop returned or exited with
  results,  \* StageResults in the channel
  cancel,   \* CancelSignal.state
  rc,       \* rc of run_parallel
  buf,      \* stages whose output the thread has not flushed
  log,      \* stages of the output that left the threads, in order
  proc,     \* is the process running? (history: how it ended)
  status,   \* its exit status
  calls,    \* codes that exit was called with (history)
  seen      \* the variables END started with (history)

vars == <<build, pc, unread, held, regs, nr, slots, code, results, cancel, rc, buf,
          log, proc, status, calls, seen>>

------------------------------------------------------------------------------
Jit == build = "jit"

(* Values, slots and their aggregation. *)

Value == [Records \cup {First} -> Nat]
Zero == [k \in Records \cup {First} |-> 0]
Add(x, k) == [x EXCEPT ![k] = @ + 1]
\* Agg for Int, and for maps with Int values.
Agg(x, y) == [k \in Records \cup {First} |-> x[k] + y[k]]

In(stage) == {v \in Vars : stage \in Refs[v]}
BeginEnd == In("begin") \cap In("end")
\* Mutant: only what END needs is stored.
BeginStores_OnlyEnd == BeginEnd

BeginStores == (In("begin") \cap In("loop")) \cup BeginEnd
LoopStores == (In("loop") \cap In("end")) \cup BeginEnd

\* SlotCounter numbers the slots of BeginStores first, and set_slot fills the
\* slots below the one it stores to with defaults.
Below(vs) == vs \cup (IF vs \subseteq BeginStores THEN {} ELSE BeginStores)
SlotOf(s, v) == IF v \in DOMAIN s THEN s[v] ELSE Zero
Store(s, r, vs) ==
  [v \in DOMAIN s \cup Below(vs) |-> IF v \in vs THEN r[v] ELSE SlotOf(s, v)]

Combine(s, t) ==
  [v \in DOMAIN s \cup DOMAIN t |-> Agg(SlotOf(s, v), SlotOf(t, v))]
\* The registers of a stage that mentions `mine' and loads the slots `vs'.
Load(s, vs, mine) ==
  [v \in mine \cup vs |-> IF v \in vs THEN s[v] ELSE Zero]

LoopVars == In("loop") \cup BeginEnd

------------------------------------------------------------------------------
Init ==
  /\ build \in Builds
  /\ pc = [t \in Threads |-> IF t = Main THEN "begin" ELSE "unborn"]
  /\ unread = Chunks
  /\ held = [t \in Threads |-> {}]
  /\ regs = [t \in Threads |-> << >>]
  /\ nr = [t \in Threads |-> Zero]
  /\ slots = [t \in Threads |-> << >>]
  /\ code = [t \in Threads |-> NoCode]
  /\ results = << >>
  /\ cancel = NoCode /\ rc = 0
  /\ buf = [t \in Threads |-> {}] /\ log = << >>
  /\ proc = "running" /\ status = 0
  /\ calls = {} /\ seen = << >>

Goto(t, l) == pc' = [pc EXCEPT ![t] = l]

\* The output of the stages in b reaches the log, which keeps a run of output
\* of one stage once.
Extend(l, s, b) ==
  IF s \notin b \/ (l # << >> /\ l[Len(l)] = s) THEN l ELSE Append(l, s)
Write(l, b) ==
  Extend(Extend(Extend(l, "begin", b), "loop", b), "end", b)

Flush(t) ==
  /\ log' = Write(log, buf[t])
  /\ buf' = [buf EXCEPT ![t] = {}]

\* A print in stage s.  The buffer may fill up, and is then sent.
Emit(t, s) ==
  \/ buf' = [buf EXCEPT ![t] = @ \cup {s}] /\ UNCHANGED log
  \/ buf' = [buf EXCEPT ![t] = {}] /\ log' = Write(log, buf[t] \cup {s})

\* The process ends.  Dropping the Core of the main thread flushes its output;
\* fail! in main.rs exits without dropping anything.
Exit(c) ==
  /\ proc' = "exited" /\ status' = c
  /\ Flush(Main)
Abort(c) ==
  /\ proc' = "aborted" /\ status' = c
  /\ UNCHANGED <<buf, log>>

GoesOn == UNCHANGED <<proc, status>>
Calls(c) == calls' = calls \cup {c}
Input == <<unread, held>>
Data == <<regs, nr, slots, seen>>
Ending == <<code, results, cancel, rc>>

\* How a stage run by the main thread alone ends when the script calls exit,
\* which run_at returns to the interpreter as its result.
ExitStage(c, next) ==
  /\ Calls(c)
  /\ IF Jit \/ c # 0
     THEN Exit(c) /\ UNCHANGED pc
     ELSE /\ IF next = "exit" THEN Exit(0) /\ UNCHANGED pc
                              ELSE Goto(Main, next) /\ GoesOn /\ UNCHANGED <<buf, log>>

\* ... and when an instruction fails.
FailStage ==
  /\ Errors
  /\ IF Jit THEN Exit(1) /\ Calls(1) ELSE Abort(1) /\ UNCHANGED calls
  /\ UNCHANGED pc

------------------------------------------------------------------------------
(* BEGIN *)

AfterBegin == IF Workers = {} THEN "enter" ELSE "flush"

Begin ==
  /\ pc[Main] = "begin"
  /\ slots' = [slots EXCEPT ![Main] =
                 Store(@, [v \in BeginStores |-> Add(Zero, First)], BeginStores)]
  /\ nr' = [nr EXCEPT ![Main] = Add(@, First)]
  /\ Emit(Main, "begin")
  /\ Goto(Main, AfterBegin) /\ GoesOn
  /\ UNCHANGED <<Input, Ending, regs, seen, calls>>

BeginExit(c) ==
  /\ pc[Main] = "begin"
  /\ ExitStage(c, AfterBegin)
  /\ UNCHANGED <<Input, Data, Ending>>

BeginFails ==
  /\ pc[Main] = "begin"
  /\ FailStage
  /\ UNCHANGED <<Input, Data, Ending>>

\* Mutants: the workers start without slots; flush_stdout is forgotten.
Spawn_NoSlots ==
  /\ pc[Main] = "flush"
  /\ Flush(Main)
  /\ pc' = [t \in Threads |-> IF t = Main THEN "enter" ELSE "start"]
  /\ GoesOn
  /\ UNCHANGED <<Input, Ending, regs, nr, slots, seen, calls>>
Spawn_NoFlush ==
  /\ pc[Main] = "flush"
  /\ pc' = [t \in Threads |-> IF t = Main THEN "enter" ELSE "start"]
  /\ slots' = [t \in Threads |-> slots[Main]]
  /\ GoesOn
  /\ UNCHANGED <<Input, Ending, regs, nr, seen, buf, log, calls>>

\* flush_stdout; then every worker gets a copy of the slots (Core::shuttle).
Spawn ==
  /\ pc[Main] = "flush"
  /\ Flush(Main)
  /\ pc' = [t \in Threads |-> IF t = Main THEN "enter" ELSE "start"]
  /\ slots' = [t \in Threads |-> slots[Main]]
  /\ GoesOn
  /\ UNCHANGED <<Input, Ending, regs, nr, seen, calls>>

FlushFails ==
  /\ pc[Main] = "flush" /\ Errors
  /\ proc' = "exited" /\ status' = IF Jit THEN 0 ELSE 1
  /\ buf' = [buf EXCEPT ![Main] = {}]
  /\ UNCHANGED <<pc, Input, Data, Ending, log, calls>>

------------------------------------------------------------------------------
(* The main loop, on the main thread and on the workers. *)

\* stdin.wait(): a worker may find that it is not needed.
Start(w) ==
  /\ pc[w] = "start"
  /\ Goto(w, "enter") \/ Goto(w, "gone")
  /\ GoesOn
  /\ UNCHANGED <<Input, Data, Ending, buf, log, calls>>

\* The LoadSlots at the entry of the main loop; a missing slot is an index
\* out of bounds.
Enter(t) ==
  /\ pc[t] = "enter"
  /\ IF BeginStores \subseteq DOMAIN slots[t]
     THEN /\ regs' = [regs EXCEPT ![t] = Load(slots[t], BeginStores, LoopVars)]
          /\ Goto(t, "read")
     ELSE Goto(t, "panicked") /\ UNCHANGED regs
  /\ GoesOn
  /\ UNCHANGED <<Input, Ending, nr, slots, seen, buf, log, calls>>

\* Mutant: the reader is not cancellable.
Check_NoSignal(t) ==
  /\ pc[t] = "read" /\ held[t] = {}
  /\ Goto(t, "get")
  /\ GoesOn
  /\ UNCHANGED <<Input, Data, Ending, buf, log, calls>>

\* CancellableChunkProducer::get_chunk: the signal is read first.
Check(t) ==
  /\ pc[t] = "read" /\ held[t] = {}
  /\ Goto(t, IF cancel # NoCode THEN "eof" ELSE "get")
  /\ GoesOn
  /\ UNCHANGED <<Input, Data, Ending, buf, log, calls>>

\* Mutant: a chunk goes to everyone who asks.
Get_Shared(t) ==
  /\ pc[t] = "get"
  /\ \/ unread' = {} /\ Goto(t, "eof") /\ UNCHANGED held
     \/ \E chunk \in unread :
          /\ held' = [held EXCEPT ![t] = chunk]
          /\ Goto(t, "read")
          /\ UNCHANGED unread
  /\ GoesOn
  /\ UNCHANGED <<Data, Ending, buf, log, calls>>

Get(t) ==
  /\ pc[t] = "get"
  /\ \/ /\ unread = {}
        /\ Goto(t, "eof")
        /\ UNCHANGED Input
     \/ \E chunk \in unread :
          /\ unread' = unread \ {chunk}
          /\ held' = [held EXCEPT ![t] = chunk]
          /\ Goto(t, "read")
  /\ GoesOn
  /\ UNCHANGED <<Data, Ending, buf, log, calls>>

Take(t, r) ==
  /\ pc[t] = "read" /\ r \in held[t]
  /\ held' = [held EXCEPT ![t] = @ \ {r}]
  /\ UNCHANGED unread

\* One iteration of the loop.
Process(t, r) ==
  /\ Take(t, r)
  /\ regs' = [regs EXCEPT ![t] = [v \in DOMAIN @ |->
                IF v \in In("loop") THEN Add(@[v], r) ELSE @[v]]]
  /\ nr' = [nr EXCEPT ![t] = Add(@, r)]
  /\ Emit(t, "loop")
  /\ GoesOn
  /\ UNCHANGED <<pc, Ending, slots, seen, calls>>

\* Where a thread that leaves its loop goes next.
AfterLoop(t) == IF t = Main THEN "recv" ELSE "send"

\* exit!: a compiled program cancels the input first.  The interpreter leaves
\* run_at there, before the StoreSlots in the last block.
LeaveLoop(t, c) ==
  IF Jit
  THEN IF Workers = {}
       THEN Exit(c) /\ UNCHANGED <<pc, Ending>>
       ELSE /\ cancel' = IF cancel = NoCode THEN c ELSE cancel
            /\ code' = [code EXCEPT ![t] = c]
            /\ Goto(t, IF t = Main THEN "drain" ELSE "send")
            /\ GoesOn /\ UNCHANGED <<results, rc, buf, log>>
  ELSE /\ code' = [code EXCEPT ![t] = c]
       /\ Goto(t, AfterLoop(t))
       /\ GoesOn /\ UNCHANGED <<results, cancel, rc, buf, log>>

LoopExit(t, r, c) ==
  /\ Take(t, r)
  /\ LeaveLoop(t, c)
  /\ Calls(c)
  /\ UNCHANGED Data

LoopFails(t, r) ==
  /\ Errors
  /\ Take(t, r)
  /\ LeaveLoop(t, IF Jit THEN 1 ELSE Failed)
  /\ IF Jit THEN Calls(1) ELSE UNCHANGED calls
  /\ UNCHANGED Data

\* Mutant: extract_result without a code.
Finish_NoCode(t) ==
  /\ pc[t] = "eof"
  /\ slots' = [slots EXCEPT ![t] = Store(@, regs[t], LoopStores)]
  /\ Goto(t, AfterLoop(t))
  /\ GoesOn
  /\ UNCHANGED <<Input, Ending, regs, nr, seen, buf, log, calls>>

\* The end of the input: the last block of the main loop stores the slots.
Finish(t) ==
  /\ pc[t] = "eof"
  /\ slots' = [slots EXCEPT ![t] = Store(@, regs[t], LoopStores)]
  /\ code' = IF Jit THEN code ELSE [code EXCEPT ![t] = 0]
  /\ Goto(t, AfterLoop(t))
  /\ GoesOn
  /\ UNCHANGED <<Input, results, cancel, rc, regs, nr, seen, buf, log, calls>>

\* A worker's result, sent by the interpreter's closure or by the Cleanup of
\* the compiled program's Runtime, before its Core is dropped.
Result(w) == [slots |-> slots[w], nr |-> nr[w], code |-> code[w]]

SendResult(w) ==
  /\ pc[w] = "send"
  /\ results' = Append(results, Result(w))
  /\ slots' = [slots EXCEPT ![w] = << >>]
  /\ Goto(w, "drop") /\ GoesOn
  /\ UNCHANGED <<Input, code, cancel, rc, regs, nr, seen, buf, log, calls>>

\* Mutant: shutdown is not called.
DropCore_NoFlush(w) ==
  /\ pc[w] = "drop"
  /\ Goto(w, IF Jit /\ code[w] # NoCode THEN "blocked" ELSE "gone")
  /\ GoesOn
  /\ UNCHANGED <<Input, Data, Ending, buf, log, calls>>

\* Core is dropped, which flushes its files; a worker that called exit! then
\* waits on a Notification that nobody has.
DropCore(w) ==
  /\ pc[w] = "drop"
  /\ Flush(w)
  /\ Goto(w, IF Jit /\ code[w] # NoCode THEN "blocked" ELSE "gone")
  /\ GoesOn
  /\ UNCHANGED <<Input, Data, Ending, calls>>

------------------------------------------------------------------------------
(* The main thread collects the results. *)

\* Mutant: a worker drops its Sender too soon.
HasSender_Early(w) == pc[w] \in {"start", "enter", "read", "get", "eof"}

\* A worker's Sender lives until its closure returns; a compiled program moves
\* it into the Cleanup, which is gone once the result is sent.
HasSender(w) ==
  pc[w] \in {"start", "enter", "read", "get", "eof", "send"}
              \cup (IF Jit THEN {} ELSE {"drop"})
Disconnected == results = << >> /\ ~\E w \in Workers : HasSender(w)

\* Mutant: only the main thread's result counts.
FirstCode_Own(c, d) == c

FirstCode(c, d) == IF c = 0 THEN d ELSE c

\* The interpreter's own loop comes first.  An Err ends the scope at once.
OwnResult ==
  /\ ~Jit /\ pc[Main] = "recv" /\ code[Main] # NoCode
  /\ IF code[Main] = Failed
     THEN Goto(Main, "join") /\ rc' = Failed
     ELSE rc' = code[Main] /\ UNCHANGED pc
  /\ code' = [code EXCEPT ![Main] = NoCode]
  /\ GoesOn
  /\ UNCHANGED <<Input, Data, results, cancel, buf, log, calls>>

Receive ==
  /\ pc[Main] = "recv" /\ results # << >> /\ code[Main] = NoCode
  /\ results' = Tail(results)
  /\ LET res == Head(results) IN
     IF ~Jit /\ res.code = Failed
     THEN Goto(Main, "join") /\ rc' = Failed /\ UNCHANGED <<nr, slots>>
     ELSE /\ slots' = [slots EXCEPT ![Main] = Combine(@, res.slots)]
          /\ nr' = [nr EXCEPT ![Main] = Agg(@, res.nr)]
          /\ rc' = IF Jit THEN rc ELSE FirstCode(rc, res.code)
          /\ UNCHANGED pc
  /\ GoesOn
  /\ UNCHANGED <<Input, code, cancel, regs, seen, buf, log, calls>>

\* Mutant: the signal is not looked at.
Received_GoesOn ==
  /\ pc[Main] = "recv" /\ Disconnected /\ code[Main] = NoCode
  /\ Goto(Main, IF Jit THEN "end" ELSE "join") /\ GoesOn
  /\ UNCHANGED <<Input, Data, Ending, buf, log, calls>>

\* All senders are gone.  A compiled program that was cancelled stops here.
Received ==
  /\ pc[Main] = "recv" /\ Disconnected /\ code[Main] = NoCode
  /\ IF Jit /\ cancel # NoCode
     THEN Exit(cancel) /\ UNCHANGED pc
     ELSE Goto(Main, IF Jit THEN "end" ELSE "join") /\ GoesOn /\ UNCHANGED <<buf, log>>
  /\ UNCHANGED <<Input, Data, Ending, calls>>

\* exit! on the main thread of a compiled program: its Cleanup waits for the
\* workers' results and throws them away.
Drain ==
  /\ pc[Main] = "drain" /\ results # << >>
  /\ results' = Tail(results)
  /\ GoesOn
  /\ UNCHANGED <<pc, Input, Data, code, cancel, rc, buf, log, calls>>

Drained ==
  /\ pc[Main] = "drain" /\ Disconnected
  /\ Exit(code[Main])
  /\ UNCHANGED <<pc, Input, Data, Ending, calls>>

\* The interpreter's scope ends: it joins the workers, and a panic in any of
\* them or in the main thread surfaces here.
Joined == \A w \in Workers : pc[w] \in {"gone", "panicked"}

Join ==
  /\ pc[Main] = "join" /\ Joined
  /\ IF rc = Failed \/ \E w \in Workers : pc[w] = "panicked"
     THEN Abort(1) /\ UNCHANGED pc
     ELSE IF rc # 0 THEN Exit(rc) /\ UNCHANGED pc
                    ELSE Goto(Main, "end") /\ GoesOn /\ UNCHANGED <<buf, log>>
  /\ UNCHANGED <<Input, Data, Ending, calls>>

MainPanics ==
  /\ pc[Main] = "panicked" /\ Joined
  /\ Exit(101)
  /\ UNCHANGED <<pc, Input, Data, Ending, calls>>

------------------------------------------------------------------------------
(* END, and the end of the process. *)

End ==
  /\ pc[Main] = "end"
  /\ IF LoopStores \subseteq DOMAIN slots[Main]
     THEN seen' = Load(slots[Main], LoopStores, In("end")) /\ Goto(Main, "last")
     ELSE Goto(Main, "panicked") /\ UNCHANGED seen
  /\ Emit(Main, "end")
  /\ GoesOn
  /\ UNCHANGED <<Input, Ending, regs, nr, slots, calls>>

EndExit(c) ==
  /\ pc[Main] = "last"
  /\ ExitStage(c, "exit")
  /\ UNCHANGED <<Input, Data, Ending>>

EndFails ==
  /\ pc[Main] = "last"
  /\ FailStage
  /\ UNCHANGED <<Input, Data, Ending>>

\* A compiled program leaves its scope only now.
Return ==
  /\ pc[Main] = "last" /\ Joined
  /\ Exit(0)
  /\ UNCHANGED <<pc, Input, Data, Ending, calls>>

------------------------------------------------------------------------------
MainStep ==
  \/ Begin \/ BeginFails \/ Spawn \/ FlushFails
  \/ OwnResult \/ Receive \/ Received \/ Drain \/ Drained
  \/ Join \/ MainPanics \/ End \/ EndFails \/ Return
  \/ \E c \in Codes : BeginExit(c) \/ EndExit(c)

LoopStep(t) ==
  \/ Enter(t) \/ Check(t) \/ Get(t) \/ Finish(t)
  \/ \E r \in Records : Process(t, r) \/ LoopFails(t, r)
                          \/ \E c \in Codes : LoopExit(t, r, c)

WorkerStep(w) == Start(w) \/ LoopStep(w) \/ SendResult(w) \/ DropCore(w)

Running(A) == proc = "running" /\ A /\ UNCHANGED build
MainThread == Running(MainStep \/ LoopStep(Main))
Worker(w) == Running(WorkerStep(w))

\* Once the process has exited, every thread is gone.
Gone == proc # "running" /\ UNCHANGED vars

Next == MainThread \/ (\E w \in Workers : Worker(w)) \/ Gone

Spec == Init /\ [][Next]_vars

\* The operating system runs every thread that is not blocked.
FairSpec ==
  /\ Spec
  /\ WF_vars(MainThread)
  /\ \A w \in Workers : WF_vars(Worker(w))

------------------------------------------------------------------------------
(* Properties *)

SlotsOK(s) == DOMAIN s \subseteq Vars /\ \A v \in DOMAIN s : s[v] \in Value

\* Every variable has its type.
TypeOK ==
  /\ build \in Builds
  /\ pc \in [Threads -> {"begin", "flush", "unborn", "start", "enter", "read",
                         "get", "eof", "send", "drop", "gone", "blocked",
                         "panicked", "recv", "drain", "join", "end", "last"}]
  /\ unread \subseteq Chunks
  /\ held \in [Threads -> SUBSET Records]
  /\ DOMAIN regs = Threads /\ DOMAIN slots = Threads
  /\ \A t \in Threads : SlotsOK(regs[t]) /\ SlotsOK(slots[t])
  /\ nr \in [Threads -> Value]
  /\ code \in [Threads -> Codes \cup {NoCode, Failed, 0, 1}]
  /\ \A i \in 1..Len(results) :
       /\ SlotsOK(results[i].slots) /\ results[i].nr \in Value
       /\ results[i].code \in Codes \cup {NoCode, Failed, 0, 1}
  /\ cancel \in Codes \cup {NoCode, 1}
  /\ rc \in Codes \cup {Failed, 0, 1}
  /\ buf \in [Threads -> SUBSET {"begin", "loop", "end"}]
  /\ log \in Seq({"begin", "loop", "end"})
  /\ proc \in {"running", "exited", "aborted"} /\ status \in Int
  /\ calls \subseteq Codes \cup {1}
  /\ SlotsOK(seen)

Ended == seen # << >>

\* When no thread called exit, END finds every variable that the main loop
\* mentions with every record of the input counted exactly once, and so does
\* NR, whichever threads read them and in whatever order their results came
\* (Slots::combine, StageResult.nr; info/parallelism.md, "Aggregations").
Aggregated ==
  Ended /\ calls = {} =>
    /\ \A v \in In("loop") \cap In("end"), r \in Records : seen[v][r] = 1
    /\ nr[Main] = [k \in Records \cup {First} |-> 1]

\* A thread in its loop knows what BEGIN left in the variables both mention,
\* once (Core::shuttle; info/parallelism.md, stage 2).
BeginReachesLoop ==
  \A t \in Threads : pc[t] = "read" =>
    \A v \in In("begin") \cap In("loop") : regs[t][v][First] = 1

\* END finds what BEGIN left in a variable that the main loop does not
\* mention: such variables are not among those that info/parallelism.md
\* aggregates.
BeginReachesEnd ==
  Ended => \A v \in BeginEnd \ In("loop") : seen[v][First] = 1

\* The output of BEGIN reaches the file before any other, and, in the
\* interpreter, that of END after that of every worker.
Rank(s) == CHOOSE i \in 1..3 : Stages[i] = s
OutputInStageOrder ==
  \A i, j \in 1..Len(log) : i < j =>
    /\ log[j] = "begin" => log[i] = "begin"
    /\ ~Jit => Rank(log[i]) <= Rank(log[j])

\* What the threads printed is in the file when the process ends (Drop for
\* Core).  A compiled program only does so if nobody has called exit.
NothingUnflushed ==
  proc = "exited" /\ (Jit => calls = {}) => \A t \in Threads : buf[t] = {}

\* exit is final: END does not start after it, in whatever stage it was called
\* ("Exits the current process", info/reference.md).
ExitIsFinal == [][calls # {} => seen' = seen]_vars

\* ExitIsFinal, but for exit 0 in the interpreter.
FailureIsFinal == [][calls \ (IF Jit THEN {} ELSE {0}) # {} => seen' = seen]_vars

\* If exit was only called with nonzero codes, or by the interpreter with any
\* nonzero code, the process reports one of them (rc of run_parallel,
\* CancelSignal).
FailureIsReported ==
  proc = "exited" /\ calls \ {0} # {} /\ (Jit => 0 \notin calls) =>
    status \in calls \ {0}

(* In a compiled program, other threads have their input cut off by exit: once
   the signal is set no thread asks for another chunk, so that each finishes the
   chunk it has and at most the one it was about to get.  *)
InputCutOff ==
  [][Jit /\ cancel # NoCode =>
       \A t \in Threads : pc[t] # "get" =>
         held'[t] \subseteq held[t] /\ pc'[t] # "get"]_vars

\* A slot is stored before it is loaded, as long as the interpreter does not go
\* on after an exit 0.
NoPanic == \A t \in Threads : pc[t] = "panicked" => ~Jit /\ 0 \in calls

(* Whoever runs the script, it does what a serial run does, and ends.  After an
   exit(0), which the interpreter takes for the end of a stage, it only ends. *)
Counters == (In("loop") \cap In("end")) \ In("begin")
Left == proc # "running" \/ 0 \in calls
SerialStage ==
  IF proc # "running" THEN "over" ELSE IF Left THEN "left"
  ELSE IF Ended THEN "end" ELSE IF pc[Main] = "begin" THEN "begin" ELSE "loop"
SerialRead ==
  IF Left THEN {} ELSE {r \in Records : \E t \in Threads : nr[t][r] > 0}
SerialFound ==
  IF Ended /\ ~Left THEN [v \in Counters |-> [r \in Records |-> seen[v][r]]] ELSE << >>
Serial == INSTANCE SerialRun WITH
  stage <- SerialStage, read <- SerialRead, found <- SerialFound
LikeSerial == Serial!Spec
=============================================================================
