# frawk: a verification project

TLA+ models of frawk, model-checked with TLC and proved with TLAPS: the protocols
between its threads, the way from a script to a control-flow graph in SSA form,
the fixed points the compiler computes, and the tables that the compiler and its two backends must agree on. Paths are
relative to `src/src/` of the repository unless they start with `info/`; `writers.rs`, `chunk.rs` and `batch.rs` are in
`runtime/` and `runtime/splitter/`.

Everything a reader can run:

    tlc -workers 2 -config WritersFile.cfg MCWriters.tla
    tlc -workers 2 -config ParallelExit.cfg MCParallelRun.tla
    tlc -workers 2 -config ParallelInput.cfg MCParallelInput.tla
    tlc -workers 2 -config Notification.cfg MCNotification.tla
    tlc -workers 2 -config Compile.cfg MCCompile.tla
    tlc -workers 2 -config Backends.cfg MCBackends.tla
    tlapm WritersProof.tla
    tlapm WritersFileProof.tla
    tlapm NotificationProof.tla
    tlapm ParallelRunProof.tla
    tlapm ParallelExitProof.tla
    tlapm ParallelSumProof.tla
    tlapm ParallelInputProof.tla
    tlapm WorklistProof.tla

`PROJECT.json` lists every run with the properties it checks, the line of the
source behind every definition, the hazards and the disagreements found.

## Inventory

frawk compiles an Awk script (lexer, parser, control-flow graph and SSA, type
inference, bytecode) and runs it with a bytecode interpreter or through a code
generator (Cranelift, LLVM). In parallel mode (`-pr`, `-pf`) the main loop runs
on several threads. The parts that keep state while a script runs, and those
that hold the compiler's own algorithms:

| Part | State | Operations | Talks to | Hard behaviours | Correct when |
|---|---|---|---|---|---|
| Output files (writers.rs) | per thread and file: the current batch, the guards in flight, recycled guards; per file: a bounded channel, a batch, the open file | write_all, flush, close, drop, Registry::close, destroy_and_flush_all_files; receive_loop | every thread of the script to one writer thread per file, by requests holding raw pointers | interleaving of threads, IO errors in the middle of a batch, a full channel, guards recycled while still referenced | no pointer dangles; a close is synchronous; output is neither lost, reordered within a thread, nor overwritten; every operation returns |
| Parallel run (interp.rs, codegen/mod.rs, codegen/intrinsics.rs, cross_stage.rs, CancelSignal and Cleanup of common.rs) | the running stage, slots, per-thread variables, the result channel, the cancel signal, the exit code | BEGIN, spawning, the main loop, sending and combining results, END, exit, runtime errors | input (chunks), output files (flush, drop) | workers that start late or never, exit and errors in any thread and stage, results in any order | each record is counted once; stages do not overlap; exit ends the program with its code and its output |
| Parallel input (chunk.rs) | the producer thread, the chunk channel, the spent-chunk channel, start tokens | get_chunk, next_file, wait, try_dyn_resize | readers of the worker threads | a producer faster than its consumers, the start heuristic and its two-second timeout, errors in the producer, cancellation | every byte of the input reaches exactly one worker, in chunks that end at a record boundary |
| Readers and splitters (splitter/mod.rs, batch.rs, regex.rs, chunk.rs) | buffers with start and end, offsets found by the SIMD kernels, the splitter state carried over chunks | refill, consume_line, get_chunk, set_col, read_line | FileRead, the interpreter | records and quotes across buffer ends, a missing final newline, assigned fields | the records and fields are those of the whole input, however it is cut into buffers |
| Notification (common.rs) | a flag, a mutex, a condition variable | notify, wait | exit of compiled programs | a notify between check and wait | no wakeup is lost |
| Strings (str_impl.rs, utf8.rs) | tagged representations, reference counts, ranges into buffers | clone, slice, concat, join, drop; UTF-8 checks over buffers | everywhere | counts at their limit, empty and inline strings, characters across buffers | no buffer is freed while referenced; validation agrees with the definition |
| Used fields (pushdown.rs) | a 64-bit set | union, insert, range, the analysis | readers | sets that saturate | every field a script reads is in the set |
| Dataflow (dataflow.rs, string_constants.rs, input_taint.rs) | a graph of lattice values and a worklist | add_src, add_dep, query | compiler | an early stop, a node that reads itself while its weight is taken out | the result is the least fixpoint |
| Globals of functions (get_global_refs of compile.rs) | a set per function in the call graph, a worklist, the cached result | collecting, passing to the callers | cross-stage variables, code generators | recursion | a function has what it and its callees mention, and no more |
| Types (types.rs) | a network of type variables | constraints and solve | compiler | order of the worklist | every variable gets the join of its constraints |
| Control flow and SSA (cfg.rs, dom.rs) | the graph, loop stack, dominators, frontiers, renaming stacks and counters | construction, phi insertion, renaming | parser, compiler | irreducible paths, unreachable blocks, parallel edges, jumps out of nested loops | a use sees the one definition that reaches it; the graph does what the script says |
| Lexer and parser (lexer.rs, parsing, ast.rs) | position, previous token | next token, desugaring of patterns | control-flow graph | regex or division; newlines; range patterns on the record that ends them | tokens as the grammar's authors mean them; a script means what awk says |
| Bytecode compiler (compile.rs, bytecode.rs) | registers, frames, jumps | code selection, conversions, constant folding | interpreter, code generators | an instruction picked by the types of its operands, a result nobody wants, a missing argument | operands have the declared types; no effect is dropped; folding keeps the meaning |
| Backends (interp.rs, codegen) | registers by type, frames | one arm per instruction; one call or inline sequence per instruction | runtime functions | two tables of 250 instructions nothing compares; calls through declared signatures | the same kernels on the same operands; a call passes what its callee reads |
| External stores and network (kv.rs, network.rs, mysql.rs, postgres.rs, sqlite.rs, libsql.rs, s3.rs) | global connection pools | connect, get, put, publish | external services | a stale connection | connections are not shared across keys |
| Builtin library, printf, number parsing, driver | none | pure functions | interpreter, intrinsics | formatting | as documented |

## Plan and what became of it

1. `Writers` with the abstract `OutputFile`, `WritersProof` and
   `WritersFileProof`: the only unsafe
   sharing between threads, and where output can be lost. *Done.*
2. `ParallelRun` with the abstract `SerialRun`: the three stages in both
   implementations, slots, exit; and its proofs, in `ParallelRunProof`,
   `ParallelExitProof`, `ParallelSumProof`. *Done.*
3. `ParallelInput`: how chunks reach the threads. *Done,* every invariant proved.
4. `Notification` with the abstract `OneShot` and `NotificationProof`. *Done.*
5. `Dominators`, `Flow`, `Ssa`, `Machines` and `Scripts`, composed in
   `ControlFlow`: a script from its tree to its output. *Done.*
6. `Bytecode`, `Builtins`, `Lowering`, `Patterns`, `Interp` and `Jit`, composed
   in `Backends`: a call of a builtin function through six tables. *Done.*
7. `PhiPlacement`, `GlobalRefs` and `Dataflow`, the three fixed points by worklist,
   over `Reachability`; `WorklistProof`; composed with `ControlFlow` in `Compile`.
   *Done.*
8. Chunk offsets and CSV state, what an instruction adds to the analyses, the type
   network, reference counts, UTF-8 over buffers, lexer modes. *Left out*: see
   the end.

Compositions: `ParallelRun` takes chunks and flushes files in one step each;
`ParallelInput` and `Writers` give those steps their detail. A worker of a
compiled program that exits waits on a `Notification` nobody has, which
`ParallelRun` shows as `blocked`. `ControlFlow` stops where `Backends` starts: at
the call of a builtin function. The phi functions of `ControlFlow` are placed by the
actions of `PhiPlacement`, one block of the worklist a step.

## Modules

### Writers, OutputFile, MCWriters

`Writers.tla` is writers.rs for one output file and the threads that write to
it. A client never gives up its buffer: a Write request is a pair of raw
pointers, to the bytes and to the status word of a `WriteGuard`, so guards are
addresses and `status` and `data` the memory behind them. Requests are kept in
`sent` for ever, and the receiver's `recvd`, `acked`, `dropped` are how far it
has popped, answered (`set_code`) and dropped them; the channel is what lies
between `recvd` and the end.

| Code | Model |
|---|---|
| FileHandle.cur_batch, guards, old_guards | `cur`, `guards`, `old` |
| write_all, flush, close, Drop, and Registry::{get_handle, close, destroy_and_flush_all_files} | `Write`, `Start`, `FreeHandle`, `GetHandle`, `RootClose`, `Shutdown`, then `SendWrite`, `SendClose`, `SendFlush`, `FlushReturn` where they block |
| clear_guards, read_error, guard | `Popped`, `Kept`, `AfterClear`, `AfterError`, `Fresh` |
| WriteGuard::peel | `Rest` (the bytes after the cut on a terminal) |
| receive_loop and WriteBatch | `Recv`, `TryRecv`, `OpenFile`, `IssueWrite`, `IssueFlush`, `EndBatch` |
| WriteBatch::clear_batch | `SetCode` and `DropRequest`, one request at a time |

A blocking call is one action up to the point where it blocks, and one after.
Which address the allocator returns makes no difference, so `Fresh` picks one.
`OutputFile.tla` is the promise: a file that threads append whole units to, in
each thread's own order, and that can fail once and for all. `KeepsPromise`
is the refinement.

Properties: `NoDangling` (the comment on `unsafe impl Send for Request`),
`DropAssertion` (the assertion in `Drop for WriteGuard`), `CloseIsSynchronous`,
`AppendKeepsAll`, `NothingLost`, `OperationsReturn`, `KeepsPromise`.

### ParallelRun, SerialRun, MCParallelRun

`ParallelRun.tla` is one run of a script in stages, by the interpreter or by a
compiled program: `build` is chosen in Init, and `Jit` is what differs. `pc` says
where each thread is:

    main thread  begin -> flush -> enter -> read <-> get -> eof -> recv -> [join] -> end -> last
    worker       start -> enter -> read <-> get -> eof -> send -> drop -> gone

with `drain` for exit! on the main thread, `blocked` for a worker that has called
exit!, and `panicked`. `join` exists in the interpreter only, whose
`crossbeam::scope` ends before END; a compiled program runs END inside the
scope and joins in `Return`.

An integer variable is represented by what has been added to it: `value[k]` says
how often contribution k is in the sum, so that a record lost or counted twice
is visible; aggregation is pointwise addition, as it is for maps. BEGIN adds
`First` to what it mentions and reads one line (NR); the main loop adds each
record to every variable it mentions. `Refs` says which stages mention a
variable, and `BeginStores`, `LoopStores` are computed from it as in
cross_stage.rs. `slots` are partial functions, because a slot vector only grows
when something is stored and loading beyond it panics.

exit, a failing print (which both implementations turn into exit 0) and a
runtime error are possible at every record and in BEGIN and END. The process may
end in order (`exited`: the main thread's Core is dropped, which flushes), or
through `fail!` of main.rs (`aborted`).

`SerialRun.tla` is the abstract specification: BEGIN, every record once, END with
every record counted once, and Stop, the early end that exit or an error brings. `LikeSerial` is the refinement, with the records
read by any thread as those read by the one.

Properties: `Aggregated`, `BeginReachesLoop`, `OutputInStageOrder`,
`NothingUnflushed`, `FailureIsReported`, `FailureIsFinal`, `InputCutOff`, `NoPanic`,
`LikeSerial`, which includes that the process ends, and, violated by the code,
`ExitIsFinal` and `BeginReachesEnd`.

### ParallelInput, MCParallelInput

`ParallelInput.tla` is how chunks reach the readers of the threads, with the
strategy chosen in Init. What goes through the channel is a sequence of chunks: one
chunk with `-pr`, a whole file with `-pf`, so that both strategies share the
readers' actions.

| Code | Model |
|---|---|
| thread of ParallelChunkProducer::new | `ReadChunk`, `TrySend`, `Send` |
| thread of ShardedChunkProducer::new | `NextOffer`, `Send` |
| ChainedChunkProducer | `files`, `Begun`, `AllDone` |
| wait | `Wait`, `Timeout` |
| get_chunk, refresh_producer | `NextChunk`, `Receive`, `EndOfInput`, `ReadFails` |
| next_file | `NextFile` |
| dropping a reader | `Quit`; `Leave` where a script ends early |

`got` and `lost` are histories: the chunks a reader received, and those that a
skip, an early end or an error gives up. The cancel signal, which
CancellableChunkProducer reads before each get_chunk, is in `ParallelRun`.

Properties: `ExactlyOnePlace`, `InOrder`, `FileToOneReader`, `HeuristicInStep`, `Ends`.

### Notification, OneShot, MCNotification

`Notification.tla` has the steps of wait and notify between which another thread
can run: `FastPath` is the first look at the flag, `Recheck` the one under the
mutex, `Sleep` releases the mutex and blocks in one step as a condition variable
does, `Spurious` is a wakeup for nothing, and `Loop` drops the guard at the end of
the loop's body and starts again. `OneShot.tla` is the promise: an event that
happens once; a call returns after it, and does return.

Properties: `NoLostWakeup`, `KeepsPromise` (with liveness).

### Compile, ControlFlow, Flow, Dominators, Ssa, Machines, Scripts, MCCompile

| Module | Code | Content |
|---|---|---|
| `Scripts` | ast.rs | `DesugarStage`: BEGIN, patterns, ranges and END as one statement. `Meaning` is the reference: it runs the syntax tree itself, as awk defines it |
| `Flow` | cfg.rs, convert_stmt and convert_expr | statements and expressions become basic blocks (print loads ORS and OFS before its values) with edges that are tried newest first; a block is sealed by a jump; the first error ends the conversion |
| `Dominators` | dom.rs | the Semi-NCA algorithm with path compression, and dominators, immediate dominators and frontiers by definition (`IsDomInfo`) |
| `Ssa` | cfg.rs, insert_phis and rename | the definitions of a variable, the phi function a block gets, renaming down the dominator tree, and what the form promises: `OneDefinition`, `UsesTheLatest`, by the definitions that reach a use along the edges |
| `Machines` | compile.rs to_bytecode and interp.rs; clif.rs gen_function_body | the two ways to run a graph: which moves stand for phi functions and in which order, which jumps are left out, which branch is taken |
| `ControlFlow` | | a script goes through all of them, an action each, but for phi placement, and runs a block a step |
| `Compile` | | a behaviour of `ControlFlow`, of `GlobalRefs` or of `Dataflow`, and the fairness of the three worklists |

A conversion takes the graph as far as it is made and returns the new one with
the block it ended in; `Then` passes it on. A value is a number, a record too; a
pattern matches one record. Strings, fields, arrays (but for the loop over one)
and user functions are left out.

Properties: `DominatorsAgree`, `SsaIsSound`, `RefusalsAreKnown`, `RunsAsWritten`.

### PhiPlacement, GlobalRefs, Dataflow, Reachability

Three loops of the compiler take things from a `WorkList` (common.rs) until it is
empty. Its order, first in, first out, starts from hash sets and maps; in the
models a worklist is a set and any element may be next.

| Module | Code | State and actions |
|---|---|---|
| `PhiPlacement` | cfg.rs, insert_phis | `front`, `defs` and `phis` by identifier; `NextIdent` starts a round with the definitions on `worklist`, `PopBlock` is one turn of the inner loop: all of a block's frontier |
| `GlobalRefs` | compile.rs, get_global_refs | `AddCall` and `Mention` are what typing notes (pushr, pushl); `Collect`, `Pass` (one function to all its callers, which the code calls callees; the test for the function itself changes nothing) and `Return`, which swaps the sets out of the call graph and caches them |
| `Dataflow` | dataflow.rs, Analysis | `AddSrc`, `AddDep`, `AddQuery`; `Populate` starts solve; `Pop` takes a weight out of the graph, `Invoke` joins it with a neighbour's, `PutBack` returns it and wakes those who read it |
| `Reachability` | petgraph | successors, predecessors, and what is downstream of a node, as the least closed set |

The semilattice of `Dataflow` is a parameter with its laws as assumptions
(`JoinIsClosed`, `JoinIsLeastUpperBound`): the three that the code has, ApproximateSet
(sets of known strings, or unknown), FieldSet (64 bits) and Taint (two values), all
with `Func = ()`, satisfy them. `source` is a history of what add_src was given.
AddSrc, AddDep and AddQuery come before Populate, as in the users of Analysis:
nothing is added once it has been asked.

Properties: `PhisAreIterated`, `GlobalsReachCallers`, `AnswersAreExact`, and
`WorklistsEnd` in `Compile`.

### Backends, Bytecode, Builtins, Lowering, Patterns, Interp, Jit, MCBackends

| Module | Code | Content |
|---|---|---|
| `Bytecode` | bytecode.rs | the instructions with the types of their operands, and how many of them accum visits |
| `Builtins` | builtins.rs, call of cfg.rs | arity, type_sig and step of every function; the arguments filled in where a program leaves them out |
| `Lowering` | compile.rs, builtin and load_map | conversions of the arguments, the instruction, the conversion of the result, and what is done if nobody wants it; the read of an array, which inserts the key it does not find |
| `Patterns` | compile.rs, run_analyses | folding of a match whose pattern is constant |
| `Interp` | interp.rs, run_at | for each instruction the function that does the work, and its operands in order |
| `Jit` | codegen/mod.rs, codegen/intrinsics.rs | for each instruction the call made, how the call is declared, what the function called takes, and the function that does the work in it |

`Backends` sends one call, or one subscript (`Index`), through these steps: `CompleteCall`, `RefuseArity` or
`InferResult`, `CompileCall`, `FoldPattern`, `Interpret`, `Generate`.

Properties: `LoweringIsSound` (what a call becomes is typed, stored, and hides
no operand from accum), `InferenceHolds` (the inferred type holds the result, and
no mixture of scalars is refused), `EffectsAreKept` (by statements and by what LLVM
is told), `BackendsAgree` (the same kernels on the same operands, calls as declared),
`SimpleFoldsKeepMatches`. Most of them name the
functions for which the tables do not agree; every other function is covered.

## Runs, bounds, and what they show

| Run | Bounds | Shows |
|---|---|---|
| WritersFile | 2 threads with 2 and 1 operations, channel of 1, no buffering, append to a file with old contents, opening, writing (in part) and flushing may fail | TypeOK, NoDangling, CloseIsSynchronous, AppendKeepsAll, NothingLost and the refinement, with a channel that is full most of the time |
| WritersTty | standard output with line buffering, prints of up to 2 units, buffer of 1 | the same protocol when a buffer is cut at a newline and the rest carried over |
| WritersLiveness | 1 operation each, with errors | every operation returns |
| WritersDropAssert, WritersTruncate | one thread with 4 operations; a file with old contents | two disagreements (below) |
| ParallelExit | both builds, 2 workers, a chunk of two records and one of one, exit 0, exit 3 and failing instructions | what END counts, the order and the flushing of output, which code is reported, how much is read after an exit; refinement of SerialRun with its liveness: records processed once, END after all of them, the process ends |
| ParallelExitZero, ParallelBeginEnd | as small as shows it | two disagreements (below) |
| ParallelInput | both strategies, 3 readers, files of 5, 0 and 3 chunks, channel of 1, read errors, any reader may leave or skip | a chunk is in exactly one place, readers see the input in order, a file stays with one reader, the heuristic never gets out of step, everybody ends |
| Notification | 3 threads that wait, 2 that notify, each as often as it likes, spurious wakeups | no thread sleeps through the notification; no call returns before it, every call returns after it |
| Compile | 1460 scripts over two inputs of 3 and 2 records; the 2432 connected graphs of 4 nodes for the dominators; 60 blocks a run. Call graphs of 3 functions with up to 4 edges, and 2 globals mentioned in up to 2 places. Dataflow over 3 keys and the queries' node with up to 4 edges, sources and queries, in a lattice with two values that have no order | dominators and frontiers are those of the definition; phi functions and SSA form; which scripts are refused; the interpreter and generated code write what the script means, but for the named exceptions; the globals of functions and the answers of an analysis are the exact fixed points, and all three worklists come to an end |
| Backends | every builtin function with every mixture of scalar types, the subscripts of every map by every scalar, every map where the function decides by it, every type of destination, none, and two output formats; 8 patterns and texts of up to 3 letters | the tables agree, but for the named exceptions |

Why the bounds are enough. *Writers*: the pointer hazards need a guard that is
popped while another request of the same thread is unanswered, which three
guards of one thread give; the second thread is there for the order between two
clients in the channel and one batch. A channel of one makes every send block, a
batch of two lets one batch mix clients, a close and a write. `BufferSize = 0`
sends every write. `MaxOps` and `MaxWrite` cap what a script does and `Addrs` is
large enough that the allocator never fails. *ParallelRun*: two workers and the
main thread give two results in either order and a thread that has not started.
The chunk of two records lets a thread exit in the middle of its chunk, and the
other chunk is one a thread might still take after an exit. The
four variables are mentioned by every set of at least two stages. Two codes, one
of them zero, are needed to lose one behind the other. *ParallelInput*: the first
token needs two sends into a full channel, the second four more, so seven chunks
reach both; a channel of one and one token make every channel full at some time;
the empty file is there for the loops of get_chunk. *Notification*: two
notifiers can both pass the first look at the flag, and three waiters can be in
all the states that matter at once (asleep, on the way to sleep, awake again).
*ControlFlow*: bodies of up to two statements in every kind of loop, with a
jump, a condition, a nested loop or a read in either place, put a join of joins, a
loop in a loop and a jump over an assignment into a script; three variables are
carried around, past or into each other. The main loop takes two patterns, so that a
range can follow `next`. 60 blocks are more than a script that ends can run on
these inputs. Three functions or keys make chains, cycles, edges to oneself and
cycles with an entry, with a source in any place (`MaxCalls`, `MaxMentions`, `MaxFacts`);
larger graphs are what the theorems are for. The identifiers get their phi functions
in one order, which decides about nothing but the order of phi functions in a block;
the blocks in every order. *Backends*: nothing but the lists is bounded: each table is finite and
is gone through whole.

The only bounds are those of the input, `MaxOps`, `MaxCalls`, `MaxMentions` and
`MaxFacts`, and `MaxSteps`: no
guard of `ParallelRun` or `ParallelInput` cuts off a behaviour. Deadlock is checked in
the runs of the threads: the writer thread's exit, the end of the process and the end of all readers
are the only states where nothing else happens. `Compile` and `Backends` are
compilations that come to an end, and say CHECK_DEADLOCK FALSE.

### Fairness

`Writers!FairSpec` is weakly fair to the receiver and to the rest of an operation
that a client has started, never to starting one: the operating system schedules
both threads, and a script need not print. `ParallelRun!FairSpec` is weakly fair
to each thread, which the operating system schedules and which only waits for
something others bring about; the input is finite, and a start token or its
two-second timeout decides `start`. `ParallelInput!FairSpec` is weakly fair to the
producer's thread and to each reader's waiting and reading, never to an error, a
skip or an early end. `Notification!FairSpec` is weakly fair to a thread inside of
wait or notify that does not sleep, never to a call or to a spurious wakeup. Weak
fairness is enough for the mutex because nobody starts a notify once the flag is
set: contention ends. `Compile` is weakly fair to the steps of a worklist that was
begun (`CompileFairness`): one thread compiles, and does nothing else meanwhile.

### Disagreements

| Run | Code and document |
|---|---|
| WritersDropAssert | After an IO error, Drop for FileHandle ignores the result of flush and frees guards that the writer thread has not answered, against the assertion in Drop for WriteGuard. |
| WritersTruncate | A file opened with Trunc is not truncated and keeps the tail of longer old contents. |
| ParallelExitZero | info/reference.md: exit "exits the current process"; the interpreter goes on to the next stage after exit 0. |
| ParallelBeginEnd | info/parallelism.md aggregates variables of the main loop and END; those of BEGIN and END only are added up too, once per thread. |

More are visible in the models. No run is spent on them; the property named is
stated so as to leave the case out, and `PROJECT.json` lists them as hazards.

Threads:

* info/parallelism.md:96: END runs "after all worker threads terminate"; a compiled
  program runs it once the results are in, while workers still flush
  (`OutputInStageOrder`).
* info/reference.md:96: exit "attempts to flush any open file buffers"; a compiled
  program may end before its workers have (`NothingUnflushed`).
* info/reference.md:97: other threads "have inputs cut off"; the interpreter never
  triggers the signal (`InputCutOff`).

Scripts (`RunsAsWritten`, `RefusalsAreKnown`):

* cfg.rs:1567 adds an edge from the start of a loop's body to its header besides the
  one from its end. If the body is one block the two are parallel, rename patches
  the first operand of a phi function and generated code moves the other, unset
  one, last, so that each round starts with unset variables: a loop like that of
  harness.rs:886, which expects otherwise, does not end (`PhisAgree`). If the body
  starts with a loop or getline, the interpreter leaves out the jump to the next
  block and takes that edge instead (`FallsThrough`).
* `continue` in a for loop jumps to the header and skips the update
  (`SkipsUpdate`; a todo at cfg.rs:899 knows).
* A pattern as the condition of a loop is a string that is not empty
  (`ConstantLoop`).
* With `-o csv`, print escapes a value that takes several blocks before they run
  (`EscapesEarly`).
* A record that matches only the end of a range pattern runs the action (`stray`).
* break in a loop of END is refused, as if the loop were the main loop
  (`LoopInEnd`); a statement after a jump is refused or an index out of bounds in
  dom.rs (`DeadCode`).

Tables (`Backends`):

* compile.rs:3163: extract_anchored_literal returns inside its loop, so that a match
  against `/^ab/` is a test for the prefix `a` (`SimpleFoldsKeepMatches`;
  info/stdlib.md:171).
* interp.rs:1398-1411: bf_contains and bf_icontains are swapped in the interpreter
  (info/stdlib.md:437-441), and interp.rs:1845-1853 the two constant matches
  (`KnownToDiffer`).
* compile.rs:1363-1371: match, asort and bf_icontains lose their effect when their
  result is not used, and `-x`, `!x` and the four *_execute functions as statements
  are an assertion failure of the compiler (`DroppedUnseen`, `BareResult`).
* Nine functions with effects are declared ReadOnly, and so are the six lookup_*
  (intrinsics.rs:373-433), which insert the key they do not find (compile.rs:1262;
  get in runtime/mod.rs:730): `DeclaredPure`, all fifteen of them;
  load_var_strstrmap and store_var_strstrmap are declared with a string in place
  of a number (`DeclaredWrong`).

## Proofs

### Output files

`WritersProof.tla` proves for every number of threads, every channel, buffer and
batch size and every script, from `ConstantsOK` and `OldFileOK` only:

* `Inductive`: `Spec => []IInv`;
* `TypeCorrect`: `Spec => []TypeOK`;
* `PointersStayValid`: `Spec => []NoDangling`;
* `GuardsSettled`: without IO errors, `Spec => []DropAssertion`.

`NoDangling` is not inductive. What makes it so: a thread's guards are indices of
its own Write requests (`GuardsOK`), no Box is in two places (`Distinct`), a
handle has a current batch exactly while it exists (`HandleOK`), what the status
word behind a pointer can be (`StatusOK`), where a flush stands with respect to
the receiver (`FlushOK`), and that every request not yet dropped is covered by
its thread's guards (`Covered`). The heart is in `PoppedFacts`: requests are
answered and dropped one at a time, so an answered request is at most one ahead
of the dropped ones; clear_guards keeps the last answered guard, so that what it
pops lies strictly before an answered request and has been dropped. There is one
lemma per action, one step per conjunct that it can disturb.

`WritersFileProof.tla` goes on to what reaches the file, under the same
assumptions and whatever write, open or flush fails:

* `CloseCloses`: `Spec => []CloseIsSynchronous`;
* `NothingIsLost`: `Spec => []NothingLost`;
* `ImplementsPromise`: `Spec => KeepsPromise`, the refinement of `OutputFile`;
* `AppendsOverwriteNothing`: `Spec => []AppendKeepsAll` for standard output and for a
  file the script only appends to.

Its invariant `Promised` adds to `IInv`: how far the receiver is with the batch at
hand, and that an error code is only seen after an error (`BatchInv`); that a close
which no close of the file has followed is the last request of the batch at hand
(`CloseInv`: this is what cutting the batch at a close is good for); where a handle
has nothing left to send (`EmptyInv`); and, until the first error, that a thread's
units are in a line without a gap (`LineInv`): what is in the file, the requests
that are still to be issued, in channel order, and the current batch, everything in
a later place being larger, and all of it together 1 .. made. Printing extends the
line (`LinedWrite`), sending cuts the last part in two (`LinedSend`), issuing a
request moves the first one to the file (`LinedIssue`, `LinedFirst`). When a flush
is answered with Ok, nothing of its thread is issued later and its batch is empty,
so the line is in the file (`AnswerFacts`); `FileInv` keeps that true until the
thread sees the answer, errors of others included. That a thread which only
appends never moves back in the file (`SpecInv`) needs that a recycled guard, whose
spec is Trunc until the next write, is never sent before a write has set it: a
batch is cut in two only on a terminal.

A first form of `NothingLost` spoke of the code in the last Flush request of a
thread that is gone. It was false: after an error the flushes of shutdown and of
Drop can fail in clear_guards before they send anything, so that the last request
is an older one, with Ok. It now speaks of what has been vouched for, and of threads
that end before the first error.

### Notification

`NotificationProof.tla` proves, for any waiters and notifiers, `NeverLost`
(`Spec => []NoLostWakeup`) and `ImplementsOneShot`, that every step of wait and
notify is a step of `OneShot` or a stutter. `NoLostWakeup` is not inductive: that
nobody falls asleep after the flag was set rests on the second look at the flag
being made under the mutex, so the invariant adds that the thread whose guard is
alive owns the mutex (`OwnerHolds`) and that a thread about to sleep has the flag
unset (`SleepsUnnotified`). The liveness half of `KeepsPromise` is the run's.

### Parallel run

Three modules, each on top of the one before it, for every set of workers, chunks, variables and codes, for
both builds, with `ConstantsOK` as the only assumption.

| Module | Theorems | What had to be added |
|---|---|---|
| `ParallelRunProof` | `TypeCorrect`, `BeginKnown` (`BeginReachesLoop`), `CutOff` (`InputCutOff`) | registers are loaded in the loop (`Loaded`), a result of the interpreter has a code (`Coded`), the channel is a sequence (`Queue`); where each thread can be (`Places`) and that slots hold nothing but BEGIN's contribution until a loop ends (`FromBegin`) |
| `ParallelExitProof` | `FailureFinal` (`FailureIsFinal`), `SlotsThere` (`NoPanic`), `FailureReported` (`FailureIsReported`) | every code on its way is one that exit was called with (`Known`), and in the interpreter a code other than 0 stays in a register, in a result or in rc (`Pending`, `Kept`); END is reached only when every worker has reported (`Collected`); who can lack slots, and that nobody is in a loop then (`Skipped`, `There`, `Ready`) |
| `ParallelExitProof`, second part | `StageOrder` (`OutputInStageOrder`), `AllWritten` (`NothingUnflushed`) | the log is sorted, what is buffered belongs after it, and what two threads have buffered may come in either order (`Ordered`); which stages' output there can be, by where the threads are (`Contents`) |
| `ParallelSumProof` | `Summed` (`Aggregated`), `StepsLikeSerial` (the safety part of `LikeSerial`) | a record is unread, with one thread, counted by one thread or in one result (`Bits`, `Apart`); as long as no stage was cut short it is somewhere (`Somewhere`), and a thread that has left its loop saw the end of the input (`Done`); a variable counts what NR counts wherever it is (`Matching`); BEGIN counted once (`FirstOnce`); what a thread has counted is never unread or held again, and what is in a result is in the NR of the worker that sent it (`Spent`, `Reported`) |

The argument for `Summed`: at the start of END no worker has a Sender, so none is
in its loop and the channel is empty; the main thread has seen the end of the
input, so nothing is unread or held; a record that is somewhere has therefore
been counted by the main thread, and by `Apart` once. `Quiet` says that no stage
was cut short; it is not just that exit was not called, because the interpreter
gives up its loop at the first error without calling exit, and `NotQuietAgain`
proves that it never becomes true again.

`StepsLikeSerial` is the refinement of `SerialRun` but for its liveness,
`Spec => Serial!Init /\ [][Serial!Next]_(Serial!vars)`. A step that counts
nothing leaves the records read as they are, adding up a result included, since
its records were read already (`Reported`); a step that counts one counts one that
nobody has counted (`StepReads`), and not after END has started
(`ProcessSimulates`). `Apart` alone is not enough here: it forgets a worker's
records when their result is dropped, which a compiled program does after exit
(`Drain`), while `Spent` does not. That END starts when all records are read, and
finds each counted once, is `Summed` again (`EndSimulates`). No assumption is made
about exit or errors: an exit other than `exit 0` in the interpreter ends as Stop.

### Parallel input

`ParallelInputProof.tla` proves, for any files, readers and size of the channel
and both strategies, from `ConstantsOK` only:

* `TypeCorrect`: `Spec => []TypeOK`;
* `OrderKept`: `Spec => []InOrder`;
* `FilesWhole`: `Spec => []FileToOneReader`;
* `OnePlace`: `Spec => []ExactlyOnePlace`;
* `InStep`: `Spec => []HeuristicInStep`;
* `WorkersBounded`: `Spec => [](nworkers <= Cardinality(Extra) + ChanSize)`.

The three on chunks are not inductive: they speak of what readers have received,
and that is right because of what is still on its way. The invariant `LineInv`
puts all chunks in one line. What the thread has left is in order (`Row(files)`),
behind what it has in its hand, behind what is in the channel (`ProducerLine`),
behind what any reader has (`ReaderLine`); with `file`, behind means in a later
file, which is why the readers that share the channel never share a file
(`Separate`). A chunk is not behind itself, so the parts of the line are
disjoint (`Apart`). `Whole` adds that they and `lost` are all chunks, that
`lost` is disjoint from the line, and that the thread has nothing in its hand
when it reads the next chunk, which would otherwise be overwritten.
`RowTake`, `RowTail` and `RowAppend` say what reading, receiving and sending do
to a sequence of sequences.

`HeuristicInStep` is inductive once the threshold is known to be a positive number,
which for a power of 2 would take an induction; `ThresholdIs` counts the subsets of
1 .. n + 1 instead (`FS_SUBSET`). `WorkersBounded` rests on `FewTokens`: whoever has
answered a token has stopped waiting for good. It says how far the model is from
the width of the code's `2 << n_workers`, an i32: with 29 workers and tokens at most
the two agree. Beyond that, n_workers would have to reach 30, after as many failed
sends as an i32 can count.

### Worklists

`WorklistProof.tla` proves that each of the three loops returns the fixed point of its
definition, for every graph and whatever is taken from the worklist first:

* `PhisAreTheIteratedFrontier`: `PhiSpec => []PhisAreIterated`;
* `GlobalsReach`: `RefsSpec => []GlobalsReachCallers`;
* `AnswersAreLeastUpperBounds`: `DataflowSpec => []AnswersAreExact`.

`PhiSpec` starts from any frontiers and definitions, so the first says nothing about
where frontiers come from (`DominatorsAgree` does), and the run ties the two together:
`ControlFlow` takes the same actions. The third uses the laws of the semilattice and that
`Sentinel` is no key; the second no assumption at all.

None of the three properties is inductive: they speak of the end. The invariants have
two halves. What is there is wanted: a set is in every closed set that has the
definitions (`PhisAreWanted`), a global is mentioned downstream (`RefsAreNeeded`), a
weight is below every bound of the sources downstream (`NothingElseIsIn`). And what is
not there is promised: a block, a function or a node either has passed on what it has or
is on the worklist (`FrontiersAreServed`, `RefsArePassed`, `WeightsAreAbove`). When the
worklist is empty the second half says that a result is closed, and a closed set that
is in every closed set is the least (`DownstreamLeast`). In `PhiPlacement` a definition that
gets a phi function is not put on the list again, which is right because it was there
from the start: `FrontiersAreServed` says so of definitions and phi functions alike.
In `Dataflow` the halves are about `Weight`, which follows a weight out of the graph and
back, and `Promised` is the worklist, the edges still to be looked at, or, for those who
read the node at hand, the flag `changed`. An edge to itself may read the bottom because
the weight that comes back is at least the one that was taken.

### Only model-checked

`OperationsReturn`, `Ends` and the last conjunct of `LikeSerial` and of
`KeepsPromise` in `Notification`, `WorklistsEnd` (liveness under fairness is beyond the
prover); and the rest of the compiler's algorithms in `ControlFlow` and `Backends`. Those of
`ControlFlow` recurse over syntax trees and graphs: the prover has no induction over
such data, and loses its SMT backend where a RECURSIVE operator is in reach.
`Backends` composes tables: its properties say of each of some 230 functions and
250 instructions that six tables fit together, so that a proof would be one leaf per
entry, where TLC does the same by evaluating them, for every mixture of types the
instance has;
and what a call is lowered to is put together and searched with `FlattenSeq` and
`SelectSeq`, recursions over sequences which the prover does not unfold.

## Not modelled

The number of bytes and their contents, the default sizes (a channel of 8
requests, buffers of 64 KiB, batches of 1 << 20 bytes or 1 << 10 writes) as numbers, commands as output (the same protocol with a
process in place of the file), and the tests' in-memory file system. In
`ParallelRun`: string variables and floats, `getline` from named files across the
stages, how chunks arrive (in one step; see `ParallelInput`), scripts without a main
loop or END, which run serially or end after the loop. What no module covers:

* Record splitters, chunk offsets, CSV state, UTF-8 validation, number parsing, the
  lexer: sequential functions from bytes to offsets or numbers, most of them
  driven by SIMD kernels. Their hazards are those of an index off by one, for
  which a model would be the code again. One is listed, without a property: assigning
  $0 leaves `diverged` set (splitter/mod.rs:192). Two more: chunk.rs:387
  cuts off offsets of whitespace by an index where a length is meant, and
  batch.rs:1747 takes progress == buf_len for the end of the input, which a consume
  beyond a missing final newline must not step over.
* Str, UniqueBuf: layouts of tagged pointers and reference counts that are not
  shared between threads.
* The type network, and what an instruction adds to the used-field, constant and
  taint analyses: `Dataflow` has their solver, `Builtins` the rule of builtin functions,
  `Patterns` what follows from a constant pattern.
* In `Flow`: user functions, arrays but for the loop over one, fields, strings.
  In `Backends`: assignments to an element of an array.
* printf, commands, the driver, the builtin library: formatting and wrappers
  without state. Databases and network: external clients behind a global pool
  of connections.
* The grammar is generated, the code generators' own instruction selection is
  Cranelift's and LLVM's.
