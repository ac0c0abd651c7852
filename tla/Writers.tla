------------------------------ MODULE Writers ------------------------------
(***************************************************************************)
(* One output file of src/src/runtime/writers.rs: the client FileHandles   *)
(* that batch writes to it, the bounded channel, and the thread that       *)
(* issues the requests (receive_thread / receive_loop).                    *)
(*                                                                         *)
(* A client never gives its buffer away: a Write request holds a pointer   *)
(* to the data and to the status word of a WriteGuard, which the client    *)
(* must keep alive until the receiver has dropped the request.  Guards     *)
(* are therefore modelled by address: `status' and `data' are the memory   *)
(* behind the two pointers, and a request only carries the address.        *)
(*                                                                         *)
(* The channel is written in the immutable-queue style: `sent' is every    *)
(* request ever sent, in channel order, and the receiver advances the      *)
(* indices recvd (popped into the WriteBatch), acked (status stored) and   *)
(* dropped (Request dropped) through it.  The channel holds the requests   *)
(* recvd+1 .. Len(sent), the WriteBatch the requests dropped+1 .. recvd.   *)
(*                                                                         *)
(* The bytes a program prints are units <<c, k>>: the k-th unit client c   *)
(* ever wrote.                                                             *)
(***************************************************************************)
EXTENDS Naturals, Sequences, FiniteSets

CONSTANTS
  Clients,      \* threads holding a Registry
  Addrs,        \* addresses a Box<WriteGuard> can have
  NoAddr,       \* what a client without a handle, or a Flush, has instead
  ChanSize,     \* IO_CHAN_SIZE
  BufferSize,   \* BUFFER_SIZE, in units
  MaxBatch,     \* MAX_BATCH_SIZE
  MaxBytes,     \* MAX_BATCH_BYTES, in units
  IsStdout,     \* the file is standard output
  LineBuffer,   \* RawHandle.line_buffer: standard output is a terminal
  Specs,        \* the FileSpecs the script writes with
  OldFile,      \* what the file held before the program ran
  IoErrors,     \* may opening, writing or flushing the file fail?
  MaxWrite,     \* bound on the units of one write_all
  MaxOps        \* bound on the operations each client starts

ASSUME ConstantsOK ==
  /\ NoAddr \notin Addrs
  /\ ChanSize \in Nat \ {0} /\ BufferSize \in Nat
  /\ MaxBatch \in Nat \ {0} /\ MaxBytes \in Nat \ {0}
  /\ IsStdout \in BOOLEAN /\ IoErrors \in BOOLEAN
  /\ LineBuffer \in BOOLEAN /\ (LineBuffer => IsStdout)
  /\ Specs \subseteq {"Trunc", "Append"}
  /\ MaxWrite \in Nat /\ MaxOps \in [Clients -> Nat]

Unit == Clients \X (Nat \ {0})
ASSUME OldFileOK == OldFile \in Seq(STRING)

VARIABLES
  pc,       \* where each client is inside an operation of its handle
  op,       \* the operation it runs
  ops,      \* operations it has started
  cur,      \* FileHandle.cur_batch
  spec,     \* cur_batch.spec
  upto,     \* the argument of clear_batch, 0 for None
  guards,   \* FileHandle.guards, as the indices of their requests
  old,      \* FileHandle.old_guards
  flushIx,  \* index of the client's last Flush request
  fcode,    \* the ErrorCode that Flush request shares with the receiver
  made,     \* units the client has written
  status,   \* WriteGuard.status, by address
  data,     \* WriteGuard.data, by address
  sent, recvd, acked, dropped,
  issued,   \* last request of the batch that write_all has written
  bytes,    \* batch_bytes
  close,    \* WriteBatch.close
  rstate,   \* where the receiver is in receive_loop
  failed,   \* receive_loop has returned an error
  writer,   \* "closed" or "open"
  file,     \* contents of the file
  wpos,     \* offset of the open file
  log,      \* every unit written, in the order it was written (history)
  opened,   \* the spec of the last open and Len(log) then (history)
  closedIx, \* last request known to precede a close of the file (history)
  durable   \* units of a client whose flush has returned Ok (history)

clientVars == <<pc, op, ops, cur, spec, upto, guards, old, flushIx, made>>
heap       == <<status, data>>
queueVars  == <<recvd, acked, dropped, issued, bytes, close, rstate, failed>>
fileVars   == <<writer, file, wpos, log, opened, closedIx>>
vars == <<clientVars, fcode, heap, sent, queueVars, fileVars, durable>>

------------------------------------------------------------------------------
Request == [type : {"Write", "Flush", "Close"}, client : Clients,
            addr : Addrs \cup {NoAddr}, spec : {"Trunc", "Append"},
            flush : BOOLEAN]

IsWrite(i) == sent[i].type = "Write"
Batch == dropped + 1 .. recvd
GuardAddrs(c) == {sent[i].addr : i \in guards[c]}

\* Boxes the allocator has handed out and not yet got back.
InUse == (UNION {GuardAddrs(c) \cup old[c] : c \in Clients})
           \cup {cur[c] : c \in Clients}
Free == Addrs \ InUse
\* Which free address the allocator returns makes no difference.
Fresh == CHOOSE a \in Free : TRUE

Init ==
  /\ pc = [c \in Clients |-> "none"]
  /\ op = [c \in Clients |-> "none"]
  /\ ops = [c \in Clients |-> 0]
  /\ cur = [c \in Clients |-> NoAddr]
  /\ spec = [c \in Clients |-> "Append"]
  /\ upto = [c \in Clients |-> 0]
  /\ guards = [c \in Clients |-> {}]
  /\ old = [c \in Clients |-> {}]
  /\ flushIx = [c \in Clients |-> 0]
  /\ fcode = [c \in Clients |-> "Ongoing"]
  /\ made = [c \in Clients |-> 0]
  /\ status = [a \in Addrs |-> "Ongoing"]
  /\ data = [a \in Addrs |-> <<>>]
  /\ sent = <<>>
  /\ recvd = 0 /\ acked = 0 /\ dropped = 0 /\ issued = 0
  /\ bytes = 0 /\ close = FALSE
  /\ rstate = "recv" /\ failed = FALSE
  /\ writer = "closed" /\ file = OldFile /\ wpos = 0
  /\ log = <<>> /\ opened = [spec |-> "Append", at |-> 0] /\ closedIx = 0
  /\ durable = [c \in Clients |-> 0]

------------------------------------------------------------------------------
(* Client side: Registry and FileHandle.                                   *)

\* The guards clear_guards finds finished: it stops at the first Ongoing one.
Done(c) ==
  {i \in guards[c] :
     \A j \in guards[c] : j <= i => status[sent[j].addr] = "Ok"}

\* Mutant of Popped: the loop `0..=done_count' the TODO asks for.
Popped_Inclusive(c) == {j \in guards[c] : \E i \in Done(c) : j <= i}

\* done_count is the index of the last finished guard, so that guard stays.
Popped(c) == {j \in guards[c] : \E i \in Done(c) : j < i}

SeesError(c) ==
  \E i \in guards[c] :
    /\ status[sent[i].addr] = "Error"
    /\ \A j \in guards[c] : j < i => status[sent[j].addr] = "Ok"

\* Popped guards go to old_guards while that holds fewer than IO_CHAN_SIZE.
Kept(c) ==
  {sent[j].addr : j \in {k \in Popped(c) :
     Cardinality({l \in Popped(c) : l < k}) + Cardinality(old[c]) < ChanSize}}

\* Mutant of AfterClear: the handle is dropped without a last flush.
AfterClear_NoFinalFlush(o) ==
  IF o = "write" THEN "idle"
  ELSE IF o \in {"close", "rootclose"} THEN "close" ELSE "free"

\* What follows a clear_batch that has nothing (more) to send.
AfterClear(o) ==
  IF o = "write" THEN "idle"
  ELSE IF o \in {"close", "rootclose"} THEN "close" ELSE "flush"

\* A clear_batch that sees an error leaves cur_batch as it is.  A failed write
\* only ends its stage (the interpreter goes on with END); any other failure
\* ends the script, and the flushes of shutdown and of Drop, whose errors are
\* ignored, fail the same way before they send anything.
AfterError(o) == IF o = "write" THEN "idle" ELSE "free"

\* What follows the wait for a flush, at which cur_batch is always empty: an
\* error ends the script, shutdown flushes once more in Drop, and the handle
\* made by Root::close is dropped.
AfterFlush(o, ok) ==
  IF o \in {"flush", "close"} /\ ok THEN "idle"
  ELSE IF o \in {"drop", "rootdrop"} THEN "free" ELSE "flush"
OpAfterFlush(o, ok) ==
  IF o = "close" THEN "shutdown"
  ELSE IF o = "rootdrop" \/ (o = "rootclose" /\ ok) THEN "rootdrop" ELSE "drop"

Continue(c, next, o) ==
  /\ pc' = [pc EXCEPT ![c] = next]
  /\ op' = [op EXCEPT ![c] = IF next \in {"none", "idle", "gone"} THEN "none"
                                                                ELSE o]

\* clear_batch(u) with d in cur_batch, up to its blocking send: nothing to do,
\* an error seen, or clear_guards pops what is finished.
ClearBatch(c, o, d, u) ==
  \/ /\ d = <<>>
     /\ Continue(c, AfterClear(o), o)
     /\ UNCHANGED <<upto, guards, old>>
  \/ /\ d # <<>> /\ SeesError(c)
     /\ Continue(c, AfterError(o), o)
     /\ UNCHANGED <<upto, guards, old>>
  \/ /\ d # <<>> /\ ~SeesError(c)
     /\ Continue(c, "send", o)
     /\ upto' = [upto EXCEPT ![c] = u]
     /\ old' = [old EXCEPT ![c] = @ \cup Kept(c)]
     /\ guards' = [guards EXCEPT ![c] = @ \ Popped(c)]

\* A new FileHandle: Box::<WriteGuard>::default() is its cur_batch.
NewHandle(c) ==
  /\ Free # {}
  /\ cur' = [cur EXCEPT ![c] = Fresh]
  /\ status' = [status EXCEPT ![Fresh] = "Ongoing"]
  /\ data' = [data EXCEPT ![Fresh] = <<>>]
  /\ spec' = [spec EXCEPT ![c] = "Append"]

\* Registry::get_handle: the first use of the file by this thread.
GetHandle(c) ==
  /\ pc[c] = "none"
  /\ NewHandle(c)
  /\ pc' = [pc EXCEPT ![c] = "idle"]
  /\ UNCHANGED <<op, ops, upto, guards, old, flushIx, made, fcode, sent,
                 queueVars, fileVars, durable>>

\* Registry::close for a file this thread never used: Root::close builds a
\* handle of its own, closes it and drops it.
RootClose(c) ==
  /\ pc[c] = "none" /\ ops[c] < MaxOps[c] /\ ~IsStdout
  /\ \E d \in Clients : pc[d] # "none"
  /\ NewHandle(c)
  /\ Continue(c, AfterClear("rootclose"), "rootclose")
  /\ ops' = [ops EXCEPT ![c] = @ + 1]
  /\ UNCHANGED <<upto, guards, old, flushIx, made, fcode, sent, queueVars,
                 fileVars, durable>>

\* FileHandle::write_all of n units whose last string with a newline has its
\* first newline at position nl (0: no newline).  WriteGuard::extend.
Write(c, n, nl, s) ==
  LET d == data[cur[c]] \o [k \in 1..n |-> <<c, made[c] + k>>]
      line == LineBuffer /\ nl > 0
  IN /\ pc[c] = "idle" /\ ops[c] < MaxOps[c]
     /\ ops' = [ops EXCEPT ![c] = @ + 1]
     /\ made' = [made EXCEPT ![c] = @ + n]
     /\ data' = [data EXCEPT ![cur[c]] = d]
     /\ spec' = [spec EXCEPT ![c] = s]
     /\ IF line \/ Len(d) > BufferSize
          THEN ClearBatch(c, "write", d,
                          IF line THEN Len(data[cur[c]]) + nl ELSE 0)
          ELSE UNCHANGED <<pc, op, upto, guards, old>>
     /\ UNCHANGED <<cur, flushIx, fcode, status, sent, queueVars, fileVars,
                    durable>>

\* FileHandle::flush (flush_stdout) and FileHandle::close begin.
Start(c, o) ==
  /\ pc[c] = "idle" /\ ops[c] < MaxOps[c]
  /\ IF IsStdout THEN o = "flush" ELSE o = "close"
  /\ ops' = [ops EXCEPT ![c] = @ + 1]
  /\ ClearBatch(c, o, data[cur[c]], 0)
  /\ UNCHANGED <<cur, spec, flushIx, made, fcode, heap, sent, queueVars,
                 fileVars, durable>>

\* The Registry is dropped: named files are flushed by shutdown and then by
\* the Drop of their FileHandle, standard output only by the latter.
Shutdown(c) ==
  /\ \/ /\ pc[c] = "idle"
        /\ ClearBatch(c, IF IsStdout THEN "drop" ELSE "shutdown",
                      data[cur[c]], 0)
     \/ /\ pc[c] = "none"
        /\ Continue(c, "gone", "none")
        /\ UNCHANGED <<upto, guards, old>>
  /\ UNCHANGED <<ops, cur, spec, flushIx, made, fcode, heap, sent,
                 queueVars, fileVars, durable>>

\* sender.send blocks while the channel is full.
Send(r) ==
  /\ Len(sent) - recvd < ChanSize
  /\ sent' = Append(sent, r)

\* Mutant of Rest: peel copies from the byte before the cut.
Rest_OffByOne(d, u) == SubSeq(d, u, Len(d))

\* WriteGuard::peel: what stays behind when a batch is cut after u units.
Rest(d, u) == SubSeq(d, u + 1, Len(d))

\* The rest of clear_batch: the next batch is a reused guard (activate) or a
\* new one (default), peel moves what follows upto into it, and the request
\* points into the guard that is queued.
SendWrite(c) ==
  LET a == cur[c]
      next == IF old[c] # {} THEN CHOOSE b \in old[c] : TRUE ELSE Fresh
      u == IF upto[c] = 0 THEN Len(data[a]) ELSE upto[c]
  IN /\ pc[c] = "send"
     /\ old[c] # {} \/ Free # {}
     /\ Send([type |-> "Write", client |-> c, addr |-> a, spec |-> spec[c],
              flush |-> upto[c] # 0])
     /\ cur' = [cur EXCEPT ![c] = next]
     /\ old' = [old EXCEPT ![c] = @ \ {next}]
     /\ guards' = [guards EXCEPT ![c] = @ \cup {Len(sent) + 1}]
     /\ status' = [status EXCEPT ![next] = "Ongoing"]
     /\ spec' = [spec EXCEPT ![c] = IF old[c] # {} THEN "Trunc" ELSE "Append"]
     /\ data' = [data EXCEPT ![next] = Rest(data[a], u),
                             ![a] = SubSeq(data[a], 1, u)]
     /\ upto' = [upto EXCEPT ![c] = 0]
     /\ Continue(c, AfterClear(op[c]), op[c])
     /\ UNCHANGED <<ops, flushIx, made, fcode, queueVars, fileVars, durable>>

SendClose(c) ==
  /\ pc[c] = "close"
  /\ Send([type |-> "Close", client |-> c, addr |-> NoAddr,
           spec |-> "Append", flush |-> FALSE])
  /\ pc' = [pc EXCEPT ![c] = "flush"]
  /\ UNCHANGED <<op, ops, cur, spec, upto, guards, old, flushIx, made, fcode,
                 heap, queueVars, fileVars, durable>>

\* Request::flush makes a fresh code and notification; the client waits.
SendFlush(c) ==
  /\ pc[c] = "flush"
  /\ Send([type |-> "Flush", client |-> c, addr |-> NoAddr,
           spec |-> "Append", flush |-> FALSE])
  /\ pc' = [pc EXCEPT ![c] = "wait"]
  /\ flushIx' = [flushIx EXCEPT ![c] = Len(sent) + 1]
  /\ fcode' = [fcode EXCEPT ![c] = "Ongoing"]
  /\ UNCHANGED <<op, ops, cur, spec, upto, guards, old, made, heap, queueVars,
                 fileVars, durable>>

\* The wait ends: guards.clear() frees every guard, then the code is read.
FlushReturn(c) ==
  /\ pc[c] = "wait"
  /\ fcode[c] # "Ongoing"
  /\ guards' = [guards EXCEPT ![c] = {}]
  /\ durable' = IF fcode[c] = "Ok" THEN [durable EXCEPT ![c] = made[c]]
                ELSE durable
  /\ Continue(c, AfterFlush(op[c], fcode[c] = "Ok"),
                 OpAfterFlush(op[c], fcode[c] = "Ok"))
  /\ UNCHANGED <<ops, cur, spec, upto, old, flushIx, made, fcode, heap, sent,
                 queueVars, fileVars>>

\* The end of Drop for FileHandle: cur_batch is marked Ok, and every Box goes
\* back to the allocator.  Dropping the handle of Root::close leaves the
\* client without one, as it was.
FreeHandle(c) ==
  /\ pc[c] = "free"
  /\ guards' = [guards EXCEPT ![c] = {}]
  /\ old' = [old EXCEPT ![c] = {}]
  /\ cur' = [cur EXCEPT ![c] = NoAddr]
  /\ status' = [status EXCEPT ![cur[c]] = "Ok"]
  /\ Continue(c, IF op[c] = "rootdrop" THEN "none" ELSE "gone", "none")
  /\ UNCHANGED <<ops, spec, upto, flushIx, made, fcode, data, sent, queueVars,
                 fileVars, durable>>

ClientStep(c) ==
  \/ GetHandle(c) \/ RootClose(c) \/ Shutdown(c)
  \/ \E n \in 1..MaxWrite, nl \in 0..MaxWrite, s \in Specs :
       nl <= n /\ (LineBuffer \/ nl = 0) /\ Write(c, n, nl, s)
  \/ \E o \in {"flush", "close"} : Start(c, o)
  \/ SendWrite(c) \/ SendClose(c) \/ SendFlush(c) \/ FlushReturn(c)
  \/ FreeHandle(c)

------------------------------------------------------------------------------
(* The writer thread: receive_thread and receive_loop.                     *)

\* Request::size reads the data behind the pointer.
Size(i) == IF IsWrite(i) THEN Len(data[sent[i].addr]) ELSE 0

\* Mutant of Cuts: a close does not cut the batch.
Cuts_NotClose(i) == sent[i].type = "Flush" \/ sent[i].flush

\* WriteBatch::push returns true for what cuts the batch short.
Cuts(i) == ~IsWrite(i) \/ sent[i].flush

NWrites(hi) == Cardinality({i \in dropped + 1 .. hi : IsWrite(i)})

\* Where receive_loop goes when it has popped the requests up to hi: it pops
\* more, or issues the batch, opening the file first when it holds a write;
\* a batch of flushes and closes on a closed file is answered at once.
Loop(hi, more) ==
  IF more THEN "more"
  ELSE IF writer = "open" THEN "issue"
  ELSE IF \E i \in dropped + 1 .. hi : IsWrite(i) THEN "open" ELSE "ack"

\* receiver.recv, and push of the first request.  Once receive_loop has
\* failed, receive_thread only answers the request with an error.
Recv ==
  /\ rstate = "recv" /\ recvd < Len(sent)
  /\ recvd' = recvd + 1
  /\ bytes' = Size(recvd + 1)
  /\ close' = (sent[recvd + 1].type = "Close")
  /\ rstate' = IF failed THEN "ack" ELSE Loop(recvd', ~Cuts(recvd + 1))
  /\ UNCHANGED <<clientVars, fcode, heap, sent, acked, dropped, issued, failed,
                 fileVars, durable>>

\* receiver.try_recv until the channel is empty or the batch is cut.
TryRecv ==
  /\ rstate = "more"
  /\ \/ /\ recvd = Len(sent)
        /\ rstate' = Loop(recvd, FALSE)
        /\ UNCHANGED <<recvd, bytes, close>>
     \/ /\ recvd < Len(sent)
        /\ recvd' = recvd + 1
        /\ bytes' = bytes + Size(recvd + 1)
        /\ close' = (close \/ sent[recvd + 1].type = "Close")
        /\ rstate' = Loop(recvd', /\ ~Cuts(recvd + 1)
                                 /\ NWrites(recvd + 1) < MaxBatch
                                 /\ bytes' < MaxBytes)
  /\ UNCHANGED <<clientVars, fcode, heap, sent, acked, dropped, issued, failed,
                 fileVars, durable>>

\* Mutant of OpenSpec: a named file is always opened from its start.
OpenSpec_Trunc(i) == IF IsStdout THEN "Append" ELSE "Trunc"

\* What the file is opened with when i is the first write of the batch: the
\* closure of standard output ignores the spec, and FileStdout appends.
OpenSpec(i) == IF IsStdout THEN "Append" ELSE sent[i].spec

\* Mutants of Fail: the batch goes on after a failed write, and the batch that
\* met the error is never answered.
Fail_GoesOn ==
  /\ IoErrors
  /\ failed' = TRUE /\ rstate' = "issue" /\ writer' = "open"
Fail_Silent ==
  /\ IoErrors
  /\ failed' = TRUE /\ rstate' = "recv" /\ writer' = "closed"

\* An error leaves receive_loop, which drops the writer; receive_thread then
\* answers the whole batch with clear_error.
Fail ==
  /\ IoErrors
  /\ failed' = TRUE /\ rstate' = "ack" /\ writer' = "closed"

\* WriteBatch::get_spec, the spec of the first write, and open_file: write,
\* create, append(spec is Append), and no truncation.
OpenFile ==
  \E i \in Batch :
    /\ rstate = "open" /\ IsWrite(i)
    /\ \A j \in dropped + 1 .. i - 1 : ~IsWrite(j)
    /\ \/ /\ writer' = "open" /\ rstate' = "issue"
          /\ wpos' = IF OpenSpec(i) = "Append" THEN Len(file) ELSE 0
          /\ opened' = [spec |-> OpenSpec(i), at |-> Len(log)]
          /\ UNCHANGED failed
       \/ Fail /\ UNCHANGED <<wpos, opened>>
    /\ UNCHANGED <<clientVars, fcode, heap, sent, recvd, acked, dropped, issued,
                   bytes, close, file, log, closedIx, durable>>

\* The units us reach the file at its offset (its end, when appending).
Put(us) ==
  LET at == IF opened.spec = "Append" THEN Len(file) ELSE wpos
  IN /\ log' = log \o us
     /\ wpos' = at + Len(us)
     /\ file' = [k \in 1 .. (IF wpos' > Len(file) THEN wpos' ELSE Len(file)) |->
                   IF at < k /\ k <= wpos' THEN us[k - at] ELSE file[k]]
     /\ UNCHANGED <<opened, closedIx>>

\* write_all: the slices of the batch, in order; an error may come after a
\* part of a slice has been written.
IssueWrite ==
  \E i \in issued + 1 .. recvd :
    LET us == data[sent[i].addr]
    IN /\ rstate = "issue" /\ IsWrite(i)
       /\ \A j \in issued + 1 .. i - 1 : ~IsWrite(j)
       /\ \/ /\ Put(us)
             /\ UNCHANGED <<rstate, failed, writer>>
          \/ /\ \E k \in 0 .. Len(us) - 1 : Put(SubSeq(us, 1, k))
             /\ Fail
       /\ issued' = i
       /\ UNCHANGED <<clientVars, fcode, heap, sent, recvd, acked, dropped,
                      bytes, close, durable>>

\* w.flush() when the batch asks for it, and on to clear().
IssueFlush ==
  /\ rstate = "issue"
  /\ \A j \in issued + 1 .. recvd : ~IsWrite(j)
  /\ \/ rstate' = "ack" /\ UNCHANGED <<failed, writer>>
     \/ (\E i \in Batch : Cuts(i)) /\ Fail
  /\ UNCHANGED <<clientVars, fcode, heap, sent, recvd, acked, dropped, issued,
                 bytes, close, file, wpos, log, opened, closedIx, durable>>

\* Mutant of Code: receive_thread answers with clear() instead of clear_error().
Code_AlwaysOk == "Ok"

\* clear() after a batch that was written, clear_error() otherwise.
Code == IF failed THEN "Error" ELSE "Ok"

\* Mutant of MayAnswer: every status is stored before any request is dropped.
MayAnswer_Eager == rstate = "ack" /\ acked < recvd

\* The drain of WriteBatch::clear_batch: each request is answered and dropped
\* before the next one is answered.
MayAnswer == rstate = "ack" /\ acked = dropped /\ acked < recvd

\* Request::set_code on the next request of the batch.
SetCode ==
  LET i == acked + 1
  IN /\ MayAnswer
     /\ acked' = i
     /\ status' = IF IsWrite(i) THEN [status EXCEPT ![sent[i].addr] = Code]
                                ELSE status
     /\ fcode' = IF sent[i].type = "Flush"
                 THEN [fcode EXCEPT ![sent[i].client] = Code] ELSE fcode
     /\ UNCHANGED <<clientVars, data, sent, recvd, dropped, issued, bytes,
                    close, rstate, failed, fileVars, durable>>

\* Drop for Request reads the status behind the pointer once more.
DropRequest ==
  /\ rstate = "ack" /\ acked = dropped + 1
  /\ dropped' = acked
  /\ UNCHANGED <<clientVars, fcode, heap, sent, recvd, acked, issued, bytes,
                 close, rstate, failed, fileVars, durable>>

\* Back to recv; `writer = None' comes after the batch has been answered.
EndBatch ==
  /\ rstate = "ack" /\ dropped = recvd
  /\ rstate' = "recv" /\ issued' = recvd /\ close' = FALSE /\ bytes' = 0
  /\ writer' = IF close THEN "closed" ELSE writer
  /\ closedIx' = IF close THEN recvd ELSE closedIx
  /\ UNCHANGED <<clientVars, fcode, heap, sent, recvd, acked, dropped, failed,
                 file, wpos, log, opened, durable>>

\* recv fails once every Sender is dropped and the channel is drained.
Exit ==
  /\ rstate = "recv" /\ recvd = Len(sent)
  /\ \A c \in Clients : pc[c] = "gone"
  /\ rstate' = "exit"
  /\ UNCHANGED <<clientVars, fcode, heap, sent, recvd, acked, dropped, issued,
                 bytes, close, failed, fileVars, durable>>

Receiver ==
  \/ Recv \/ TryRecv \/ OpenFile \/ IssueWrite \/ IssueFlush
  \/ SetCode \/ DropRequest \/ EndBatch \/ Exit

------------------------------------------------------------------------------
Terminated == rstate = "exit" /\ UNCHANGED vars

Next == (\E c \in Clients : ClientStep(c)) \/ Receiver \/ Terminated

Spec == Init /\ [][Next]_vars

\* A client that is inside an operation goes on, and so does the writer
\* thread: the operating system schedules both.
Progress(c) ==
  \/ SendWrite(c) \/ SendClose(c) \/ SendFlush(c)
  \/ FlushReturn(c) \/ FreeHandle(c)

FairSpec ==
  /\ Spec
  /\ WF_vars(Receiver)
  /\ \A c \in Clients : WF_vars(Progress(c))

------------------------------------------------------------------------------
(* Properties.                                                             *)

ClientTypeOK ==
  /\ pc \in [Clients -> {"none", "idle", "send", "close", "flush", "wait",
                         "free", "gone"}]
  /\ op \in [Clients -> {"none", "write", "flush", "close", "shutdown", "drop",
                         "rootclose", "rootdrop"}]
  /\ ops \in [Clients -> Nat] /\ \A c \in Clients : ops[c] <= MaxOps[c]
  /\ cur \in [Clients -> Addrs \cup {NoAddr}]
  /\ spec \in [Clients -> {"Trunc", "Append"}]
  /\ upto \in [Clients -> Nat]
  /\ guards \in [Clients -> SUBSET (1 .. Len(sent))]
  /\ old \in [Clients -> SUBSET Addrs]
  /\ flushIx \in [Clients -> 0 .. Len(sent)]
  /\ fcode \in [Clients -> {"Ongoing", "Ok", "Error"}]
  /\ made \in [Clients -> Nat] /\ durable \in [Clients -> Nat]

HeapTypeOK ==
  /\ status \in [Addrs -> {"Ongoing", "Ok", "Error"}]
  /\ data \in [Addrs -> Seq(Unit)]

QueueTypeOK ==
  /\ sent \in Seq(Request)
  /\ recvd \in Nat /\ acked \in Nat /\ dropped \in Nat /\ issued \in Nat
  /\ dropped <= acked /\ acked <= dropped + 1 /\ acked <= recvd
  /\ recvd <= Len(sent) /\ Len(sent) - recvd <= ChanSize
  /\ bytes \in Nat /\ close \in BOOLEAN /\ failed \in BOOLEAN
  /\ rstate \in {"recv", "more", "open", "issue", "ack", "exit"}

FileTypeOK ==
  /\ writer \in {"closed", "open"} /\ wpos \in Nat
  /\ file \in Seq(Unit \cup STRING) /\ log \in Seq(Unit)
  /\ wpos <= Len(file)
  /\ opened \in [spec : {"Trunc", "Append"}, at : Nat]
  /\ closedIx \in Nat

\* Every variable has its type; in particular the channel never holds more
\* than IO_CHAN_SIZE requests, and the receiver pops, answers and drops them in
\* channel order, never two ahead.
TypeOK == ClientTypeOK /\ HeapTypeOK /\ QueueTypeOK /\ FileTypeOK

\* The comment on `unsafe impl Send for Request': as long as the receiver has
\* a request, its guard is alive, and the client can neither append to that
\* guard (cur_batch) nor hand it out again (old_guards).  Only claimed until
\* the first IO error.
NoDangling ==
  ~failed =>
    \A i \in dropped + 1 .. Len(sent) :
      IsWrite(i) =>
        LET c == sent[i].client
        IN i \in guards[c] /\ sent[i].addr # cur[c] /\ sent[i].addr \notin old[c]

\* The assertion in Drop for WriteGuard: when a flush has returned, or the
\* handle is dropped, no guard that is freed is still Ongoing.
DropAssertion ==
  \A c \in Clients :
    pc[c] = "free" \/ (pc[c] = "wait" /\ fcode[c] # "Ongoing") =>
      /\ \A i \in guards[c] : status[sent[i].addr] # "Ongoing"
      /\ \A a \in old[c] : status[a] # "Ongoing"

\* When close() returns, the writer thread has really closed the file since
\* the request: no descriptor that predates the close is still open.
CloseIsSynchronous ==
  \A c \in Clients :
    pc[c] = "wait" /\ op[c] \in {"close", "rootclose"} /\ fcode[c] = "Ok" =>
      \A i \in closedIx + 1 .. flushIx[c] :
        ~(sent[i].type = "Close" /\ sent[i].client = c)

\* Threads that append, close and reopen the file never overwrite a byte of
\* what it held, nor of what another thread has written.
AppendKeepsAll == file = OldFile \o log

\* What a successful flush has vouched for is in the file, and as long as the file
\* has not met an error no thread ends without having flushed all it printed.
NothingLost ==
  \A c \in Clients :
    /\ \A k \in 1 .. durable[c] : \E i \in DOMAIN log : log[i] = <<c, k>>
    /\ pc[c] = "gone" /\ ~failed => durable[c] = made[c]

\* The comment "Do a test open+truncate of the file" and FakeFile::reopen: a
\* file opened with Trunc holds what has been written since, and only that.
TruncStartsFresh ==
  opened.spec = "Trunc" => file = SubSeq(log, opened.at + 1, Len(log))

\* The detailed model implements the promise of OutputFile.
Promise == INSTANCE OutputFile
KeepsPromise == Promise!Spec

\* Every operation of a handle returns, with an error or without.
OperationsReturn ==
  \A c \in Clients :
    pc[c] \notin {"none", "idle", "gone"} ~> pc[c] \in {"none", "idle", "gone"}
=============================================================================
