--------------------------- MODULE WritersFileProof ---------------------------
(***************************************************************************)
(* What reaches the file, for any number of threads, any script, channel,  *)
(* buffer and batch sizes, and whatever write fails: a close has closed    *)
(* the file when it returns (CloseInv); what a flush has vouched for is in *)
(* it, and the promise of OutputFile is kept (LineInv, FileInv); a file    *)
(* that is only appended to loses no byte (SpecInv).                       *)
(*                                                                         *)
(* The argument.  Until the first error, the units of a thread are in a    *)
(* line without a gap: the file, the requests that are still to be issued  *)
(* in channel order, the current batch.  Printing makes the line longer at *)
(* its end, sending cuts the current batch in two, and issuing a request   *)
(* moves the next part of the line to the file.  When a flush is answered  *)
(* nothing of its thread is left behind the file.                          *)
(***************************************************************************)
EXTENDS WritersProof

(* The numbers of the first n units in d, and of all of them. *)
Firsts(d, n) == {d[k][2] : k \in 1 .. n}
Nums(d) == {d[k][2] : k \in 1 .. Len(d)}

(* Units of c only, in the order they were printed. *)
Run(c, d) ==
  /\ \A k \in 1 .. Len(d) : d[k][1] = c
  /\ \A k, l \in 1 .. Len(d) : k < l => d[k][2] < d[l][2]

(* The units of d carry on where W ends, within the first m. *)
CarriesOn(d, W, m) ==
  \A k \in 1 .. Len(d) :
    d[k][2] \in 1 .. m /\ W \cup Firsts(d, k - 1) = 1 .. d[k][2] - 1

Below(S, T) == \A m \in S, n \in T : m < n

Cur(c) == IF cur[c] = NoAddr THEN << >> ELSE data[cur[c]]
Data(i) == data[sent[i].addr]

(* The Write requests of c that are still to be issued, and the numbers of the
   units of c that are in the file.  *)
Pending(c) == {i \in issued + 1 .. Len(sent) : IsWrite(i) /\ sent[i].client = c}
Written(c) == Promise!Units(c, log, Len(log))

(* How far the receiver is with the batch. *)
BatchInv ==
  /\ rstate \in {"recv", "exit"} => dropped = recvd
  /\ rstate # "ack" => acked = dropped /\ dropped <= issued
  /\ rstate \in {"recv", "more", "open", "exit"} => issued = dropped
  /\ issued <= recvd
  /\ rstate = "ack" /\ ~failed => \A i \in issued + 1 .. recvd : ~IsWrite(i)
  /\ failed => rstate \in {"recv", "ack", "exit"}
  /\ \A c \in Clients : fcode[c] = "Error" => failed

(* A close that no close of the file has followed ends the batch at hand. *)
CloseInv ==
  /\ closedIx <= recvd
  /\ \A i \in closedIx + 1 .. recvd :
       sent[i].type = "Close" =>
         i = recvd /\ close /\ rstate \in {"open", "issue", "ack"}

(* Where a handle has nothing left to send. *)
EmptyFor(c) ==
  /\ pc[c] \in {"close", "flush", "wait"} => Cur(c) = << >>
  /\ pc[c] = "free" /\ ~failed => Cur(c) = << >>
  /\ pc[c] = "send" /\ op[c] # "write" => upto[c] = 0
EmptyInv == \A c \in Clients : EmptyFor(c)

(* The numbers in the requests P, of which i carries D[i].  *)
Queued(P, D) == UNION {Nums(D[i]) : i \in P}

(* Units of c in a line without a gap: W are the numbers in the file, D[i] what
   request i carries, in the order of the requests P, C is the current batch, and
   m units have been printed.  *)
Lined(c, W, P, D, C, m) ==
  /\ Run(c, C) /\ Below(W, Nums(C))
  /\ \A i \in P :
       /\ Run(c, D[i])
       /\ Below(W, Nums(D[i])) /\ Below(Nums(D[i]), Nums(C))
       /\ \A j \in P : i < j => Below(Nums(D[i]), Nums(D[j]))
  /\ W \cup Queued(P, D) \cup Nums(C) = 1 .. m

(* Until the first error, every thread's units are.  *)
LineFor(c) ==
  Lined(c, Written(c), Pending(c), [i \in Pending(c) |-> Data(i)], Cur(c), made[c])
LineInv == ~failed => \A c \in Clients : LineFor(c)

(* What is in the file, and what has been vouched for. *)
FileFor(c) ==
  /\ Promise!InOrder(c, log, made[c])
  /\ 1 .. durable[c] \subseteq Written(c)
  /\ pc[c] = "wait" /\ fcode[c] = "Ok" => Written(c) = 1 .. made[c]
  /\ ~failed /\ pc[c] \in {"none", "free", "gone"} => durable[c] = made[c]
FileInv == \A c \in Clients : FileFor(c)

(* A file that is only appended to. *)
SpecInv ==
  /\ opened.spec = "Append"
  /\ file = OldFile \o log
  /\ ~IsStdout =>
       /\ \A i \in issued + 1 .. Len(sent) : IsWrite(i) => sent[i].spec = "Append"
       /\ \A c \in Clients : Cur(c) # << >> => spec[c] = "Append"
       /\ \A c \in Clients : pc[c] = "send" => Cur(c) # << >> /\ upto[c] = 0

-----------------------------------------------------------------------------
(* The batch. *)

LEMMA ClientFacts ==
  ASSUME IInv, NEW c \in Clients, ClientStep(c)
  PROVE  /\ UNCHANGED <<queueVars, fileVars>>
         /\ Len(sent') \in Nat /\ Len(sent) <= Len(sent') /\ Len(sent) \in Nat
         /\ \A i \in 1 .. Len(sent) : sent'[i] = sent[i]
         /\ \A d \in Clients : fcode'[d] \in {fcode[d], "Ongoing"}
<1> USE DEF IInv, TypeOK
<1>1. UNCHANGED <<queueVars, fileVars>>
  BY DEF ClientStep, GetHandle, RootClose, Shutdown, Write, Start, SendWrite,
         SendClose, SendFlush, FlushReturn, FreeHandle
<1>2. \A d \in Clients : fcode'[d] \in {fcode[d], "Ongoing"}
  BY DEF ClientStep, GetHandle, RootClose, Shutdown, Write, Start, SendWrite,
         SendClose, SendFlush, FlushReturn, FreeHandle, ClientTypeOK
<1>3. sent' = sent \/ \E r : sent' = Append(sent, r)
  BY DEF ClientStep, GetHandle, RootClose, Shutdown, Write, Start, SendWrite,
         SendClose, SendFlush, FlushReturn, FreeHandle, Send
<1>4. sent \in Seq(Request) BY DEF QueueTypeOK
<1> QED BY <1>1, <1>2, <1>3, <1>4

LEMMA BatchInit == Init => BatchInv
BY DEF Init, BatchInv

LEMMA BatchStep == ASSUME IInv, BatchInv, [Next]_vars PROVE BatchInv'
<1> USE DEF IInv, TypeOK, QueueTypeOK
<1>1. ASSUME NEW c \in Clients, ClientStep(c) PROVE BatchInv'
  <2>1. UNCHANGED queueVars /\ \A i \in issued + 1 .. recvd : sent'[i] = sent[i]
    BY <1>1, ClientFacts
  <2>2. \A d \in Clients : fcode'[d] = "Error" => failed
    BY <1>1, ClientFacts DEF BatchInv
  <2> QED BY <2>1, <2>2 DEF BatchInv, queueVars, IsWrite
<1>2. CASE Recv
  BY <1>2 DEF Recv, BatchInv, Loop, IsWrite
<1>3. CASE TryRecv
  BY <1>3 DEF TryRecv, BatchInv, Loop, IsWrite
<1>4. CASE OpenFile
  BY <1>4 DEF OpenFile, BatchInv, Fail, IsWrite
<1>5. CASE IssueWrite
  BY <1>5 DEF IssueWrite, BatchInv, Fail, IsWrite
<1>6. CASE IssueFlush
  BY <1>6 DEF IssueFlush, BatchInv, Fail, IsWrite
<1>7. CASE SetCode
  <2>1. \A d \in Clients : fcode'[d] = "Error" => failed
    BY <1>7 DEF SetCode, BatchInv, Code, ClientTypeOK
  <2> QED BY <1>7, <2>1 DEF SetCode, MayAnswer, BatchInv, IsWrite
<1>8. CASE DropRequest
  BY <1>8 DEF DropRequest, BatchInv, IsWrite
<1>9. CASE EndBatch
  BY <1>9 DEF EndBatch, BatchInv, IsWrite
<1>10. CASE Exit
  BY <1>10 DEF Exit, BatchInv, IsWrite
<1>11. CASE UNCHANGED vars
  BY <1>11 DEF vars, queueVars, BatchInv, IsWrite
<1> QED
  BY <1>1, <1>2, <1>3, <1>4, <1>5, <1>6, <1>7, <1>8, <1>9, <1>10, <1>11
     DEF Next, Receiver, Terminated

-----------------------------------------------------------------------------
(* Closing. *)

LEMMA CloseInit == Init => CloseInv
BY DEF Init, CloseInv

LEMMA CloseStep == ASSUME IInv, BatchInv, CloseInv, [Next]_vars PROVE CloseInv'
<1> USE DEF IInv, TypeOK, QueueTypeOK
<1>1. closedIx \in Nat BY DEF FileTypeOK
<1>2. ASSUME NEW c \in Clients, ClientStep(c) PROVE CloseInv'
  <2>1. /\ UNCHANGED <<queueVars, fileVars>>
        /\ \A i \in closedIx + 1 .. recvd : sent'[i] = sent[i]
    BY <1>1, <1>2, ClientFacts
  <2> QED BY <2>1 DEF CloseInv, queueVars, fileVars
<1>3. CASE Recv
  <2>1. /\ recvd' = recvd + 1 /\ sent' = sent /\ closedIx' = closedIx
        /\ rstate = "recv"
    BY <1>3 DEF Recv, fileVars
  <2>2. sent[recvd + 1].type = "Close" => close' /\ rstate' \in {"open", "issue", "ack"}
    <3>1. sent[recvd + 1].type = "Close" => close' BY Zenon, <1>3 DEF Recv
    <3>2. sent[recvd + 1].type = "Close" => rstate' \in {"open", "issue", "ack"}
      BY <1>3 DEF Recv, Loop, Cuts, IsWrite
    <3> QED BY <3>1, <3>2
  <2>3. \A i \in closedIx + 1 .. recvd : sent[i].type # "Close"
    BY <2>1 DEF CloseInv
  <2>4. \A i \in closedIx + 1 .. recvd + 1 : i \in closedIx + 1 .. recvd \/ i = recvd + 1
    BY <1>1
  <2> QED BY <1>1, <2>1, <2>2, <2>3, <2>4 DEF CloseInv
<1>4. CASE TryRecv
  <2>1. sent' = sent /\ closedIx' = closedIx /\ rstate = "more"
    BY <1>4 DEF TryRecv, fileVars
  <2>2. \A i \in closedIx + 1 .. recvd : sent[i].type # "Close"
    BY <2>1 DEF CloseInv
  <2>3. CASE recvd' = recvd BY <2>1, <2>2, <2>3 DEF CloseInv
  <2>4. CASE recvd < Len(sent) /\ recvd' = recvd + 1
    <3>1. sent[recvd + 1].type = "Close" =>
            close' /\ rstate' \in {"open", "issue", "ack"}
      <4>1. /\ rstate' = Loop(recvd', /\ ~Cuts(recvd + 1)
                                     /\ NWrites(recvd + 1) < MaxBatch
                                     /\ bytes' < MaxBytes)
            /\ close' = (close \/ sent[recvd + 1].type = "Close")
        <5>1. recvd # Len(sent) BY <2>4
        <5> QED BY <1>4, <5>1, Zenon DEF TryRecv
      <4>2. sent[recvd + 1].type = "Close" => close' BY <4>1, Zenon
      <4>3. sent[recvd + 1].type = "Close" => Cuts(recvd + 1) BY DEF Cuts, IsWrite
      <4>4. \A hi, more : ~more => Loop(hi, more) \in {"open", "issue", "ack"}
        BY DEF Loop
      <4> QED BY <4>1, <4>2, <4>3, <4>4
    <3>2. \A i \in closedIx + 1 .. recvd + 1 : i \in closedIx + 1 .. recvd \/ i = recvd + 1
      BY <1>1
    <3> QED BY <1>1, <2>1, <2>2, <2>4, <3>1, <3>2 DEF CloseInv
  <2> QED BY <1>4, <2>3, <2>4 DEF TryRecv
<1>5. CASE OpenFile
  BY <1>5 DEF OpenFile, CloseInv, Fail
<1>6. CASE IssueWrite
  BY <1>6 DEF IssueWrite, CloseInv, Fail, Put
<1>7. CASE IssueFlush
  BY <1>7 DEF IssueFlush, CloseInv, Fail
<1>8. CASE SetCode \/ DropRequest \/ Exit
  BY <1>8 DEF SetCode, DropRequest, Exit, CloseInv, fileVars
<1>9. CASE EndBatch
  BY <1>1, <1>9 DEF EndBatch, CloseInv
<1>10. CASE UNCHANGED vars
  BY <1>10 DEF vars, queueVars, fileVars, CloseInv
<1> QED
  BY <1>2, <1>3, <1>4, <1>5, <1>6, <1>7, <1>8, <1>9, <1>10
     DEF Next, Receiver, Terminated

(* For any threads and scripts: when close returns Ok, the writer thread has
   closed the file since the request.  *)
LEMMA CloseFollows == IInv /\ CloseInv => CloseIsSynchronous
<1> SUFFICES ASSUME IInv, CloseInv, NEW c \in Clients, pc[c] = "wait", fcode[c] = "Ok",
                    NEW i \in closedIx + 1 .. flushIx[c], sent[i].type = "Close"
             PROVE  FALSE
  BY DEF CloseIsSynchronous
<1> USE DEF IInv, TypeOK, QueueTypeOK
<1>1. /\ flushIx[c] \in Nat /\ flushIx[c] <= acked /\ acked <= recvd
      /\ sent[flushIx[c]].type = "Flush"
  BY DEF FlushOK
<1>2. i \in closedIx + 1 .. recvd /\ closedIx \in Nat BY <1>1 DEF FileTypeOK
<1>3. i = recvd BY <1>2 DEF CloseInv
<1> QED BY <1>1, <1>2, <1>3

-----------------------------------------------------------------------------
(* What a thread may change in memory: its current batch, its finished guards
   and a Box that nobody has.  *)

Own(c, a) == a = cur[c] \/ a \in old[c] \/ (Free # {} /\ a = Fresh)

LEMMA PendingFacts ==
  ASSUME IInv, BatchInv, ~failed, NEW c \in Clients, NEW i \in Pending(c)
  PROVE  /\ i \in guards[c] /\ i \in Nat /\ i \in 1 .. Len(sent) /\ i > dropped
         /\ rstate = "ack" => i > recvd
         /\ sent[i].addr \in Addrs /\ IsWrite(i) /\ sent[i].client = c
         /\ Data(i) \in Seq(Unit)
<1> USE DEF IInv, TypeOK, QueueTypeOK
<1>1. /\ i \in issued + 1 .. Len(sent) /\ IsWrite(i) /\ sent[i].client = c
      /\ i \in Nat /\ i >= 1
  BY DEF Pending
<1>2. rstate = "ack" => i > recvd BY <1>1 DEF BatchInv
<1>3. i > dropped BY <1>1, <1>2 DEF BatchInv
<1>4. i \in guards[c] BY <1>1, <1>3 DEF Covered
<1>5. sent[i].addr \in Addrs BY <1>1 DEF GuardsOK
<1>6. Data(i) \in Seq(Unit) BY <1>5 DEF Data, HeapTypeOK
<1> QED BY <1>1, <1>2, <1>3, <1>4, <1>5, <1>6

LEMMA OwnFacts ==
  ASSUME IInv, BatchInv, NEW c \in Clients, cur[c] \in Addrs \cup {NoAddr},
         NEW a \in Addrs, Own(c, a)
  PROVE  /\ \A b \in Clients : b # c => cur[b] # a
         /\ \A b \in Clients : ~failed => \A i \in Pending(b) : sent[i].addr # a
<1> USE DEF IInv
<1>1. a # NoAddr BY ConstantsOK DEF ConstantsOK
<1>2. ASSUME NEW b \in Clients, b # c PROVE cur[b] # a
  BY <1>1, <1>2, FreshFacts DEF Own, Distinct
<1>3. ASSUME NEW b \in Clients, ~failed, NEW i \in Pending(b) PROVE sent[i].addr # a
  <2>1. i \in guards[b] BY <1>3, PendingFacts
  <2> QED BY <2>1, FreshFacts DEF Own, Distinct
<1> QED BY <1>2, <1>3

(* The batches of the others, and all that is queued, stay as they are.  *)
LEMMA OthersKeep ==
  ASSUME IInv, BatchInv, NEW c \in Clients,
         \A b \in Clients : b # c => cur'[b] = cur[b],
         \A a \in Addrs : data'[a] = data[a] \/ Own(c, a)
  PROVE  /\ \A b \in Clients : b # c => Cur(b)' = Cur(b)
         /\ \A b \in Clients : ~failed =>
              \A i \in Pending(b) : data'[sent[i].addr] = Data(i)
<1> USE DEF IInv, TypeOK
<1>1. cur[c] \in Addrs \cup {NoAddr} BY DEF ClientTypeOK
<1>2. ASSUME NEW b \in Clients, b # c PROVE Cur(b)' = Cur(b)
  <2>1. cur'[b] = cur[b] BY <1>2
  <2>2. CASE cur[b] = NoAddr BY <2>1, <2>2 DEF Cur
  <2>3. CASE cur[b] # NoAddr
    <3>1. cur[b] \in Addrs BY <2>3 DEF ClientTypeOK
    <3>2. ~Own(c, cur[b]) BY <1>1, <1>2, <3>1, OwnFacts
    <3> QED BY <2>1, <2>3, <3>1, <3>2 DEF Cur
  <2> QED BY <2>2, <2>3
<1>3. ASSUME NEW b \in Clients, ~failed, NEW i \in Pending(b)
      PROVE  data'[sent[i].addr] = Data(i)
  <2>1. sent[i].addr \in Addrs BY <1>3, PendingFacts
  <2>2. ~Own(c, sent[i].addr) BY <1>1, <1>3, <2>1, OwnFacts
  <2> QED BY <2>1, <2>2 DEF Data
<1> QED BY <1>2, <1>3

LEMMA CurFacts ==
  ASSUME IInv, NEW c \in Clients
  PROVE  Cur(c) \in Seq(Unit)
<1>1. CASE cur[c] = NoAddr
  <2>1. Cur(c) = << >> BY <1>1 DEF Cur
  <2> QED BY <2>1
<1>2. CASE cur[c] # NoAddr
  BY <1>2 DEF Cur, IInv, TypeOK, ClientTypeOK, HeapTypeOK
<1> QED BY <1>1, <1>2

(* A new handle has an empty batch, as the thread had.  *)
LEMMA NewHandleKeeps ==
  ASSUME IInv, BatchInv, NEW c \in Clients, pc[c] = "none", NewHandle(c)
  PROVE  /\ \A b \in Clients : b # c => cur'[b] = cur[b]
         /\ \A a \in Addrs : data'[a] = data[a] \/ Own(c, a)
         /\ Cur(c) = << >> /\ Cur(c)' = << >>
<1> USE DEF IInv, TypeOK
<1>1. Fresh \in Addrs /\ Free # {} BY FreshFacts DEF NewHandle
<1>2. cur[c] = NoAddr BY DEF HandleOK
<1>3. cur'[c] = Fresh /\ data'[Fresh] = << >>
  BY <1>1 DEF NewHandle, ClientTypeOK, HeapTypeOK
<1>4. \A b \in Clients : b # c => cur'[b] = cur[b] BY DEF NewHandle, ClientTypeOK
<1>5. \A a \in Addrs : data'[a] = data[a] \/ Own(c, a)
  BY <1>1 DEF NewHandle, HeapTypeOK, Own
<1> QED BY <1>2, <1>3, <1>4, <1>5 DEF Cur

(* The send of a batch cuts it in two.  *)
LEMMA SendKeeps ==
  ASSUME IInv, BatchInv, NEW c \in Clients, SendWrite(c)
  PROVE  \E u \in 0 .. Len(Cur(c)) :
           /\ u = IF upto[c] = 0 THEN Len(Cur(c)) ELSE upto[c]
           /\ \A b \in Clients : b # c => cur'[b] = cur[b]
           /\ \A a \in Addrs : data'[a] = data[a] \/ Own(c, a)
           /\ Cur(c) \in Seq(Unit) /\ cur[c] \in Addrs
           /\ data'[cur[c]] = SubSeq(Cur(c), 1, u)
           /\ Cur(c)' = SubSeq(Cur(c), u + 1, Len(Cur(c)))
           /\ sent' = Append(sent, [type |-> "Write", client |-> c, addr |-> cur[c],
                                    spec |-> spec[c], flush |-> upto[c] # 0])
<1> DEFINE a == cur[c]
           next == IF old[c] # {} THEN CHOOSE b \in old[c] : TRUE ELSE Fresh
           u == IF upto[c] = 0 THEN Len(data[a]) ELSE upto[c]
<1> USE DEF IInv, TypeOK
<1>1. /\ a \in Addrs /\ a # NoAddr /\ data[a] \in Seq(Unit) /\ pc[c] = "send"
      /\ Cur(c) = data[a]
  BY BatchFacts DEF SendWrite, Cur
<1>2. u \in 0 .. Len(data[a]) BY <1>1 DEF HandleOK, ClientTypeOK
<1>3. next \in Addrs /\ next # a /\ (next \in old[c] \/ (Free # {} /\ next = Fresh))
  <2>1. CASE old[c] # {}
    <3>1. next \in old[c] BY <2>1
    <3> QED BY <3>1 DEF ClientTypeOK, Distinct
  <2>2. CASE old[c] = {} /\ Free # {} BY <2>2, FreshFacts
  <2> QED BY <2>1, <2>2 DEF SendWrite
<1>4. /\ cur' = [cur EXCEPT ![c] = next]
      /\ data' = [data EXCEPT ![next] = SubSeq(data[a], u + 1, Len(data[a])),
                              ![a] = SubSeq(data[a], 1, u)]
      /\ sent' = Append(sent, [type |-> "Write", client |-> c, addr |-> a,
                               spec |-> spec[c], flush |-> upto[c] # 0])
  BY DEF SendWrite, Send, Rest
<1> HIDE DEF a, next, u
<1>5. next # NoAddr BY <1>3, ConstantsOK DEF ConstantsOK
<1>6. /\ data'[a] = SubSeq(data[a], 1, u)
      /\ data'[next] = SubSeq(data[a], u + 1, Len(data[a]))
      /\ \A x \in Addrs : x # a /\ x # next => data'[x] = data[x]
  BY <1>1, <1>3, <1>4 DEF HeapTypeOK
<1>7. cur'[c] = next /\ \A b \in Clients : b # c => cur'[b] = cur[b]
  BY <1>4 DEF ClientTypeOK
<1>8. Cur(c)' = SubSeq(data[a], u + 1, Len(data[a]))
  BY <1>5, <1>6, <1>7 DEF Cur
<1>9. \A x \in Addrs : data'[x] = data[x] \/ Own(c, x)
  BY <1>3, <1>6 DEF Own, a
<1> QED BY <1>1, <1>2, <1>4, <1>6, <1>7, <1>8, <1>9 DEF a, u

(* A print appends to the current batch.  *)
LEMMA WriteKeeps ==
  ASSUME IInv, BatchInv, NEW c \in Clients, NEW n \in 1 .. MaxWrite,
         NEW nl \in 0 .. MaxWrite, NEW s \in Specs, Write(c, n, nl, s)
  PROVE  /\ \A b \in Clients : b # c => cur'[b] = cur[b]
         /\ \A a \in Addrs : data'[a] = data[a] \/ Own(c, a)
         /\ Cur(c) \in Seq(Unit) /\ cur[c] \in Addrs /\ Cur(c) = data[cur[c]]
         /\ Cur(c)' = Cur(c) \o [k \in 1 .. n |-> <<c, made[c] + k>>]
<1> USE DEF IInv, TypeOK
<1>1. /\ cur[c] \in Addrs /\ cur[c] # NoAddr /\ data[cur[c]] \in Seq(Unit)
  BY BatchFacts DEF Write
<1>2. Cur(c) = data[cur[c]] BY <1>1 DEF Cur
<1>3. PICK d : d = data[cur[c]] \o [k \in 1 .. n |-> <<c, made[c] + k>>] OBVIOUS
<1>4. cur' = cur /\ data' = [data EXCEPT ![cur[c]] = d] BY <1>3 DEF Write
<1>5. data'[cur[c]] = d /\ \A a \in Addrs : a # cur[c] => data'[a] = data[a]
  BY <1>1, <1>4 DEF HeapTypeOK
<1>6. Cur(c)' = d BY <1>1, <1>4, <1>5 DEF Cur
<1> QED BY <1>1, <1>2, <1>3, <1>4, <1>5, <1>6 DEF Own

(* A handle that is freed takes its batch with it.  *)
LEMMA FreeKeeps ==
  ASSUME IInv, NEW c \in Clients, FreeHandle(c)
  PROVE  /\ \A b \in Clients : b # c => cur'[b] = cur[b]
         /\ \A a \in Addrs : data'[a] = data[a] \/ Own(c, a)
         /\ Cur(c)' = << >>
BY DEF FreeHandle, Cur, IInv, TypeOK, ClientTypeOK

-----------------------------------------------------------------------------
(* Empty batches. *)

LEMMA EmptyInit == Init => EmptyInv
BY DEF Init, EmptyInv, EmptyFor, Cur

LEMMA OthersEmpty ==
  ASSUME EmptyInv, NEW c \in Clients, UNCHANGED failed,
         \A b \in Clients : b # c => /\ pc'[b] = pc[b] /\ op'[b] = op[b]
                                     /\ upto'[b] = upto[b] /\ Cur(b)' = Cur(b),
         EmptyFor(c)'
  PROVE  EmptyInv'
<1>1. ASSUME NEW b \in Clients, b # c PROVE EmptyFor(b)'
  <2>1. EmptyFor(b) BY DEF EmptyInv
  <2> QED BY <1>1, <2>1 DEF EmptyFor
<1> QED BY <1>1 DEF EmptyInv

(* The batch when clear_batch has run up to its send.  *)
LEMMA ClearEmpty ==
  ASSUME IInv, NEW c \in Clients, pc[c] = "idle", NEW d, NEW u \in Nat, NEW o,
         ClearBatch(c, o, d, u), Cur(c)' = d, UNCHANGED failed,
         o # "write" => u = 0
  PROVE  /\ \A b \in Clients : b # c => pc'[b] = pc[b] /\ op'[b] = op[b] /\ upto'[b] = upto[b]
         /\ EmptyFor(c)'
<1> USE DEF IInv, TypeOK
<1>1. /\ \A b \in Clients : b # c => pc'[b] = pc[b] /\ op'[b] = op[b] /\ upto'[b] = upto[b]
  BY DEF ClearBatch, Continue, ClientTypeOK
<1>2. CASE d = << >>
  <2>1. pc'[c] = AfterClear(o) BY <1>2 DEF ClearBatch, Continue, ClientTypeOK
  <2>2. pc'[c] # "send" BY <2>1 DEF AfterClear
  <2> QED BY <1>1, <1>2, <2>2 DEF EmptyFor
<1>3. CASE d # << >> /\ SeesError(c)
  <2>1. pc'[c] = AfterError(o) BY <1>3 DEF ClearBatch, Continue, ClientTypeOK
  <2>2. failed BY <1>3, PoppedFacts
  <2> QED BY <1>1, <2>1, <2>2 DEF AfterError, EmptyFor
<1>4. CASE d # << >> /\ ~SeesError(c)
  <2>1. pc'[c] = "send" /\ upto'[c] = u /\ op'[c] = o
    BY <1>4 DEF ClearBatch, Continue, ClientTypeOK
  <2> QED BY <1>1, <2>1 DEF EmptyFor
<1> QED BY <1>1, <1>2, <1>3, <1>4

LEMMA EmptyClientStep ==
  ASSUME IInv, BatchInv, EmptyInv, NEW c \in Clients, ClientStep(c)
  PROVE  EmptyInv'
<1> USE DEF IInv, TypeOK
<1>1. UNCHANGED failed BY ClientFacts DEF queueVars
<1>2. EmptyFor(c) BY DEF EmptyInv
<1>3. CASE GetHandle(c)
  <2>1. pc'[c] = "idle" /\ \A b \in Clients : b # c => pc'[b] = pc[b]
    BY <1>3 DEF GetHandle, ClientTypeOK
  <2>2. UNCHANGED <<op, upto>> BY <1>3 DEF GetHandle
  <2>3. \A b \in Clients : b # c => Cur(b)' = Cur(b)
    BY <1>3, NewHandleKeeps, OthersKeep DEF GetHandle
  <2>4. EmptyFor(c)' BY <2>1 DEF EmptyFor
  <2> QED BY <1>1, <2>1, <2>2, <2>3, <2>4, OthersEmpty
<1>4. CASE RootClose(c)
  <2>1. /\ pc'[c] = AfterClear("rootclose")
        /\ \A b \in Clients : b # c => pc'[b] = pc[b] /\ op'[b] = op[b]
    BY <1>4 DEF RootClose, Continue, ClientTypeOK
  <2>2. UNCHANGED upto BY <1>4 DEF RootClose
  <2>3. Cur(c)' = << >> /\ \A b \in Clients : b # c => Cur(b)' = Cur(b)
    BY <1>4, NewHandleKeeps, OthersKeep DEF RootClose
  <2>4. EmptyFor(c)' BY <2>1, <2>3 DEF EmptyFor, AfterClear
  <2> QED BY <1>1, <2>1, <2>2, <2>3, <2>4, OthersEmpty
<1>5. ASSUME pc[c] = "idle", NEW o \in {"flush", "close", "shutdown", "drop"},
             ClearBatch(c, o, data[cur[c]], 0), UNCHANGED <<cur, data>>
      PROVE  EmptyInv'
  <2>1. cur[c] # NoAddr BY <1>5, BatchFacts
  <2>2. Cur(c)' = data[cur[c]] BY <1>5, <2>1 DEF Cur
  <2>3. \A b \in Clients : Cur(b)' = Cur(b) BY <1>5 DEF Cur
  <2>4. /\ \A b \in Clients : b # c => pc'[b] = pc[b] /\ op'[b] = op[b] /\ upto'[b] = upto[b]
        /\ EmptyFor(c)'
    BY <1>1, <1>5, <2>2, ClearEmpty
  <2> QED BY <1>1, <2>3, <2>4, OthersEmpty
<1>6. CASE Shutdown(c)
  <2>1. CASE pc[c] = "idle" BY <1>5, <1>6, <2>1 DEF Shutdown, heap
  <2>2. CASE pc[c] = "none"
    <3>1. /\ pc'[c] = "gone" /\ UNCHANGED <<upto, cur, data>>
          /\ \A b \in Clients : b # c => pc'[b] = pc[b] /\ op'[b] = op[b]
      BY <1>6, <2>2 DEF Shutdown, Continue, ClientTypeOK, heap
    <3>2. EmptyFor(c)' BY <3>1 DEF EmptyFor
    <3>3. \A b \in Clients : Cur(b)' = Cur(b) BY <3>1 DEF Cur
    <3> QED BY <1>1, <3>1, <3>2, <3>3, OthersEmpty
  <2> QED BY <1>6, <2>1, <2>2 DEF Shutdown
<1>7. ASSUME NEW o \in {"flush", "close"}, Start(c, o) PROVE EmptyInv'
  BY <1>5, <1>7 DEF Start, heap
<1>8. ASSUME NEW n \in 1 .. MaxWrite, NEW nl \in 0 .. MaxWrite, nl <= n,
             NEW s \in Specs, Write(c, n, nl, s)
      PROVE  EmptyInv'
  <2>1. /\ Cur(c)' = Cur(c) \o [k \in 1 .. n |-> <<c, made[c] + k>>]
        /\ \A b \in Clients : b # c => Cur(b)' = Cur(b)
        /\ Cur(c) = data[cur[c]] /\ Cur(c) \in Seq(Unit) /\ pc[c] = "idle"
    BY <1>8, WriteKeeps, OthersKeep DEF Write
  <2>2. CASE UNCHANGED <<pc, op, upto>>
    <3>1. EmptyFor(c)' BY <2>1, <2>2 DEF EmptyFor
    <3> QED BY <1>1, <2>1, <2>2, <3>1, OthersEmpty
  <2>3. ASSUME NEW u \in Nat, ClearBatch(c, "write", Cur(c)', u) PROVE EmptyInv'
    <3>1. PICK d : d = Cur(c)' OBVIOUS
    <3>2. /\ \A b \in Clients : b # c => pc'[b] = pc[b] /\ op'[b] = op[b] /\ upto'[b] = upto[b]
          /\ EmptyFor(c)'
      BY <1>1, <2>1, <2>3, <3>1, ClearEmpty
    <3> QED BY <1>1, <2>1, <3>2, OthersEmpty
  <2>4. \/ UNCHANGED <<pc, op, upto>>
        \/ \E u \in Nat : ClearBatch(c, "write", Cur(c)', u)
    <3>1. Len(data[cur[c]]) + nl \in Nat BY <2>1, ConstantsOK DEF ConstantsOK
    <3>2. PICK u : u = (IF LineBuffer /\ nl > 0 THEN Len(data[cur[c]]) + nl ELSE 0) OBVIOUS
    <3>3. u \in Nat BY <3>1, <3>2
    <3> QED BY <1>8, <2>1, <3>2, <3>3 DEF Write
  <2> QED BY <2>2, <2>3, <2>4
<1>9. CASE SendWrite(c)
  <2>1. PICK u \in 0 .. Len(Cur(c)) :
           /\ u = IF upto[c] = 0 THEN Len(Cur(c)) ELSE upto[c]
           /\ Cur(c) \in Seq(Unit)
           /\ Cur(c)' = SubSeq(Cur(c), u + 1, Len(Cur(c)))
           /\ \A b \in Clients : b # c => Cur(b)' = Cur(b)
    BY <1>9, SendKeeps, OthersKeep
  <2>2. /\ pc[c] = "send" /\ pc'[c] = AfterClear(op[c]) /\ upto'[c] = 0
        /\ \A b \in Clients : b # c => pc'[b] = pc[b] /\ op'[b] = op[b] /\ upto'[b] = upto[b]
    BY <1>9 DEF SendWrite, Continue, ClientTypeOK
  <2>3. ASSUME op[c] = "write" PROVE EmptyFor(c)' BY <2>2, <2>3 DEF EmptyFor, AfterClear
  <2>4. ASSUME op[c] # "write" PROVE EmptyFor(c)'
    <3>1. u = Len(Cur(c)) BY <1>2, <2>1, <2>2, <2>4 DEF EmptyFor
    <3>2. Cur(c)' = << >> BY <2>1, <3>1
    <3> QED BY <2>2, <3>2 DEF EmptyFor, AfterClear
  <2>5. EmptyFor(c)' BY <2>3, <2>4
  <2> QED BY <1>1, <2>1, <2>2, <2>5, OthersEmpty
<1>10. ASSUME UNCHANGED <<cur, data, upto>>,
              \A b \in Clients : b # c => pc'[b] = pc[b] /\ op'[b] = op[b],
              pc[c] \in {"close", "flush", "wait"}, pc'[c] # "send"
       PROVE  EmptyInv'
  <2>1. \A b \in Clients : Cur(b)' = Cur(b) BY <1>10 DEF Cur
  <2>2. EmptyFor(c)' BY <1>2, <1>10, <2>1 DEF EmptyFor
  <2> QED BY <1>1, <1>10, <2>1, <2>2, OthersEmpty
<1>11. CASE SendClose(c) \/ SendFlush(c)
  <2>1. /\ UNCHANGED <<cur, data, upto, op>> /\ pc[c] \in {"close", "flush"}
        /\ \/ pc' = [pc EXCEPT ![c] = "flush"]
           \/ pc' = [pc EXCEPT ![c] = "wait"]
    BY <1>11 DEF SendClose, SendFlush, heap
  <2>2. pc'[c] # "send" /\ \A b \in Clients : b # c => pc'[b] = pc[b]
    BY <2>1 DEF ClientTypeOK
  <2> QED BY <1>10, <2>1, <2>2
<1>12. CASE FlushReturn(c)
  <2>1. /\ UNCHANGED <<cur, data, upto>> /\ pc[c] = "wait"
        /\ pc'[c] = AfterFlush(op[c], fcode[c] = "Ok")
        /\ \A b \in Clients : b # c => pc'[b] = pc[b] /\ op'[b] = op[b]
    BY <1>12 DEF FlushReturn, Continue, ClientTypeOK, heap
  <2>2. pc'[c] # "send" BY <2>1 DEF AfterFlush
  <2> QED BY <1>10, <2>1, <2>2
<1>13. CASE FreeHandle(c)
  <2>1. /\ pc'[c] \in {"none", "gone"} /\ UNCHANGED upto
        /\ \A b \in Clients : b # c => pc'[b] = pc[b] /\ op'[b] = op[b]
    BY <1>13 DEF FreeHandle, Continue, ClientTypeOK
  <2>2. \A b \in Clients : b # c => Cur(b)' = Cur(b) BY <1>13, FreeKeeps, OthersKeep
  <2>3. EmptyFor(c)' BY <2>1 DEF EmptyFor
  <2> QED BY <1>1, <2>1, <2>2, <2>3, OthersEmpty
<1> QED
  BY <1>3, <1>4, <1>6, <1>7, <1>8, <1>9, <1>11, <1>12, <1>13 DEF ClientStep

(* The writer thread only reads the batches.  *)
LEMMA ReceiverReads ==
  ASSUME Receiver
  PROVE  /\ UNCHANGED <<clientVars, data, sent, durable>>
         /\ \A c \in Clients : Cur(c)' = Cur(c)
         /\ failed => failed'
<1>1. UNCHANGED <<clientVars, data, sent, durable>>
  BY DEF Receiver, Recv, TryRecv, OpenFile, IssueWrite, IssueFlush, SetCode,
         DropRequest, EndBatch, Exit, heap
<1>3. failed => failed'
  <2>1. CASE Recv \/ TryRecv \/ SetCode \/ DropRequest \/ EndBatch \/ Exit
    BY <2>1, Zenon DEF Recv, TryRecv, SetCode, DropRequest, EndBatch, Exit
  <2>2. CASE OpenFile BY <2>2 DEF OpenFile, Fail
  <2>3. CASE IssueWrite BY <2>3 DEF IssueWrite, Fail
  <2>4. CASE IssueFlush BY <2>4 DEF IssueFlush, Fail
  <2> QED BY <2>1, <2>2, <2>3, <2>4, Zenon DEF Receiver
<1>2. \A c \in Clients : Cur(c)' = Cur(c) BY <1>1 DEF Cur, clientVars
<1> QED BY <1>1, <1>2, <1>3

LEMMA EmptyStep == ASSUME IInv, BatchInv, EmptyInv, [Next]_vars PROVE EmptyInv'
<1>1. CASE Receiver
  BY <1>1, ReceiverReads DEF EmptyInv, EmptyFor, clientVars
<1>2. CASE UNCHANGED vars
  <2>1. \A c \in Clients : Cur(c)' = Cur(c)
    BY <1>2 DEF vars, clientVars, heap, Cur
  <2> QED BY <1>2, <2>1 DEF EmptyInv, EmptyFor, vars, clientVars, queueVars
<1> QED BY <1>1, <1>2, EmptyClientStep DEF Next, Terminated

-----------------------------------------------------------------------------
(* The line of one thread. *)

LEMMA NumsFacts ==
  ASSUME NEW C \in Seq(Unit)
  PROVE  /\ Nums(C) \subseteq Nat \ {0}
         /\ \A k \in 1 .. Len(C) : C[k] \in Unit /\ C[k][2] \in Nat \ {0} /\ C[k][2] \in Nums(C)
<1>1. \A k \in 1 .. Len(C) : C[k] \in Unit OBVIOUS
<1> QED BY <1>1 DEF Nums, Unit

LEMMA QueuedFacts ==
  ASSUME NEW P, NEW D
  PROVE  \A x : x \in Queued(P, D) <=> \E i \in P : x \in Nums(D[i])
BY DEF Queued

(* A write makes the line longer at its end.  *)
LEMMA LinedWrite ==
  ASSUME NEW c \in Clients, NEW W, NEW P \in SUBSET Nat, NEW D, NEW C \in Seq(Unit),
         NEW m \in Nat, NEW n \in Nat, Lined(c, W, P, D, C, m)
  PROVE  Lined(c, W, P, D, C \o [k \in 1 .. n |-> <<c, m + k>>], m + n)
<1> DEFINE new == [k \in 1 .. n |-> <<c, m + k>>]
           E == C \o new
<1>1. /\ Len(E) = Len(C) + n /\ Len(C) \in Nat
      /\ \A k \in 1 .. Len(C) : E[k] = C[k]
      /\ \A k \in Len(C) + 1 .. Len(C) + n : E[k] = <<c, m + (k - Len(C))>>
  <2>1. new \in Seq(Unit) /\ Len(new) = n
    <3>1. \A k \in 1 .. n : <<c, m + k>> \in Unit BY DEF Unit
    <3> QED BY <3>1
  <2> QED BY <2>1
<1> HIDE DEF E
<1>0. W \cup Queued(P, D) \cup Nums(C) = 1 .. m BY DEF Lined
<1>9. \A i \in P : Nums(D[i]) \subseteq Queued(P, D) BY QueuedFacts
<1>2. /\ W \subseteq 1 .. m /\ Nums(C) \subseteq 1 .. m
      /\ \A i \in P : Nums(D[i]) \subseteq 1 .. m
  BY <1>0, <1>9
<1>3. Nums(E) = Nums(C) \cup (m + 1 .. m + n)
  <2>1. ASSUME NEW x \in Nums(E) PROVE x \in Nums(C) \cup (m + 1 .. m + n)
    <3>1. PICK k \in 1 .. Len(E) : x = E[k][2] BY DEF Nums
    <3>2. CASE k \in 1 .. Len(C) BY <1>1, <3>1, <3>2 DEF Nums
    <3>3. CASE k \in Len(C) + 1 .. Len(C) + n BY <1>1, <3>1, <3>3
    <3> QED BY <1>1, <3>2, <3>3
  <2>2. ASSUME NEW x \in Nums(C) PROVE x \in Nums(E)
    <3>1. PICK k \in 1 .. Len(C) : x = C[k][2] BY DEF Nums
    <3>2. k \in 1 .. Len(E) /\ E[k] = C[k] BY <1>1
    <3> QED BY <3>1, <3>2 DEF Nums
  <2>3. ASSUME NEW x \in m + 1 .. m + n PROVE x \in Nums(E)
    <3>1. x - m + Len(C) \in Len(C) + 1 .. Len(C) + n BY <1>1
    <3>2. E[x - m + Len(C)][2] = m + ((x - m + Len(C)) - Len(C)) BY <1>1, <3>1
    <3>3. E[x - m + Len(C)][2] = x /\ x - m + Len(C) \in 1 .. Len(E) BY <1>1, <3>1, <3>2
    <3> QED BY <3>3 DEF Nums
  <2> QED BY <2>1, <2>2, <2>3
<1>4. Run(c, C) BY DEF Lined
<1>5. Run(c, E)
  <2>1. ASSUME NEW k \in 1 .. Len(E) PROVE E[k][1] = c
    BY <1>1, <1>4 DEF Run
  <2>2. ASSUME NEW k \in 1 .. Len(E), NEW l \in 1 .. Len(E), k < l
        PROVE  E[k][2] < E[l][2]
    <3>1. CASE l \in 1 .. Len(C) BY <1>1, <1>4, <2>2, <3>1 DEF Run
    <3>2. CASE l \notin 1 .. Len(C) /\ k \in 1 .. Len(C)
      <4>1. C[k][2] \in 1 .. m BY <1>2, <3>2 DEF Nums
      <4> QED BY <1>1, <3>2, <4>1
    <3>3. CASE k \notin 1 .. Len(C) BY <1>1, <2>2, <3>3
    <3> QED BY <3>1, <3>2, <3>3
  <2> QED BY <2>1, <2>2 DEF Run
<1>6. Below(W, Nums(E)) /\ \A i \in P : Below(Nums(D[i]), Nums(E))
  <2>1. \A S \in SUBSET (1 .. m) : Below(S, Nums(C)) => Below(S, Nums(E))
    BY <1>3 DEF Below
  <2> QED BY <1>2, <2>1 DEF Lined
<1>7. 1 .. m + n = (1 .. m) \cup (m + 1 .. m + n) OBVIOUS
<1>8. W \cup Queued(P, D) \cup Nums(E) = 1 .. m + n
  BY <1>0, <1>3, <1>7
<1>11. \A i \in P : /\ Run(c, D[i]) /\ Below(W, Nums(D[i]))
                   /\ \A j \in P : i < j => Below(Nums(D[i]), Nums(D[j]))
  BY DEF Lined
<1>12. E = C \o [k \in 1 .. n |-> <<c, m + k>>] BY DEF E
<1> QED BY <1>5, <1>6, <1>8, <1>11, <1>12 DEF Lined

(* Sending a batch moves its first units from the batch to the channel.  *)
LEMMA LinedSend ==
  ASSUME NEW c \in Clients, NEW W, NEW P \in SUBSET Nat, NEW D, NEW C \in Seq(Unit),
         NEW m \in Nat, Lined(c, W, P, D, C, m),
         NEW k \in Nat, \A i \in P : i < k, NEW u \in 0 .. Len(C), NEW E,
         E[k] = SubSeq(C, 1, u), \A i \in P : E[i] = D[i]
  PROVE  Lined(c, W, P \cup {k}, E, SubSeq(C, u + 1, Len(C)), m)
<1> DEFINE F == SubSeq(C, 1, u)
           G == SubSeq(C, u + 1, Len(C))
<1>1. /\ F \in Seq(Unit) /\ Len(F) = u /\ \A j \in 1 .. u : F[j] = C[j]
      /\ G \in Seq(Unit) /\ Len(G) = Len(C) - u
      /\ \A j \in 1 .. Len(C) - u : G[j] = C[u + j]
      /\ Len(C) \in Nat /\ u \in Nat /\ u <= Len(C)
  <2>1. Len(C) \in Nat /\ u \in Nat /\ u <= Len(C) OBVIOUS
  <2>2. F \in Seq(Unit) /\ Len(F) = u /\ \A j \in 1 .. u : F[j] = C[j] OBVIOUS
  <2>3. /\ G \in Seq(Unit) /\ Len(G) = Len(C) - u
        /\ \A j \in 1 .. Len(C) - u : G[j] = C[u + j]
    OBVIOUS
  <2> QED BY <2>1, <2>2, <2>3
<1> HIDE DEF F, G
<1>2. Run(c, C) BY DEF Lined
<1>a. \A j \in 1 .. Len(F) : j \in 1 .. Len(C) /\ F[j] = C[j] BY <1>1
<1>b. \A j \in 1 .. Len(G) : u + j \in 1 .. Len(C) /\ G[j] = C[u + j] BY <1>1
<1>c. \A j, l \in 1 .. Len(G) : j < l => u + j < u + l BY <1>1
<1>3. Run(c, F) /\ Run(c, G)
  <2>1. Run(c, F) BY <1>2, <1>a DEF Run
  <2>2. \A j \in 1 .. Len(G) : G[j][1] = c BY <1>2, <1>b DEF Run
  <2>3. \A j, l \in 1 .. Len(G) : j < l => G[j][2] < G[l][2]
    BY <1>2, <1>b, <1>c DEF Run
  <2> QED BY <2>1, <2>2, <2>3 DEF Run
<1>4. Nums(F) \subseteq Nums(C) /\ Nums(G) \subseteq Nums(C)
  <2>1. ASSUME NEW x \in Nums(F) PROVE x \in Nums(C)
    <3>1. PICK j \in 1 .. Len(F) : x = F[j][2] BY DEF Nums
    <3> QED BY <1>a, <3>1 DEF Nums
  <2>2. ASSUME NEW x \in Nums(G) PROVE x \in Nums(C)
    <3>1. PICK j \in 1 .. Len(G) : x = G[j][2] BY DEF Nums
    <3> QED BY <1>b, <3>1 DEF Nums
  <2> QED BY <2>1, <2>2
<1>5. ASSUME NEW x \in Nums(C) PROVE x \in Nums(F) \cup Nums(G)
  <2>1. PICK j \in 1 .. Len(C) : x = C[j][2] BY DEF Nums
  <2>2. CASE j <= u
    <3>1. j \in 1 .. Len(F) /\ F[j] = C[j] BY <1>1, <2>2
    <3> QED BY <2>1, <3>1 DEF Nums
  <2>3. CASE j > u
    <3>1. j - u \in 1 .. Len(G) /\ G[j - u] = C[u + (j - u)] /\ u + (j - u) = j
      BY <1>1, <2>3
    <3> QED BY <2>1, <3>1 DEF Nums
  <2> QED BY <1>1, <2>2, <2>3
<1>6. Below(Nums(F), Nums(G))
  <2> SUFFICES ASSUME NEW x \in Nums(F), NEW y \in Nums(G) PROVE x < y
    BY DEF Below
  <2>1. PICK j \in 1 .. Len(F) : x = F[j][2] BY DEF Nums
  <2>2. PICK l \in 1 .. Len(G) : y = G[l][2] BY DEF Nums
  <2>3. j < u + l BY <1>1
  <2> QED BY <1>2, <1>a, <1>b, <2>1, <2>2, <2>3 DEF Run
<1>7. /\ Below(W, Nums(F)) /\ Below(W, Nums(G))
      /\ \A i \in P : Below(Nums(D[i]), Nums(F)) /\ Below(Nums(D[i]), Nums(G))
  BY <1>4 DEF Lined, Below
<1>8. Queued(P \cup {k}, E) = Queued(P, D) \cup Nums(F)
  <2>1. E[k] = F BY DEF F
  <2>2. \A x : x \in Queued(P, D) <=> \E i \in P : x \in Nums(E[i])
    BY QueuedFacts
  <2>3. \A x : x \in Queued(P \cup {k}, E) <=> \E i \in P \cup {k} : x \in Nums(E[i])
    BY QueuedFacts
  <2> QED BY <2>1, <2>2, <2>3
<1>9. W \cup Queued(P \cup {k}, E) \cup Nums(G) = 1 .. m
  <2>1. W \cup Queued(P, D) \cup Nums(C) = 1 .. m BY DEF Lined
  <2> QED BY <1>4, <1>5, <1>8, <2>1
<1>10. ASSUME NEW i \in P \cup {k}
       PROVE  /\ Run(c, E[i])
              /\ Below(W, Nums(E[i])) /\ Below(Nums(E[i]), Nums(G))
              /\ \A j \in P \cup {k} : i < j => Below(Nums(E[i]), Nums(E[j]))
  <2>1. E[k] = F BY DEF F
  <2>2. CASE i \in P
    <3>1. Run(c, D[i]) /\ Below(W, Nums(D[i])) BY <2>2 DEF Lined
    <3>2. \A j \in P : i < j => Below(Nums(D[i]), Nums(D[j])) BY <2>2 DEF Lined
    <3> QED BY <1>7, <2>1, <2>2, <3>1, <3>2
  <2>3. CASE i = k /\ i \notin P
    <3>1. \A j \in P \cup {k} : ~(i < j) BY <2>3
    <3> QED BY <1>3, <1>6, <1>7, <2>1, <2>3, <3>1
  <2> QED BY <2>2, <2>3
<1> QED BY <1>3, <1>7, <1>9, <1>10 DEF Lined, G

(* Writing the first request moves its units to the file.  *)
LEMMA LinedIssue ==
  ASSUME NEW c \in Clients, NEW W, NEW P \in SUBSET Nat, NEW D, NEW C \in Seq(Unit),
         NEW m \in Nat, Lined(c, W, P, D, C, m), NEW i \in P, \A j \in P : i <= j
  PROVE  Lined(c, W \cup Nums(D[i]), P \ {i}, D, C, m)
<1>1. \A j \in P \ {i} : i < j OBVIOUS
<1>2. Below(W \cup Nums(D[i]), Nums(C)) BY DEF Lined, Below
<1>3. ASSUME NEW j \in P \ {i}
      PROVE  /\ Run(c, D[j])
             /\ Below(W \cup Nums(D[i]), Nums(D[j])) /\ Below(Nums(D[j]), Nums(C))
             /\ \A k \in P \ {i} : j < k => Below(Nums(D[j]), Nums(D[k]))
  <2>1. Below(W, Nums(D[j])) /\ Below(Nums(D[i]), Nums(D[j])) BY <1>1 DEF Lined
  <2>2. Below(W \cup Nums(D[i]), Nums(D[j])) BY <2>1 DEF Below
  <2>3. Run(c, D[j]) /\ Below(Nums(D[j]), Nums(C)) BY DEF Lined
  <2>4. \A k \in P \ {i} : j < k => Below(Nums(D[j]), Nums(D[k])) BY DEF Lined
  <2> QED BY <2>2, <2>3, <2>4
<1>4. Queued(P, D) = Nums(D[i]) \cup Queued(P \ {i}, D) BY QueuedFacts
<1>5. (W \cup Nums(D[i])) \cup Queued(P \ {i}, D) \cup Nums(C) = 1 .. m
  BY <1>4 DEF Lined
<1>6. Run(c, C) BY DEF Lined
<1> QED BY <1>2, <1>3, <1>5, <1>6 DEF Lined

(* The line in the next state.  *)
LEMMA NextLine ==
  ASSUME NEW c \in Clients, NEW W, NEW P, NEW D, NEW C, NEW m,
         Lined(c, W, P, D, C, m), Written(c)' = W, Pending(c)' = P, Cur(c)' = C,
         made'[c] = m, \A i \in P : Data(i)' = D[i]
  PROVE  LineFor(c)'
<1>1. PICK E : E = [i \in P |-> D[i]] OBVIOUS
<1>2. [i \in Pending(c)' |-> Data(i)'] = E BY <1>1
<1>3. Lined(c, W, P, E, C, m)
  <2>1. \A i \in P : E[i] = D[i] BY <1>1
  <2>2. Queued(P, E) = Queued(P, D)
    <3>1. \A x : x \in Queued(P, E) <=> \E i \in P : x \in Nums(E[i]) BY QueuedFacts
    <3>2. \A x : x \in Queued(P, D) <=> \E i \in P : x \in Nums(D[i]) BY QueuedFacts
    <3> QED BY <2>1, <3>1, <3>2
  <2> QED BY <2>1, <2>2 DEF Lined
<1>4. Lined(c, Written(c)', Pending(c)', [i \in Pending(c)' |-> Data(i)'], Cur(c)', made'[c])
  BY <1>2, <1>3
<1> QED BY <1>4 DEF LineFor

-----------------------------------------------------------------------------
(* The line as the threads go on. *)

LEMMA PendingSame ==
  ASSUME IInv, NEW b \in Clients, issued' = issued,
         sent' = sent \/ \E r : sent' = Append(sent, r) /\ (r.type # "Write" \/ r.client # b)
  PROVE  Pending(b)' = Pending(b) /\ \A i \in Pending(b) : sent'[i] = sent[i]
<1> USE DEF IInv, TypeOK, QueueTypeOK
<1>1. CASE sent' = sent BY <1>1 DEF Pending, IsWrite
<1>2. ASSUME NEW r, sent' = Append(sent, r), r.type # "Write" \/ r.client # b
      PROVE  Pending(b)' = Pending(b) /\ \A i \in Pending(b) : sent'[i] = sent[i]
  <2>1. /\ Len(sent) \in Nat /\ Len(sent') = Len(sent) + 1 /\ sent'[Len(sent) + 1] = r
        /\ \A i \in 1 .. Len(sent) : sent'[i] = sent[i]
    <3>1. sent \in Seq(Request) OBVIOUS
    <3> QED BY <1>2, <3>1
  <2>2. \A i \in issued + 1 .. Len(sent) : i \in 1 .. Len(sent) /\ sent'[i] = sent[i] BY <2>1
  <2>3. \A i \in issued + 1 .. Len(sent') : i \in issued + 1 .. Len(sent) \/ i = Len(sent) + 1
    BY <2>1
  <2>4. \A i \in issued + 1 .. Len(sent) : i \in issued + 1 .. Len(sent') BY <2>1
  <2> QED BY <1>2, <2>1, <2>2, <2>3, <2>4 DEF Pending, IsWrite
<1> QED BY <1>1, <1>2

(* What a step leaves of the line of b stays one.  *)
LEMMA KeepLine ==
  ASSUME NEW b \in Clients, LineFor(b), log' = log, Pending(b)' = Pending(b),
         \A i \in Pending(b) : sent'[i] = sent[i] /\ data'[sent[i].addr] = Data(i),
         Cur(b)' = Cur(b), made'[b] = made[b]
  PROVE  LineFor(b)'
<1>1. PICK W : W = Written(b) OBVIOUS
<1>2. PICK P : P = Pending(b) OBVIOUS
<1>3. PICK D : D = [i \in Pending(b) |-> Data(i)] OBVIOUS
<1>4. PICK C : C = Cur(b) OBVIOUS
<1>5. PICK m : m = made[b] OBVIOUS
<1>6. Lined(b, W, P, D, C, m) BY <1>1, <1>2, <1>3, <1>4, <1>5 DEF LineFor
<1>7. Written(b)' = W BY <1>1 DEF Written
<1>8. \A i \in P : Data(i)' = D[i] BY <1>2, <1>3 DEF Data
<1> QED BY <1>2, <1>4, <1>5, <1>6, <1>7, <1>8, NextLine

(* A step that prints, sends and writes no unit keeps every line.  *)
LEMMA QuietLine ==
  ASSUME IInv, UNCHANGED <<log, issued, made>>,
         sent' = sent \/ \E r : sent' = Append(sent, r) /\ r.type # "Write",
         NEW b \in Clients, LineFor(b), Cur(b)' = Cur(b),
         \A i \in Pending(b) : data'[sent[i].addr] = Data(i)
  PROVE  LineFor(b)'
<1>1. Pending(b)' = Pending(b) /\ \A i \in Pending(b) : sent'[i] = sent[i]
  BY PendingSame
<1> QED BY <1>1, KeepLine

(* The lines of the others.  *)
LEMMA OthersLine ==
  ASSUME IInv, BatchInv, ~failed, NEW c \in Clients, NEW b \in Clients, b # c, LineFor(b),
         UNCHANGED <<log, issued>>,
         sent' = sent \/ \E r : sent' = Append(sent, r) /\ (r.type # "Write" \/ r.client = c),
         \A d \in Clients : d # c => cur'[d] = cur[d] /\ made'[d] = made[d],
         \A a \in Addrs : data'[a] = data[a] \/ Own(c, a)
  PROVE  LineFor(b)'
<1>1. Pending(b)' = Pending(b) /\ \A i \in Pending(b) : sent'[i] = sent[i]
  BY PendingSame
<1>2. Cur(b)' = Cur(b) /\ \A i \in Pending(b) : data'[sent[i].addr] = Data(i)
  BY OthersKeep
<1> QED BY <1>1, <1>2, KeepLine

(* The line of the thread that prints.  *)
LEMMA WriteLine ==
  ASSUME IInv, BatchInv, ~failed, NEW c \in Clients, LineFor(c), NEW n \in 1 .. MaxWrite,
         NEW nl \in 0 .. MaxWrite, NEW s \in Specs, Write(c, n, nl, s)
  PROVE  LineFor(c)'
<1> USE DEF IInv, TypeOK
<1>1. /\ Cur(c) \in Seq(Unit)
      /\ Cur(c)' = Cur(c) \o [k \in 1 .. n |-> <<c, made[c] + k>>]
      /\ \A a \in Addrs : data'[a] = data[a] \/ Own(c, a)
      /\ \A b \in Clients : b # c => cur'[b] = cur[b]
  BY WriteKeeps
<1>2. UNCHANGED <<sent, log, issued>> BY DEF Write, queueVars, fileVars
<1>3. made'[c] = made[c] + n /\ made[c] \in Nat /\ n \in Nat BY DEF Write, ClientTypeOK
<1>4. Pending(c)' = Pending(c) BY <1>2 DEF Pending, IsWrite
<1>5. \A i \in Pending(c) : data'[sent[i].addr] = Data(i) BY <1>1, OthersKeep
<1>6. PICK W : W = Written(c) OBVIOUS
<1>7. PICK P : P = Pending(c) OBVIOUS
<1>8. PICK D : D = [i \in Pending(c) |-> Data(i)] OBVIOUS
<1>9. PICK C \in Seq(Unit) : C = Cur(c) BY <1>1
<1>10. PICK m \in Nat : m = made[c] BY <1>3
<1>11. Lined(c, W, P, D, C, m) BY <1>6, <1>7, <1>8, <1>9, <1>10 DEF LineFor
<1>12. P \in SUBSET Nat BY <1>7 DEF Pending, QueueTypeOK
<1>13. PICK E : E = C \o [k \in 1 .. n |-> <<c, m + k>>] OBVIOUS
<1>14. Lined(c, W, P, D, E, m + n) BY <1>3, <1>11, <1>12, <1>13, LinedWrite
<1>15. Written(c)' = W BY <1>2, <1>6 DEF Written
<1>16. \A i \in P : Data(i)' = D[i] BY <1>2, <1>5, <1>7, <1>8 DEF Data
<1>17. Cur(c)' = E BY <1>1, <1>9, <1>10, <1>13
<1>18. made'[c] = m + n BY <1>3, <1>10
<1>19. Pending(c)' = P BY <1>4, <1>7
<1> QED BY <1>14, <1>15, <1>16, <1>17, <1>18, <1>19, NextLine

(* The line of the thread that sends a batch.  *)
LEMMA SendLine ==
  ASSUME IInv, BatchInv, ~failed, NEW c \in Clients, LineFor(c), SendWrite(c)
  PROVE  LineFor(c)'
<1> USE DEF IInv, TypeOK
<1>1. PICK u \in 0 .. Len(Cur(c)) :
        /\ \A b \in Clients : b # c => cur'[b] = cur[b]
        /\ \A a \in Addrs : data'[a] = data[a] \/ Own(c, a)
        /\ Cur(c) \in Seq(Unit) /\ cur[c] \in Addrs
        /\ data'[cur[c]] = SubSeq(Cur(c), 1, u)
        /\ Cur(c)' = SubSeq(Cur(c), u + 1, Len(Cur(c)))
        /\ sent' = Append(sent, [type |-> "Write", client |-> c, addr |-> cur[c],
                                 spec |-> spec[c], flush |-> upto[c] # 0])
  BY SendKeeps
<1>2. UNCHANGED <<log, issued, made>> BY DEF SendWrite, queueVars, fileVars
<1>3. /\ Len(sent) \in Nat /\ Len(sent') = Len(sent) + 1
      /\ sent'[Len(sent) + 1].type = "Write" /\ sent'[Len(sent) + 1].client = c
      /\ sent'[Len(sent) + 1].addr = cur[c]
      /\ \A i \in 1 .. Len(sent) : sent'[i] = sent[i]
  <2>1. sent \in Seq(Request) BY DEF QueueTypeOK
  <2> QED BY <1>1, <2>1
<1>4. \A i \in Pending(c) : data'[sent[i].addr] = Data(i) BY <1>1, OthersKeep
<1>5. \A i \in Pending(c) : i \in 1 .. Len(sent) /\ i < Len(sent) + 1
  BY <1>3 DEF Pending, QueueTypeOK
<1>6. PICK W : W = Written(c) OBVIOUS
<1>7. PICK P : P = Pending(c) OBVIOUS
<1>8. PICK D : D = [i \in Pending(c) |-> Data(i)] OBVIOUS
<1>9. PICK C \in Seq(Unit) : C = Cur(c) BY <1>1
<1>10. PICK m \in Nat : m = made[c] BY DEF ClientTypeOK
<1>11. Lined(c, W, P, D, C, m) BY <1>6, <1>7, <1>8, <1>9, <1>10 DEF LineFor
<1>12. P \in SUBSET Nat BY <1>5, <1>7
<1>13. PICK k \in Nat : k = Len(sent) + 1 BY <1>3
<1>14. k \notin P /\ \A i \in P : i < k BY <1>5, <1>7, <1>13
<1>15. PICK E : E = [i \in P \cup {k} |-> IF i = k THEN SubSeq(C, 1, u) ELSE D[i]] OBVIOUS
<1>16. E[k] = SubSeq(C, 1, u) /\ \A i \in P : E[i] = D[i] BY <1>14, <1>15
<1>17. PICK G : G = SubSeq(C, u + 1, Len(C)) OBVIOUS
<1>18. u \in 0 .. Len(C) BY <1>9
<1>19. PICK Q : Q = P \cup {k} OBVIOUS
<1>20. Lined(c, W, Q, E, G, m)
  BY <1>11, <1>12, <1>14, <1>16, <1>17, <1>18, <1>19, LinedSend
<1>21. Pending(c)' = Q
  <2>1. \A i \in issued + 1 .. Len(sent') : i \in issued + 1 .. Len(sent) \/ i = k
    BY <1>3, <1>13
  <2>2. \A i \in issued + 1 .. Len(sent) : i \in issued + 1 .. Len(sent') /\ i \in 1 .. Len(sent)
    BY <1>3 DEF QueueTypeOK
  <2>3. k \in issued + 1 .. Len(sent') BY <1>3, <1>13 DEF BatchInv, QueueTypeOK
  <2> QED BY <1>2, <1>3, <1>7, <1>13, <1>19, <2>1, <2>2, <2>3 DEF Pending, IsWrite
<1>22. ASSUME NEW i \in Q PROVE Data(i)' = E[i]
  <2>1. CASE i = k BY <1>1, <1>3, <1>9, <1>13, <1>16, <2>1 DEF Data
  <2>2. CASE i \in P BY <1>3, <1>4, <1>5, <1>7, <1>8, <1>16, <2>2 DEF Data
  <2> QED BY <1>19, <2>1, <2>2
<1>23. Written(c)' = W BY <1>2, <1>6 DEF Written
<1>24. Cur(c)' = G BY <1>1, <1>9, <1>17
<1>25. made'[c] = m BY <1>2, <1>10
<1> QED BY <1>20, <1>21, <1>22, <1>23, <1>24, <1>25, NextLine

LEMMA LineClientStep ==
  ASSUME IInv, BatchInv, EmptyInv, LineInv, NEW c \in Clients, ClientStep(c)
  PROVE  LineInv'
<1> USE DEF IInv, TypeOK
<1>1. UNCHANGED <<failed, log, issued>> BY ClientFacts DEF queueVars, fileVars
<1> SUFFICES ASSUME ~failed, NEW b \in Clients PROVE LineFor(b)'
  BY <1>1 DEF LineInv
<1>2. LineFor(b) BY DEF LineInv
<1>3. EmptyFor(c) BY DEF EmptyInv
<1>4. ASSUME UNCHANGED <<made, sent>>, Cur(c)' = Cur(c),
             \A d \in Clients : d # c => cur'[d] = cur[d],
             \A a \in Addrs : data'[a] = data[a] \/ Own(c, a)
      PROVE  LineFor(b)'
  <2>1. Cur(b)' = Cur(b) BY <1>4, OthersKeep
  <2>2. \A i \in Pending(b) : data'[sent[i].addr] = Data(i) BY <1>4, OthersKeep
  <2> QED BY <1>1, <1>2, <1>4, <2>1, <2>2, QuietLine
<1>5. CASE GetHandle(c)
  <2>1. pc[c] = "none" /\ NewHandle(c) /\ UNCHANGED <<made, sent>> BY <1>5 DEF GetHandle
  <2> QED BY <1>4, <2>1, NewHandleKeeps
<1>6. CASE RootClose(c)
  <2>1. pc[c] = "none" /\ NewHandle(c) /\ UNCHANGED <<made, sent>> BY <1>6 DEF RootClose
  <2> QED BY <1>4, <2>1, NewHandleKeeps
<1>7. ASSUME UNCHANGED <<cur, data, made>>,
             sent' = sent \/ \E r : sent' = Append(sent, r) /\ r.type # "Write"
      PROVE  LineFor(b)'
  <2>1. Cur(b)' = Cur(b) BY <1>7 DEF Cur
  <2>2. \A i \in Pending(b) : data'[sent[i].addr] = Data(i) BY <1>7 DEF Data
  <2> QED BY <1>1, <1>2, <1>7, <2>1, <2>2, QuietLine
<1>8. CASE Shutdown(c)
  <2>1. UNCHANGED <<cur, data, made, sent>> BY <1>8 DEF Shutdown, heap
  <2> QED BY <1>7, <2>1
<1>9. ASSUME NEW o \in {"flush", "close"}, Start(c, o) PROVE LineFor(b)'
  <2>1. UNCHANGED <<cur, data, made, sent>> BY <1>9 DEF Start, heap
  <2> QED BY <1>7, <2>1
<1>10. CASE SendClose(c)
  <2>1. UNCHANGED <<cur, data, made>> BY <1>10 DEF SendClose, heap
  <2>2. \E r : sent' = Append(sent, r) /\ r.type # "Write" BY <1>10 DEF SendClose, Send
  <2> QED BY <1>7, <2>1, <2>2
<1>11. CASE SendFlush(c)
  <2>1. UNCHANGED <<cur, data, made>> BY <1>11 DEF SendFlush, heap
  <2>2. \E r : sent' = Append(sent, r) /\ r.type # "Write" BY <1>11 DEF SendFlush, Send
  <2> QED BY <1>7, <2>1, <2>2
<1>12. CASE FlushReturn(c)
  <2>1. UNCHANGED <<cur, data, made, sent>> BY <1>12 DEF FlushReturn, heap
  <2> QED BY <1>7, <2>1
<1>13. CASE FreeHandle(c)
  <2>1. UNCHANGED <<made, sent>> /\ pc[c] = "free" BY <1>13 DEF FreeHandle
  <2>2. Cur(c) = << >> BY <1>3, <2>1 DEF EmptyFor
  <2> QED BY <1>4, <1>13, <2>1, <2>2, FreeKeeps
<1>14. ASSUME NEW n \in 1 .. MaxWrite, NEW nl \in 0 .. MaxWrite, NEW s \in Specs,
              Write(c, n, nl, s)
       PROVE  LineFor(b)'
  <2>1. CASE b = c BY <1>2, <1>14, <2>1, WriteLine
  <2>2. CASE b # c
    <3>1. sent' = sent /\ \A d \in Clients : d # c => made'[d] = made[d]
      BY <1>14 DEF Write, ClientTypeOK
    <3>2. /\ \A d \in Clients : d # c => cur'[d] = cur[d]
          /\ \A a \in Addrs : data'[a] = data[a] \/ Own(c, a)
      BY <1>14, WriteKeeps
    <3> QED BY <1>1, <1>2, <2>2, <3>1, <3>2, OthersLine
  <2> QED BY <2>1, <2>2
<1>15. CASE SendWrite(c)
  <2>1. CASE b = c BY <1>2, <1>15, <2>1, SendLine
  <2>2. CASE b # c
    <3>1. /\ \A d \in Clients : d # c => cur'[d] = cur[d]
          /\ \A a \in Addrs : data'[a] = data[a] \/ Own(c, a)
          /\ \E r : sent' = Append(sent, r) /\ r.client = c
      <4>1. \E r : sent' = Append(sent, r) /\ r.client = c BY <1>15 DEF SendWrite, Send
      <4> QED BY <1>15, <4>1, SendKeeps
    <3>2. made' = made BY <1>15 DEF SendWrite
    <3> QED BY <1>1, <1>2, <2>2, <3>1, <3>2, OthersLine
  <2> QED BY <2>1, <2>2
<1> QED
  BY <1>5, <1>6, <1>8, <1>9, <1>10, <1>11, <1>12, <1>13, <1>14, <1>15 DEF ClientStep

-----------------------------------------------------------------------------
(* What a write puts in the file. *)

(* Appending units of one thread.  *)
LEMMA UnitsAppend ==
  ASSUME NEW us \in Seq(Unit), NEW v \in Seq(Unit), NEW c \in Clients, NEW d \in Clients,
         Run(d, v), NEW k \in 0 .. Len(v)
  PROVE  /\ \A i \in 0 .. Len(us) : Promise!Units(c, us \o v, i) = Promise!Units(c, us, i)
         /\ Promise!Units(c, us \o v, Len(us) + k) =
              Promise!Units(c, us, Len(us))
                \cup (IF c = d THEN Firsts(v, k) ELSE {})
<1> DEFINE w == us \o v
<1>1. /\ Len(us) \in Nat /\ Len(v) \in Nat /\ Len(w) = Len(us) + Len(v)
      /\ \A i \in 1 .. Len(us) : w[i] = us[i]
      /\ \A j \in 1 .. Len(v) : w[Len(us) + j] = v[j]
  OBVIOUS
<1>2. \A i, j : i \in Nat /\ j \in 1 .. i => j \in Nat OBVIOUS
<1> HIDE DEF w
<1>3. ASSUME NEW i \in 0 .. Len(us)
      PROVE  Promise!Units(c, w, i) = Promise!Units(c, us, i)
  <2>1. \A j \in 1 .. i : w[j] = us[j] BY <1>1
  <2> QED BY <2>1 DEF Promise!Units
<1>4. ASSUME NEW x \in Promise!Units(c, w, Len(us) + k)
      PROVE  x \in Promise!Units(c, us, Len(us))
                     \cup (IF c = d THEN Firsts(v, k) ELSE {})
  <2>1. PICK i \in 1 .. Len(us) + k : w[i][1] = c /\ x = w[i][2] BY DEF Promise!Units
  <2>2. CASE i <= Len(us)
    <3>1. i \in 1 .. Len(us) /\ w[i] = us[i] BY <1>1, <2>1, <2>2
    <3> QED BY <2>1, <3>1 DEF Promise!Units
  <2>3. CASE i > Len(us)
    <3>1. PICK j \in 1 .. k : i = Len(us) + j
      <4>1. i - Len(us) \in 1 .. k /\ i = Len(us) + (i - Len(us)) BY <1>1, <2>1, <2>3
      <4> QED BY <4>1
    <3>2. w[i] = v[j] BY <1>1, <3>1
    <3>3. v[j][1] = d BY <3>1 DEF Run
    <3>4. c = d /\ x \in Firsts(v, k) BY <2>1, <3>1, <3>2, <3>3 DEF Firsts
    <3> QED BY <3>4
  <2> QED BY <1>1, <2>2, <2>3
<1>5. ASSUME NEW x \in Promise!Units(c, us, Len(us))
      PROVE  x \in Promise!Units(c, w, Len(us) + k)
  <2>1. PICK i \in 1 .. Len(us) : us[i][1] = c /\ x = us[i][2] BY DEF Promise!Units
  <2>2. i \in 1 .. Len(us) + k /\ w[i] = us[i] BY <1>1
  <2> QED BY <2>1, <2>2 DEF Promise!Units
<1>6. ASSUME c = d, NEW x \in Firsts(v, k)
      PROVE  x \in Promise!Units(c, w, Len(us) + k)
  <2>0. PICK j \in 1 .. k : x = v[j][2] BY DEF Firsts
  <2>1. Len(us) + j \in 1 .. Len(us) + k /\ w[Len(us) + j] = v[j] BY <1>1
  <2>2. v[j][1] = c BY <1>6 DEF Run
  <2> QED BY <2>0, <2>1, <2>2 DEF Promise!Units
<1>7. Promise!Units(c, w, Len(us) + k) =
        Promise!Units(c, us, Len(us)) \cup (IF c = d THEN Firsts(v, k) ELSE {})
  BY <1>4, <1>5, <1>6
<1> QED BY <1>3, <1>7 DEF w

(* The first request carries on where the file ends.  *)
LEMMA LinedFirst ==
  ASSUME NEW c \in Clients, NEW W, NEW P \in SUBSET Nat, NEW D, NEW C \in Seq(Unit),
         NEW m \in Nat, Lined(c, W, P, D, C, m), NEW i \in P, \A j \in P : i <= j,
         NEW v \in Seq(Unit), v = D[i]
  PROVE  CarriesOn(v, W, m)
<1> SUFFICES ASSUME NEW k \in 1 .. Len(v)
             PROVE  v[k][2] \in 1 .. m /\ W \cup Firsts(v, k - 1) = 1 .. v[k][2] - 1
  BY DEF CarriesOn
<1>1. Lined(c, W \cup Nums(v), P \ {i}, D, C, m) BY LinedIssue
<1>2. /\ Below(W, Nums(v)) /\ Below(Nums(v), Nums(C)) /\ Run(c, v)
      /\ \A j \in P \ {i} : Below(Nums(v), Nums(D[j]))
  <2>1. \A j \in P \ {i} : i < j OBVIOUS
  <2> QED BY <2>1 DEF Lined
<1>3. \A x : x \in 1 .. m <=>
        \/ x \in W \/ x \in Nums(v) \/ x \in Nums(C)
        \/ \E j \in P \ {i} : x \in Nums(D[j])
  <2>1. (W \cup Nums(v)) \cup Queued(P \ {i}, D) \cup Nums(C) = 1 .. m BY <1>1 DEF Lined
  <2>2. \A x : x \in Queued(P \ {i}, D) <=> \E j \in P \ {i} : x \in Nums(D[j])
    BY QueuedFacts
  <2> QED BY <2>1, <2>2
<1>4. PICK x : x = v[k][2] OBVIOUS
<1>5. x \in Nums(v) /\ x \in 1 .. m BY <1>3, <1>4 DEF Nums
<1>6. \A j \in 1 .. k - 1 : j \in 1 .. Len(v) /\ j < k OBVIOUS
<1>7. \A y \in W : y \in 1 .. m /\ y < x BY <1>2, <1>3, <1>5 DEF Below
<1>8. \A y \in Firsts(v, k - 1) : y \in 1 .. m /\ y < x
  <2>1. \A j \in 1 .. k - 1 : v[j][2] < x BY <1>2, <1>4, <1>6 DEF Run
  <2>2. \A j \in 1 .. k - 1 : v[j][2] \in Nums(v) BY <1>6 DEF Nums
  <2> QED BY <1>3, <2>1, <2>2 DEF Firsts
<1>9. ASSUME NEW y \in 1 .. x - 1 PROVE y \in W \cup Firsts(v, k - 1)
  <2>1. y \in 1 .. m /\ y < x BY <1>5
  <2>2. ~(y \in Nums(C)) BY <1>2, <1>5, <2>1 DEF Below
  <2>3. ~ \E j \in P \ {i} : y \in Nums(D[j]) BY <1>2, <1>5, <2>1 DEF Below
  <2>4. CASE y \in Nums(v)
    <3>1. PICK j \in 1 .. Len(v) : y = v[j][2] BY <2>4 DEF Nums
    <3>2. ~(k < j) /\ k # j BY <1>2, <1>4, <1>5, <2>1, <3>1 DEF Run
    <3>3. j \in 1 .. k - 1 BY <3>2
    <3> QED BY <3>1, <3>3 DEF Firsts
  <2> QED BY <1>3, <2>1, <2>2, <2>3, <2>4
<1> QED BY <1>4, <1>5, <1>7, <1>8, <1>9

(* So writing it, or a part of it, keeps every thread's units in order.  *)
LEMMA InOrderAppend ==
  ASSUME NEW us \in Seq(Unit), NEW v \in Seq(Unit), NEW c \in Clients, NEW d \in Clients,
         NEW m \in Nat, Run(d, v), Promise!InOrder(c, us, m),
         c = d => CarriesOn(v, Promise!Units(c, us, Len(us)), m)
  PROVE  Promise!InOrder(c, us \o v, m)
<1> DEFINE w == us \o v
<1>1. /\ Len(us) \in Nat /\ Len(v) \in Nat /\ Len(w) = Len(us) + Len(v)
      /\ \A i \in 1 .. Len(us) : w[i] = us[i]
      /\ \A j \in 1 .. Len(v) : w[Len(us) + j] = v[j]
  OBVIOUS
<1>2. ASSUME NEW k \in 0 .. Len(v)
      PROVE  Promise!Units(c, w, Len(us) + k) = Promise!Units(c, us, Len(us))
               \cup (IF c = d THEN Firsts(v, k) ELSE {})
  BY UnitsAppend
<1>3. \A i \in 0 .. Len(us) : Promise!Units(c, w, i) = Promise!Units(c, us, i)
  <2>1. 0 \in 0 .. Len(v) BY <1>1
  <2> QED BY <2>1, UnitsAppend
<1> HIDE DEF w
<1>4. Promise!Units(c, us, Len(us)) \subseteq 1 .. m BY DEF Promise!InOrder
<1>5. Promise!Units(c, w, Len(w)) \subseteq 1 .. m
  <2>1. Len(v) \in 0 .. Len(v) BY <1>1
  <2>2. c = d => Firsts(v, Len(v)) \subseteq 1 .. m BY DEF Firsts, CarriesOn
  <2> QED BY <1>1, <1>2, <1>4, <2>1, <2>2
<1>6. ASSUME NEW i \in 1 .. Len(w), w[i][1] = c
      PROVE  Promise!Units(c, w, i - 1) = 1 .. w[i][2] - 1
  <2>1. CASE i <= Len(us)
    <3>1. i - 1 \in 0 .. Len(us) /\ i \in 1 .. Len(us) /\ w[i] = us[i] BY <1>1, <2>1
    <3> QED BY <1>3, <1>6, <3>1 DEF Promise!InOrder
  <2>2. CASE i > Len(us)
    <3>1. PICK k \in 1 .. Len(v) : i = Len(us) + k
      <4>1. i - Len(us) \in 1 .. Len(v) /\ i = Len(us) + (i - Len(us)) BY <1>1, <2>2
      <4> QED BY <4>1
    <3>2. w[i] = v[k] /\ k - 1 \in 0 .. Len(v) /\ i - 1 = Len(us) + (k - 1) BY <1>1, <3>1
    <3>3. c = d BY <1>6, <3>2 DEF Run
    <3> QED BY <1>2, <3>2, <3>3 DEF CarriesOn
  <2> QED BY <1>1, <2>1, <2>2
<1> QED BY <1>5, <1>6 DEF Promise!InOrder, w

(* The write of the next request, or of a part of it.  *)
LEMMA FirstFacts ==
  ASSUME IInv, BatchInv, LineInv, ~failed, NEW i \in issued + 1 .. recvd, IsWrite(i),
         \A j \in issued + 1 .. i - 1 : ~IsWrite(j), NEW c \in Clients
  PROVE  /\ sent[i].client \in Clients /\ i \in Pending(sent[i].client)
         /\ Data(i) \in Seq(Unit) /\ Run(sent[i].client, Data(i))
         /\ \A j \in Pending(c) : i <= j
         /\ c = sent[i].client => CarriesOn(Data(i), Written(c), made[c])
<1> USE DEF IInv, TypeOK
<1>1. i \in 1 .. Len(sent) /\ i \in issued + 1 .. Len(sent) BY DEF QueueTypeOK
<1>2. PICK d \in Clients : d = sent[i].client BY <1>1, RequestFacts
<1>3. i \in Pending(d) BY <1>1, <1>2 DEF Pending
<1>4. Data(i) \in Seq(Unit) BY <1>3, PendingFacts
<1>5. LineFor(d) BY DEF LineInv
<1>6. PICK W : W = Written(d) OBVIOUS
<1>7. PICK P : P = Pending(d) OBVIOUS
<1>8. PICK D : D = [j \in Pending(d) |-> Data(j)] OBVIOUS
<1>9. PICK C \in Seq(Unit) : C = Cur(d) BY CurFacts
<1>10. PICK m \in Nat : m = made[d] BY DEF ClientTypeOK
<1>11. Lined(d, W, P, D, C, m) BY <1>5, <1>6, <1>7, <1>8, <1>9, <1>10 DEF LineFor
<1>12. ASSUME NEW b \in Clients, NEW j \in Pending(b) PROVE i <= j
  <2>1. j \in issued + 1 .. Len(sent) /\ IsWrite(j) BY DEF Pending
  <2> QED BY <1>1, <2>1 DEF QueueTypeOK
<1>13. P \in SUBSET Nat BY <1>7 DEF Pending, QueueTypeOK
<1>14. PICK v \in Seq(Unit) : v = Data(i) BY <1>4
<1>15. i \in P /\ v = D[i] /\ \A j \in P : i <= j BY <1>3, <1>7, <1>8, <1>12, <1>14
<1>16. CarriesOn(v, W, m) BY <1>11, <1>13, <1>15, LinedFirst
<1>17. Run(d, v) BY <1>11, <1>15 DEF Lined
<1> QED BY <1>2, <1>3, <1>4, <1>6, <1>10, <1>12, <1>14, <1>16, <1>17

(* A successful write takes the first request's units from the channel to the file.  *)
LEMMA IssueLine ==
  ASSUME IInv, BatchInv, LineInv, ~failed, NEW i \in issued + 1 .. recvd, IsWrite(i),
         \A j \in issued + 1 .. i - 1 : ~IsWrite(j),
         issued' = i, log' = log \o Data(i), UNCHANGED <<sent, data, cur, made>>,
         NEW c \in Clients
  PROVE  LineFor(c)'
<1> USE DEF IInv, TypeOK
<1>1. LineFor(c) BY DEF LineInv
<1>2. /\ sent[i].client \in Clients /\ Data(i) \in Seq(Unit) /\ Run(sent[i].client, Data(i))
      /\ \A j \in Pending(c) : i <= j
  BY FirstFacts
<1>3. Written(c)' = Written(c) \cup (IF c = sent[i].client THEN Nums(Data(i)) ELSE {})
  <2>1. PICK v \in Seq(Unit) : v = Data(i) BY <1>2
  <2>2. PICK us \in Seq(Unit) : us = log BY DEF FileTypeOK
  <2>3. Len(v) \in 0 .. Len(v) /\ Len(us \o v) = Len(us) + Len(v) BY <2>1, <2>2
  <2>4. PICK d \in Clients : d = sent[i].client BY <1>2
  <2>5. Promise!Units(c, us \o v, Len(us) + Len(v)) =
          Promise!Units(c, us, Len(us))
            \cup (IF c = d THEN Firsts(v, Len(v)) ELSE {})
    <3>1. Run(d, v) BY <1>2, <2>1, <2>4
    <3>2. \A k \in 0 .. Len(v) :
            Promise!Units(c, us \o v, Len(us) + k) =
              Promise!Units(c, us, Len(us)) \cup (IF c = d THEN Firsts(v, k) ELSE {})
      BY <3>1, UnitsAppend
    <3> QED BY <2>3, <3>2
  <2>6. log' = us \o v BY <2>1, <2>2
  <2>7. Written(c)' = Promise!Units(c, us \o v, Len(us \o v)) BY <2>6 DEF Written
  <2>8. Written(c) = Promise!Units(c, us, Len(us)) BY <2>2 DEF Written
  <2>9. Nums(v) = Firsts(v, Len(v)) BY DEF Nums, Firsts
  <2> QED BY <2>1, <2>3, <2>4, <2>5, <2>7, <2>8, <2>9
<1>4. Pending(c)' = Pending(c) \ {i}
  <2>1. \A j \in issued + 1 .. Len(sent) : j \in i + 1 .. Len(sent) <=> i < j
    BY DEF QueueTypeOK
  <2>2. \A j \in i + 1 .. Len(sent) : j \in issued + 1 .. Len(sent) BY DEF QueueTypeOK
  <2>3. Pending(c)' = {j \in i + 1 .. Len(sent) : IsWrite(j) /\ sent[j].client = c}
    BY DEF Pending, IsWrite
  <2>4. \A j \in Pending(c) : j \in Nat /\ (i < j <=> j # i)
    BY <1>2 DEF Pending, QueueTypeOK
  <2> QED BY <2>1, <2>2, <2>3, <2>4 DEF Pending
<1>5. PICK W : W = Written(c) OBVIOUS
<1>6. PICK P : P = Pending(c) OBVIOUS
<1>7. PICK D : D = [j \in Pending(c) |-> Data(j)] OBVIOUS
<1>8. PICK C \in Seq(Unit) : C = Cur(c) BY CurFacts
<1>9. PICK m \in Nat : m = made[c] BY DEF ClientTypeOK
<1>10. Lined(c, W, P, D, C, m) BY <1>1, <1>5, <1>6, <1>7, <1>8, <1>9 DEF LineFor
<1>11. P \in SUBSET Nat BY <1>6 DEF Pending, QueueTypeOK
<1>12. Cur(c)' = C /\ made'[c] = m BY <1>8, <1>9 DEF Cur
<1>13. PICK Q : Q = P \ {i} OBVIOUS
<1>14. Pending(c)' = Q BY <1>4, <1>6, <1>13
<1>15. \A j \in Q : Data(j)' = D[j] BY <1>6, <1>7, <1>13 DEF Data
<1>16. CASE c = sent[i].client
  <2>1. i \in P BY <1>6, <1>16, FirstFacts
  <2>2. D[i] = Data(i) BY <1>6, <1>7, <2>1
  <2>3. PICK V : V = W \cup Nums(D[i]) OBVIOUS
  <2>4. Lined(c, V, Q, D, C, m)
    BY <1>2, <1>6, <1>10, <1>11, <1>13, <2>1, <2>3, LinedIssue
  <2>5. Written(c)' = V BY <1>3, <1>5, <1>16, <2>2, <2>3
  <2> QED BY <1>12, <1>14, <1>15, <2>4, <2>5, NextLine
<1>17. CASE c # sent[i].client
  <2>1. i \notin P BY <1>6, <1>17 DEF Pending
  <2>2. Q = P BY <1>13, <2>1
  <2>3. Written(c)' = W BY <1>3, <1>5, <1>17
  <2> QED BY <1>10, <1>12, <1>14, <1>15, <2>2, <2>3, NextLine
<1> QED BY <1>16, <1>17

LEMMA LineInit == Init => LineInv
<1> SUFFICES ASSUME Init, NEW c \in Clients PROVE LineFor(c)
  BY DEF LineInv
<1>1. Cur(c) = << >> /\ made[c] = 0 BY DEF Init, Cur
<1>2. Pending(c) = {} BY DEF Init, Pending
<1>3. Written(c) = {} BY DEF Init, Written, Promise!Units
<1>4. Nums(<< >>) = {} BY DEF Nums
<1>5. \A D : Queued({}, D) = {} BY QueuedFacts
<1>6. \A D : Lined(c, {}, {}, D, << >>, 0) BY <1>4, <1>5 DEF Lined, Run, Below
<1> QED BY <1>1, <1>2, <1>3, <1>6 DEF LineFor

LEMMA LineStep == ASSUME IInv, BatchInv, EmptyInv, LineInv, [Next]_vars PROVE LineInv'
<1> USE DEF IInv, TypeOK
<1>1. ASSUME NEW c \in Clients, ClientStep(c) PROVE LineInv'
  BY <1>1, LineClientStep
<1>2. ASSUME UNCHANGED <<clientVars, data, sent, log>>, failed' \/ ~failed,
             issued' # issued =>
               /\ issued' \in Nat /\ issued <= issued' /\ issued' <= recvd
               /\ \A i \in issued + 1 .. issued' : ~IsWrite(i)
      PROVE  LineInv'
  <2> SUFFICES ASSUME ~failed, NEW c \in Clients PROVE LineFor(c)'
    BY <1>2 DEF LineInv
  <2>1. LineFor(c) BY DEF LineInv
  <2>2. Cur(c)' = Cur(c) /\ made' = made BY <1>2 DEF Cur, clientVars
  <2>3. Pending(c)' = Pending(c)
    <3>1. CASE issued' = issued BY <1>2, <3>1 DEF Pending, IsWrite
    <3>2. CASE issued' # issued
      <4>1. \A i \in issued + 1 .. Len(sent) : IsWrite(i) => i \in issued' + 1 .. Len(sent)
        BY <1>2, <3>2 DEF QueueTypeOK
      <4>2. \A i \in issued' + 1 .. Len(sent) : i \in issued + 1 .. Len(sent)
        BY <1>2, <3>2 DEF QueueTypeOK
      <4> QED BY <1>2, <4>1, <4>2 DEF Pending, IsWrite
    <3> QED BY <3>1, <3>2
  <2>4. \A i \in Pending(c) : sent'[i] = sent[i] /\ data'[sent[i].addr] = Data(i)
    BY <1>2 DEF Data
  <2> QED BY <1>2, <2>1, <2>2, <2>3, <2>4, KeepLine
<1>3. CASE Receiver /\ ~failed'
  <2>1. UNCHANGED <<clientVars, data, sent>> /\ ~failed BY <1>3, ReceiverReads
  <2>2. CASE Recv \/ TryRecv \/ SetCode \/ DropRequest \/ Exit
    <3>1. UNCHANGED <<log, issued>>
      BY <2>2 DEF Recv, TryRecv, SetCode, DropRequest, Exit, fileVars
    <3> QED BY <1>2, <2>1, <3>1
  <2>3. CASE OpenFile \/ IssueFlush
    <3>1. UNCHANGED <<log, issued>> BY <2>3 DEF OpenFile, IssueFlush
    <3> QED BY <1>2, <2>1, <3>1
  <2>4. CASE EndBatch
    <3>1. UNCHANGED log /\ issued' = recvd /\ rstate = "ack" BY <2>4 DEF EndBatch
    <3>2. issued <= recvd /\ \A i \in issued + 1 .. recvd : ~IsWrite(i)
      BY <2>1, <3>1 DEF BatchInv
    <3>3. recvd \in Nat /\ issued \in Nat BY DEF QueueTypeOK
    <3> QED BY <1>2, <2>1, <3>1, <3>2, <3>3
  <2>5. CASE IssueWrite
    <3>1. PICK i \in issued + 1 .. recvd :
            /\ IsWrite(i) /\ \A j \in issued + 1 .. i - 1 : ~IsWrite(j)
            /\ issued' = i /\ log' = log \o Data(i)
      BY <1>3, <2>5 DEF IssueWrite, Put, Data, Fail
    <3>2. UNCHANGED <<sent, data, cur, made>> BY <2>1 DEF clientVars
    <3>3. \A c \in Clients : LineFor(c)' BY <2>1, <3>1, <3>2, IssueLine
    <3> QED BY <3>3 DEF LineInv
  <2> QED BY <1>3, <2>2, <2>3, <2>4, <2>5 DEF Receiver
<1>4. CASE failed' BY <1>4 DEF LineInv
<1>5. CASE UNCHANGED vars
  <2>1. UNCHANGED <<clientVars, data, sent, log, failed, issued>>
    BY <1>5 DEF vars, heap, queueVars, fileVars
  <2>2. failed' \/ ~failed BY <2>1
  <2> QED BY <1>2, <2>1, <2>2
<1> QED BY <1>1, <1>3, <1>4, <1>5 DEF Next, Terminated

-----------------------------------------------------------------------------
(* What is in the file, and what has been vouched for. *)

LEMMA FileInit == Init => FileInv
<1> SUFFICES ASSUME Init, NEW c \in Clients PROVE FileFor(c)
  BY DEF FileInv
<1>1. log = << >> /\ durable[c] = 0 /\ made[c] = 0 /\ pc[c] = "none" BY DEF Init
<1>2. Written(c) = {} /\ Promise!InOrder(c, log, made[c])
  BY <1>1 DEF Written, Promise!Units, Promise!InOrder
<1> QED BY <1>1, <1>2 DEF FileFor

(* A step that prints, writes and vouches for nothing.  *)
LEMMA KeepFile ==
  ASSUME NEW b \in Clients, FileFor(b), log' = log, made'[b] = made[b],
         durable'[b] = durable[b], failed => failed',
         pc'[b] = "wait" /\ fcode'[b] = "Ok" => pc[b] = "wait" /\ fcode[b] = "Ok",
         ~failed /\ pc'[b] \in {"none", "free", "gone"} => pc[b] \in {"none", "free", "gone"}
  PROVE  FileFor(b)'
<1>1. Written(b)' = Written(b) BY DEF Written
<1>2. Promise!InOrder(b, log, made[b])'
  BY DEF FileFor, Promise!InOrder, Promise!Units
<1> QED BY <1>1, <1>2 DEF FileFor

(* Where a handle goes when it starts to clear its batch.  *)
LEMMA ClearGoes ==
  ASSUME IInv, NEW c \in Clients, pc[c] = "idle", NEW d, NEW u, NEW o, ClearBatch(c, o, d, u)
  PROVE  /\ pc'[c] \in {"idle", "close", "flush", "free", "send"}
         /\ pc'[c] = "free" => failed
         /\ \A b \in Clients : b # c => pc'[b] = pc[b]
<1> USE DEF IInv, TypeOK, ClientTypeOK
<1>1. \A b \in Clients : b # c => pc'[b] = pc[b] BY DEF ClearBatch, Continue
<1>2. CASE d = << >>
  <2>1. pc'[c] = AfterClear(o) BY <1>2 DEF ClearBatch, Continue
  <2> QED BY <1>1, <2>1 DEF AfterClear
<1>3. CASE d # << >> /\ SeesError(c)
  <2>1. pc'[c] = AfterError(o) BY <1>3 DEF ClearBatch, Continue
  <2>2. failed BY <1>3, PoppedFacts
  <2> QED BY <1>1, <2>1, <2>2 DEF AfterError
<1>4. CASE d # << >> /\ ~SeesError(c)
  <2>1. pc'[c] = "send" BY <1>4 DEF ClearBatch, Continue
  <2> QED BY <1>1, <2>1
<1> QED BY <1>2, <1>3, <1>4

LEMMA FileClientStep ==
  ASSUME IInv, BatchInv, FileInv, NEW c \in Clients, ClientStep(c)
  PROVE  FileInv'
<1> USE DEF IInv, TypeOK
<1> SUFFICES ASSUME NEW b \in Clients PROVE FileFor(b)'
  BY DEF FileInv
<1>1. UNCHANGED <<failed, log>> BY ClientFacts DEF queueVars, fileVars
<1>2. FileFor(b) BY DEF FileInv
<1>3. ASSUME UNCHANGED <<made, durable, fcode>>, \A d \in Clients : d # c => pc'[d] = pc[d],
             pc'[c] # "wait",
             ~failed /\ pc'[c] \in {"none", "free", "gone"} => pc[c] \in {"none", "free", "gone"}
      PROVE  FileFor(b)'
  BY <1>1, <1>2, <1>3, KeepFile
<1>4. CASE GetHandle(c)
  <2>1. /\ UNCHANGED <<made, durable, fcode>> /\ pc'[c] = "idle"
        /\ \A d \in Clients : d # c => pc'[d] = pc[d]
    BY <1>4 DEF GetHandle, ClientTypeOK
  <2> QED BY <1>3, <2>1
<1>5. CASE RootClose(c)
  <2>1. /\ UNCHANGED <<made, durable, fcode>> /\ pc'[c] = AfterClear("rootclose")
        /\ \A d \in Clients : d # c => pc'[d] = pc[d]
    BY <1>5 DEF RootClose, Continue, ClientTypeOK
  <2> QED BY <1>3, <2>1 DEF AfterClear
<1>6. CASE Shutdown(c)
  <2>1. UNCHANGED <<made, durable, fcode>> BY <1>6 DEF Shutdown
  <2>2. CASE pc[c] = "idle"
    <3>1. \E o, d, u : ClearBatch(c, o, d, u) BY <1>6, <2>2 DEF Shutdown
    <3> QED BY <1>3, <2>1, <2>2, <3>1, ClearGoes
  <2>3. CASE pc[c] = "none"
    <3>1. pc'[c] = "gone" /\ \A d \in Clients : d # c => pc'[d] = pc[d]
      BY <1>6, <2>3 DEF Shutdown, Continue, ClientTypeOK
    <3> QED BY <1>3, <2>1, <2>3, <3>1
  <2> QED BY <1>6, <2>2, <2>3 DEF Shutdown
<1>7. ASSUME NEW o \in {"flush", "close"}, Start(c, o) PROVE FileFor(b)'
  <2>1. /\ UNCHANGED <<made, durable, fcode>> /\ pc[c] = "idle"
        /\ ClearBatch(c, o, data[cur[c]], 0)
    BY <1>7 DEF Start
  <2> QED BY <1>3, <2>1, ClearGoes
<1>8. ASSUME NEW n \in 1 .. MaxWrite, NEW nl \in 0 .. MaxWrite, NEW s \in Specs,
             Write(c, n, nl, s)
      PROVE  FileFor(b)'
  <2>1. /\ UNCHANGED <<durable, fcode>> /\ pc[c] = "idle"
        /\ made'[c] = made[c] + n /\ made[c] \in Nat /\ n \in Nat
        /\ \A d \in Clients : d # c => made'[d] = made[d]
    BY <1>8 DEF Write, ClientTypeOK
  <2>2. /\ pc'[c] \in {"idle", "close", "flush", "free", "send"}
        /\ pc'[c] = "free" => failed
        /\ \A d \in Clients : d # c => pc'[d] = pc[d]
    <3>1. UNCHANGED pc \/ \E d, u : ClearBatch(c, "write", d, u) BY <1>8 DEF Write
    <3>2. CASE UNCHANGED pc BY <2>1, <3>2
    <3>3. CASE \E d, u : ClearBatch(c, "write", d, u) BY <2>1, <3>3, ClearGoes
    <3> QED BY <3>1, <3>2, <3>3
  <2>3. CASE b = c
    <3>1. Written(c)' = Written(c) BY <1>1 DEF Written
    <3>2. Promise!InOrder(c, log, made[c] + n)
      BY <1>2, <2>1, <2>3 DEF FileFor, Promise!InOrder
    <3>3. Promise!InOrder(c, log, made[c])'
      BY <1>1, <2>1, <3>2 DEF Promise!InOrder, Promise!Units
    <3> QED BY <1>1, <1>2, <2>1, <2>2, <2>3, <3>1, <3>3 DEF FileFor
  <2>4. CASE b # c
    BY <1>1, <1>2, <2>1, <2>2, <2>4, KeepFile
  <2> QED BY <2>3, <2>4
<1>9. CASE SendWrite(c)
  <2>1. /\ UNCHANGED <<made, durable, fcode>> /\ pc'[c] = AfterClear(op[c])
        /\ \A d \in Clients : d # c => pc'[d] = pc[d]
    BY <1>9 DEF SendWrite, Continue, ClientTypeOK
  <2> QED BY <1>3, <2>1 DEF AfterClear
<1>10. CASE SendClose(c)
  <2>1. /\ UNCHANGED <<made, durable, fcode>> /\ pc'[c] = "flush"
        /\ \A d \in Clients : d # c => pc'[d] = pc[d]
    BY <1>10 DEF SendClose, ClientTypeOK
  <2> QED BY <1>3, <2>1
<1>11. CASE SendFlush(c)
  <2>1. /\ UNCHANGED <<made, durable>> /\ pc'[c] = "wait" /\ fcode'[c] = "Ongoing"
        /\ \A d \in Clients : d # c => pc'[d] = pc[d] /\ fcode'[d] = fcode[d]
    BY <1>11 DEF SendFlush, ClientTypeOK
  <2> QED BY <1>1, <1>2, <2>1, KeepFile
<1>12. CASE FlushReturn(c)
  <2>1. /\ UNCHANGED <<made, fcode>> /\ pc[c] = "wait"
        /\ fcode[c] # "Ongoing" /\ fcode[c] \in {"Ongoing", "Ok", "Error"}
        /\ durable' = IF fcode[c] = "Ok" THEN [durable EXCEPT ![c] = made[c]] ELSE durable
        /\ pc'[c] = AfterFlush(op[c], fcode[c] = "Ok")
        /\ \A d \in Clients : d # c => pc'[d] = pc[d]
    BY <1>12 DEF FlushReturn, Continue, ClientTypeOK
  <2>2. pc'[c] # "wait" BY <2>1 DEF AfterFlush
  <2>3. \A d \in Clients : d # c => durable'[d] = durable[d] BY <2>1 DEF ClientTypeOK
  <2>4. CASE b = c
    <3>1. Written(c)' = Written(c) BY <1>1 DEF Written
    <3>2. Promise!InOrder(c, log, made[c])'
      BY <1>1, <1>2, <2>1, <2>4 DEF FileFor, Promise!InOrder, Promise!Units
    <3>3. CASE fcode[c] = "Ok"
      <4>1. durable'[c] = made[c] BY <2>1, <3>3 DEF ClientTypeOK
      <4>2. Written(c) = 1 .. made[c] BY <1>2, <2>1, <2>4, <3>3 DEF FileFor
      <4> QED BY <2>1, <2>2, <2>4, <3>1, <3>2, <4>1, <4>2 DEF FileFor
    <3>4. CASE fcode[c] = "Error"
      <4>1. failed BY <3>4 DEF BatchInv
      <4>2. durable' = durable BY <2>1, <3>4
      <4> QED BY <1>1, <1>2, <2>2, <2>4, <3>1, <3>2, <4>1, <4>2 DEF FileFor
    <3> QED BY <2>1, <3>3, <3>4
  <2>5. CASE b # c
    BY <1>1, <1>2, <2>1, <2>3, <2>5, KeepFile
  <2> QED BY <2>4, <2>5
<1>13. CASE FreeHandle(c)
  <2>1. /\ UNCHANGED <<made, durable, fcode>> /\ pc[c] = "free" /\ pc'[c] # "wait"
        /\ \A d \in Clients : d # c => pc'[d] = pc[d]
    BY <1>13 DEF FreeHandle, Continue, ClientTypeOK
  <2> QED BY <1>3, <2>1
<1> QED
  BY <1>4, <1>5, <1>6, <1>7, <1>8, <1>9, <1>10, <1>11, <1>12, <1>13 DEF ClientStep

(* What a write of the next request adds: all of it, or its first k units.  *)
LEMMA WriteAdds ==
  ASSUME IInv, BatchInv, LineInv, FileInv, IssueWrite
  PROVE  /\ ~failed
         /\ \E i \in issued + 1 .. recvd, v \in Seq(Unit) :
              /\ IsWrite(i) /\ \A j \in issued + 1 .. i - 1 : ~IsWrite(j)
              /\ issued' = i /\ Put(v) /\ log' = log \o v
              /\ sent[i].client \in Clients /\ Run(sent[i].client, v)
              /\ CarriesOn(v, Written(sent[i].client), made[sent[i].client])
<1> USE DEF IInv, TypeOK
<1>1. ~failed BY DEF IssueWrite, BatchInv
<1>2. PICK i \in issued + 1 .. recvd :
        /\ IsWrite(i) /\ \A j \in issued + 1 .. i - 1 : ~IsWrite(j)
        /\ \/ Put(Data(i))
           \/ \E k \in 0 .. Len(Data(i)) - 1 : Put(SubSeq(Data(i), 1, k))
        /\ issued' = i
  BY DEF IssueWrite, Data
<1>3. /\ sent[i].client \in Clients /\ Data(i) \in Seq(Unit) /\ Run(sent[i].client, Data(i))
      /\ CarriesOn(Data(i), Written(sent[i].client), made[sent[i].client])
  <2>1. sent[i].client \in Clients BY RequestFacts DEF QueueTypeOK
  <2> QED BY <1>1, <1>2, <2>1, FirstFacts
<1>4. CASE Put(Data(i))
  BY <1>1, <1>2, <1>3, <1>4 DEF Put
<1>5. ASSUME NEW k \in 0 .. Len(Data(i)) - 1, Put(SubSeq(Data(i), 1, k))
      PROVE  \E v \in Seq(Unit) :
               /\ Put(v) /\ log' = log \o v /\ Run(sent[i].client, v)
               /\ CarriesOn(v, Written(sent[i].client), made[sent[i].client])
  <2>1. PICK d \in Seq(Unit) : d = Data(i) BY <1>3
  <2>2. PICK v : v = SubSeq(d, 1, k) OBVIOUS
  <2>3. v \in Seq(Unit) /\ Len(v) = k /\ \A j \in 1 .. k : v[j] = d[j] /\ j \in 1 .. Len(d)
    BY <1>5, <2>1, <2>2
  <2>4. Run(sent[i].client, v) BY <1>3, <2>1, <2>3 DEF Run
  <2>5. CarriesOn(v, Written(sent[i].client), made[sent[i].client])
    <3>1. ASSUME NEW j \in 1 .. Len(v) PROVE Firsts(v, j - 1) = Firsts(d, j - 1)
      <4>1. \A l \in 1 .. j - 1 : v[l] = d[l] BY <2>3
      <4> QED BY <4>1 DEF Firsts
    <3>2. \A j \in 1 .. Len(v) : v[j] = d[j] /\ j \in 1 .. Len(d) BY <2>3
    <3>3. CarriesOn(d, Written(sent[i].client), made[sent[i].client]) BY <1>3, <2>1
    <3> QED BY <3>1, <3>2, <3>3 DEF CarriesOn
  <2>6. Put(v) /\ log' = log \o v BY <1>5, <2>1, <2>2 DEF Put
  <2> QED BY <2>3, <2>4, <2>5, <2>6
<1> QED BY <1>1, <1>2, <1>3, <1>4, <1>5

LEMMA FileWriteStep ==
  ASSUME IInv, BatchInv, LineInv, FileInv, IssueWrite
  PROVE  FileInv'
<1> USE DEF IInv, TypeOK
<1> SUFFICES ASSUME NEW c \in Clients PROVE FileFor(c)'
  BY DEF FileInv
<1>1. PICK i \in issued + 1 .. recvd, v \in Seq(Unit) :
        /\ log' = log \o v
        /\ sent[i].client \in Clients /\ Run(sent[i].client, v)
        /\ CarriesOn(v, Written(sent[i].client), made[sent[i].client])
  BY WriteAdds
<1>2. PICK d \in Clients : d = sent[i].client BY <1>1
<1>3. PICK us \in Seq(Unit) : us = log BY DEF FileTypeOK
<1>4. UNCHANGED <<made, durable, pc, fcode>> /\ (failed => failed')
  <2>1. UNCHANGED <<clientVars, durable>> BY DEF IssueWrite
  <2>2. fcode' = fcode BY DEF IssueWrite
  <2>3. failed => failed' BY ReceiverReads DEF Receiver
  <2> QED BY <2>1, <2>2, <2>3 DEF clientVars
<1>5. FileFor(c) BY DEF FileInv
<1>6. PICK m \in Nat : m = made[c] BY DEF ClientTypeOK
<1>7. PICK W : W = Written(c) OBVIOUS
<1>8. W = Promise!Units(c, us, Len(us)) BY <1>3, <1>7 DEF Written
<1>9. Run(d, v) /\ (c = d => CarriesOn(v, W, m)) BY <1>1, <1>2, <1>6, <1>7
<1>10. Promise!InOrder(c, us, m) BY <1>3, <1>5, <1>6 DEF FileFor
<1>11. Promise!InOrder(c, us \o v, m) BY <1>8, <1>9, <1>10, InOrderAppend
<1>12. log' = us \o v /\ made'[c] = m /\ made' = made BY <1>1, <1>3, <1>4, <1>6
<1>13. Promise!InOrder(c, log, made[c])'
  BY <1>11, <1>12 DEF Promise!InOrder, Promise!Units
<1>14. W \subseteq Written(c)'
  <2>1. Len(v) \in 0 .. Len(v) /\ Len(us \o v) = Len(us) + Len(v) OBVIOUS
  <2>2. \A k \in 0 .. Len(v) :
          Promise!Units(c, us \o v, Len(us) + k) =
            Promise!Units(c, us, Len(us)) \cup (IF c = d THEN Firsts(v, k) ELSE {})
    BY <1>9, UnitsAppend
  <2>3. W \subseteq Promise!Units(c, us \o v, Len(us \o v)) BY <1>8, <2>1, <2>2
  <2>4. Written(c)' = Promise!Units(c, us \o v, Len(us \o v)) BY <1>12 DEF Written
  <2> QED BY <2>3, <2>4
<1>15. Written(c)' \subseteq 1 .. m
  <2>1. Promise!Units(c, us \o v, Len(us \o v)) \subseteq 1 .. m
    BY <1>11 DEF Promise!InOrder
  <2>2. Written(c)' = Promise!Units(c, us \o v, Len(us \o v)) BY <1>12 DEF Written
  <2> QED BY <2>1, <2>2
<1>16. 1 .. durable[c] \subseteq W /\ (pc[c] = "wait" /\ fcode[c] = "Ok" => W = 1 .. m)
  BY <1>5, <1>6, <1>7 DEF FileFor
<1>17. pc[c] = "wait" /\ fcode[c] = "Ok" => Written(c)' = 1 .. m
  BY <1>14, <1>15, <1>16
<1>18. 1 .. durable[c] \subseteq Written(c)' BY <1>14, <1>16
<1>19. ~failed' /\ pc[c] \in {"none", "free", "gone"} => durable[c] = made[c]
  BY <1>4, <1>5 DEF FileFor
<1> QED BY <1>4, <1>12, <1>13, <1>17, <1>18, <1>19 DEF FileFor

(* A flush is answered with Ok when all its thread printed is in the file.  *)
LEMMA AnswerFacts ==
  ASSUME IInv, BatchInv, EmptyInv, LineInv, SetCode, ~failed,
         sent[acked + 1].type = "Flush", NEW c \in Clients, c = sent[acked + 1].client
  PROVE  Written(c) = 1 .. made[c]
<1> USE DEF IInv, TypeOK, QueueTypeOK
<1>1. rstate = "ack" /\ acked < recvd BY DEF SetCode, MayAnswer
<1>2. acked + 1 \in acked + 1 .. Len(sent) BY <1>1
<1>3. pc[c] = "wait" /\ flushIx[c] = acked + 1 BY <1>2 DEF FlushOK
<1>4. Pending(c) = {}
  <2> SUFFICES ASSUME NEW i \in Pending(c) PROVE FALSE
    OBVIOUS
  <2>1. i \in guards[c] /\ i > recvd /\ i \in Nat BY <1>1, PendingFacts
  <2>2. i < flushIx[c] BY <1>3, <2>1 DEF FlushOK
  <2> QED BY <1>1, <1>3, <2>1, <2>2
<1>5. Cur(c) = << >> BY <1>3 DEF EmptyInv, EmptyFor
<1>6. LineFor(c) BY DEF LineInv
<1>7. PICK D : D = [i \in Pending(c) |-> Data(i)] OBVIOUS
<1>8. Written(c) \cup Queued({}, D) \cup Nums(<< >>) = 1 .. made[c]
  BY <1>4, <1>5, <1>6, <1>7 DEF LineFor, Lined
<1>9. Queued({}, D) = {} BY QueuedFacts
<1>10. Nums(<< >>) = {} BY DEF Nums
<1> QED BY <1>8, <1>9, <1>10

LEMMA FileStep ==
  ASSUME IInv, BatchInv, EmptyInv, LineInv, FileInv, [Next]_vars
  PROVE  FileInv'
<1> USE DEF IInv, TypeOK
<1>1. ASSUME NEW c \in Clients, ClientStep(c) PROVE FileInv'
  BY <1>1, FileClientStep
<1>2. ASSUME UNCHANGED <<log, made, durable, pc, fcode>>, failed => failed'
      PROVE  FileInv'
  <2> SUFFICES ASSUME NEW c \in Clients PROVE FileFor(c)'
    BY DEF FileInv
  <2>1. FileFor(c) BY DEF FileInv
  <2> QED BY <1>2, <2>1, KeepFile
<1>3. CASE Recv \/ TryRecv \/ OpenFile \/ IssueFlush \/ DropRequest \/ EndBatch \/ Exit
  <2>1. Receiver BY <1>3 DEF Receiver
  <2>2. UNCHANGED <<made, durable, pc>> /\ (failed => failed')
    BY <2>1, ReceiverReads DEF clientVars
  <2>3. UNCHANGED <<log, fcode>>
    BY <1>3 DEF Recv, TryRecv, OpenFile, IssueFlush, DropRequest, EndBatch, Exit, fileVars
  <2> QED BY <1>2, <2>2, <2>3
<1>4. CASE IssueWrite BY <1>4, FileWriteStep
<1>5. CASE SetCode
  <2> SUFFICES ASSUME NEW c \in Clients PROVE FileFor(c)'
    BY DEF FileInv
  <2>1. FileFor(c) BY DEF FileInv
  <2>2. Receiver BY <1>5 DEF Receiver
  <2>3. UNCHANGED <<made, durable, pc>> BY <2>2, ReceiverReads DEF clientVars
  <2>4. UNCHANGED <<failed, log>> BY <1>5 DEF SetCode, fileVars
  <2>5. CASE fcode'[c] = fcode[c] BY <2>1, <2>3, <2>4, <2>5, KeepFile
  <2>6. CASE fcode'[c] # fcode[c]
    <3>1. sent[acked + 1].type = "Flush" /\ c = sent[acked + 1].client /\ fcode'[c] = Code
      <4>1. fcode' = IF sent[acked + 1].type = "Flush"
                     THEN [fcode EXCEPT ![sent[acked + 1].client] = Code] ELSE fcode
        BY <1>5 DEF SetCode
      <4> QED BY <2>6, <4>1 DEF ClientTypeOK
    <3>2. CASE failed
      <4>1. fcode'[c] # "Ok" BY <3>1, <3>2 DEF Code
      <4> QED BY <2>1, <2>3, <2>4, <4>1, KeepFile
    <3>3. CASE ~failed
      <4>1. Written(c) = 1 .. made[c] BY <1>5, <3>1, <3>3, AnswerFacts
      <4>2. Written(c)' = Written(c) BY <2>4 DEF Written
      <4>3. Promise!InOrder(c, log, made[c])'
        BY <2>1, <2>3, <2>4 DEF FileFor, Promise!InOrder, Promise!Units
      <4> QED BY <2>1, <2>3, <2>4, <4>1, <4>2, <4>3 DEF FileFor
    <3> QED BY <3>2, <3>3
  <2> QED BY <2>5, <2>6
<1>6. CASE UNCHANGED vars
  <2>1. UNCHANGED <<log, made, durable, pc, fcode, failed>>
    BY <1>6 DEF vars, clientVars, queueVars, fileVars
  <2> QED BY <1>2, <2>1
<1> QED BY <1>1, <1>3, <1>4, <1>5, <1>6 DEF Next, Receiver, Terminated

-----------------------------------------------------------------------------
(* What the specification promises. *)

Promised == IInv /\ BatchInv /\ CloseInv /\ EmptyInv /\ LineInv /\ FileInv

LEMMA PromisedInit == Init => Promised
BY InitInv, BatchInit, CloseInit, EmptyInit, LineInit, FileInit DEF Promised

LEMMA PromisedStep == Promised /\ [Next]_vars => Promised'
BY NextInv, BatchStep, CloseStep, EmptyStep, LineStep, FileStep DEF Promised

(* For any threads, script, channel and buffers: what reaches the file, until the
   first error and after it.  *)
THEOREM InductiveFile == Spec => []Promised
BY PromisedInit, PromisedStep, PTL DEF Spec

(* For any threads and scripts: when close returns Ok, the writer thread has really
   closed the file since the request.  *)
THEOREM CloseCloses == Spec => []CloseIsSynchronous
<1>1. Promised => CloseIsSynchronous BY CloseFollows DEF Promised
<1> QED BY <1>1, InductiveFile, PTL

(* For any threads and scripts, and whatever write fails: what a flush has vouched
   for is in the file, and until the first error no thread ends with a unit that has
   not been flushed.  *)
THEOREM NothingIsLost == Spec => []NothingLost
<1>1. Promised => NothingLost
  <2> SUFFICES ASSUME Promised, NEW c \in Clients
               PROVE  /\ \A k \in 1 .. durable[c] : \E i \in DOMAIN log : log[i] = <<c, k>>
                      /\ pc[c] = "gone" /\ ~failed => durable[c] = made[c]
    BY DEF NothingLost
  <2>1. FileFor(c) BY DEF Promised, FileInv
  <2>2. log \in Seq(Unit) BY DEF Promised, IInv, TypeOK, FileTypeOK
  <2>3. ASSUME NEW k \in 1 .. durable[c] PROVE \E i \in DOMAIN log : log[i] = <<c, k>>
    <3>1. k \in Written(c) BY <2>1 DEF FileFor
    <3>2. PICK i \in 1 .. Len(log) : log[i][1] = c /\ k = log[i][2]
      BY <3>1 DEF Written, Promise!Units
    <3>3. log[i] \in Unit /\ i \in DOMAIN log BY <2>2
    <3>4. log[i] = <<log[i][1], log[i][2]>> BY <3>3 DEF Unit
    <3> QED BY <3>2, <3>3, <3>4
  <2>4. pc[c] = "gone" /\ ~failed => durable[c] = made[c] BY <2>1 DEF FileFor
  <2> QED BY <2>3, <2>4
<1> QED BY <1>1, InductiveFile, PTL

(* A step of the writers is a step of what OutputFile promises.  *)
LEMMA PromiseStep ==
  ASSUME Promised, Promised', [Next]_vars
  PROVE  [Promise!Next]_<<made, log, failed, durable>>
<1> USE DEF IInv, TypeOK
<1>1. ASSUME UNCHANGED <<log, made, durable>>, ~failed
      PROVE  [Promise!Next]_<<made, log, failed, durable>>
  <2>1. log \in Seq(Unit) BY DEF Promised, FileTypeOK
  <2>2. log = SubSeq(log', 1, Len(log)) BY <1>1, <2>1
  <2>3. \A c \in Clients : Promise!InOrder(c, log', made[c])
    BY <1>1 DEF Promised, FileInv, FileFor
  <2> QED BY <1>1, <2>2, <2>3 DEF Promise!Next, Promise!Commit
<1>2. ASSUME NEW c \in Clients, ClientStep(c)
      PROVE  [Promise!Next]_<<made, log, failed, durable>>
  <2>1. UNCHANGED <<log, failed>>
    BY <1>2, ClientFacts DEF Promised, queueVars, fileVars
  <2>2. ASSUME NEW n \in 1 .. MaxWrite, NEW nl \in 0 .. MaxWrite, NEW s \in Specs,
               Write(c, n, nl, s)
        PROVE  Promise!PrintUnits(c)
    <3>1. /\ made'[c] > made[c] /\ durable' = durable
          /\ \A d \in Clients \ {c} : made'[d] = made[d]
      BY <2>2 DEF Write, Promised, ClientTypeOK
    <3> QED BY <2>1, <3>1 DEF Promise!PrintUnits
  <2>3. CASE FlushReturn(c)
    <3>1. made' = made /\ pc[c] = "wait" BY <2>3 DEF FlushReturn
    <3>2. CASE fcode[c] = "Ok"
      <4>1. durable' = [durable EXCEPT ![c] = made[c]] BY <2>3, <3>2 DEF FlushReturn
      <4>2. Promise!Units(c, log, Len(log)) = 1 .. made[c]
        BY <3>1, <3>2 DEF Promised, FileInv, FileFor, Written
      <4>3. Promise!Flushed(c) BY <2>1, <3>1, <4>1, <4>2 DEF Promise!Flushed
      <4> QED BY <4>3 DEF Promise!Next
    <3>3. CASE fcode[c] # "Ok"
      <4>1. durable' = durable BY <2>3, <3>3 DEF FlushReturn
      <4> QED BY <2>1, <3>1, <4>1
    <3> QED BY <3>2, <3>3
  <2>4. CASE GetHandle(c) \/ RootClose(c) \/ Shutdown(c) \/ SendWrite(c) \/ SendClose(c)
             \/ SendFlush(c) \/ FreeHandle(c) \/ \E o \in {"flush", "close"} : Start(c, o)
    <3>1. UNCHANGED <<made, durable>>
      BY <2>4 DEF GetHandle, RootClose, Shutdown, SendWrite, SendClose, SendFlush,
                  FreeHandle, Start
    <3> QED BY <2>1, <3>1
  <2>5. CASE \E n \in 1 .. MaxWrite, nl \in 0 .. MaxWrite, s \in Specs : Write(c, n, nl, s)
    BY <2>2, <2>5 DEF Promise!Next
  <2> QED BY <1>2, <2>3, <2>4, <2>5 DEF ClientStep
<1>3. CASE Receiver
  <2>1. UNCHANGED <<made, durable>> BY <1>3, ReceiverReads DEF clientVars
  <2>2. CASE Recv \/ TryRecv \/ SetCode \/ DropRequest \/ EndBatch \/ Exit
    <3>1. UNCHANGED <<log, failed>>
      BY <2>2 DEF Recv, TryRecv, SetCode, DropRequest, EndBatch, Exit, fileVars
    <3> QED BY <2>1, <3>1
  <2>3. CASE OpenFile \/ IssueFlush
    <3>1. log' = log /\ rstate \in {"open", "issue"} BY <2>3 DEF OpenFile, IssueFlush
    <3>2. ~failed BY <3>1 DEF Promised, BatchInv
    <3> QED BY <1>1, <2>1, <3>1, <3>2
  <2>4. CASE IssueWrite
    <3>1. ~failed /\ \E v \in Seq(Unit) : log' = log \o v
      BY <2>4, WriteAdds DEF Promised
    <3>2. PICK v \in Seq(Unit) : log' = log \o v BY <3>1
    <3>3. log \in Seq(Unit) BY DEF Promised, FileTypeOK
    <3>4. log = SubSeq(log', 1, Len(log)) BY <3>2, <3>3
    <3>5. \A c \in Clients : Promise!InOrder(c, log', made[c])
      <4> SUFFICES ASSUME NEW c \in Clients PROVE Promise!InOrder(c, log', made[c])
        OBVIOUS
      <4>1. FileFor(c)' BY DEF Promised, FileInv
      <4> QED BY <2>1, <4>1 DEF FileFor, Promise!InOrder, Promise!Units
    <3>6. Promise!Commit BY <2>1, <3>1, <3>4, <3>5 DEF Promise!Commit
    <3> QED BY <3>6 DEF Promise!Next
  <2> QED BY <1>3, <2>2, <2>3, <2>4 DEF Receiver
<1>4. CASE UNCHANGED vars
  BY <1>4 DEF vars, clientVars, queueVars, fileVars
<1> QED BY <1>2, <1>3, <1>4 DEF Next, Terminated

(* For any threads, script, channel, buffers and batches, and whatever write fails:
   the writers implement OutputFile.  *)
THEOREM ImplementsPromise == Spec => KeepsPromise
<1>1. Init => Promise!Init BY DEF Init, Promise!Init
<1>2. Promised /\ Promised' /\ [Next]_vars => [Promise!Next]_(Promise!vars)
  BY PromiseStep DEF Promise!vars
<1>3. Spec => Promise!Spec
  BY <1>1, <1>2, InductiveFile, PTL DEF Spec, Promise!Spec
<1> QED BY <1>3 DEF KeepsPromise

-----------------------------------------------------------------------------
(* A file that is only appended to: named files of a script that only appends, and
   standard output.  *)

OnlyAppends == IsStdout \/ Specs \subseteq {"Append"}

LEMMA SpecInit == Init => SpecInv
<1> SUFFICES ASSUME Init PROVE SpecInv OBVIOUS
<1>1. file = OldFile /\ log = << >> /\ OldFile \in Seq(STRING)
  BY OldFileOK DEF Init, OldFileOK
<1>2. file = OldFile \o log BY <1>1
<1>3. \A c \in Clients : Cur(c) = << >> /\ pc[c] # "send" BY DEF Init, Cur
<1>4. sent = << >> /\ opened.spec = "Append" /\ issued = 0 BY DEF Init
<1> QED BY <1>2, <1>3, <1>4 DEF SpecInv

(* The batches and the requests of a client step that sends nothing.  *)
LEMMA SpecKeeps ==
  ASSUME IInv, SpecInv, UNCHANGED <<file, log, opened, issued>>,
         sent' = sent \/ \E r : sent' = Append(sent, r) /\ (r.type = "Write" => r.spec = "Append"),
         \A c \in Clients : ~IsStdout =>
           /\ Cur(c)' # << >> => spec'[c] = "Append"
           /\ pc'[c] = "send" => Cur(c)' # << >> /\ upto'[c] = 0
  PROVE  SpecInv'
<1> USE DEF IInv, TypeOK, QueueTypeOK
<1>1. ASSUME ~IsStdout, NEW i \in issued + 1 .. Len(sent'), sent'[i].type = "Write"
      PROVE  sent'[i].spec = "Append"
  <2>1. CASE sent' = sent BY <1>1, <2>1 DEF SpecInv, IsWrite
  <2>2. ASSUME NEW r, sent' = Append(sent, r), r.type = "Write" => r.spec = "Append"
        PROVE  sent'[i].spec = "Append"
    <3>1. /\ Len(sent) \in Nat /\ Len(sent') = Len(sent) + 1 /\ sent'[Len(sent) + 1] = r
          /\ \A j \in 1 .. Len(sent) : sent'[j] = sent[j]
      <4>1. sent \in Seq(Request) OBVIOUS
      <4> QED BY <2>2, <4>1
    <3>2. i \in issued + 1 .. Len(sent) \/ i = Len(sent) + 1 BY <3>1
    <3>3. \A j \in issued + 1 .. Len(sent) : j \in 1 .. Len(sent) BY <3>1
    <3> QED BY <1>1, <2>2, <3>1, <3>2, <3>3 DEF SpecInv, IsWrite
  <2> QED BY <2>1, <2>2
<1> QED BY <1>1 DEF SpecInv, IsWrite

LEMMA SpecClientStep ==
  ASSUME OnlyAppends, Promised, SpecInv, NEW c \in Clients, ClientStep(c)
  PROVE  SpecInv'
<1> USE DEF IInv, TypeOK
<1>1. UNCHANGED <<file, log, opened, issued>> BY ClientFacts DEF Promised, queueVars, fileVars
<1>2. IInv /\ BatchInv BY DEF Promised
<1>3. ~IsStdout => /\ ~LineBuffer /\ Specs \subseteq {"Append"}
                   /\ Cur(c) # << >> => spec[c] = "Append"
                   /\ pc[c] = "send" => Cur(c) # << >> /\ upto[c] = 0
  BY ConstantsOK DEF ConstantsOK, OnlyAppends, SpecInv
<1>4. ASSUME sent' = sent \/ \E r : sent' = Append(sent, r) /\ (r.type = "Write" /\ ~IsStdout => r.spec = "Append"),
             \A b \in Clients : b # c => /\ Cur(b)' = Cur(b) /\ spec'[b] = spec[b]
                                         /\ pc'[b] = pc[b] /\ upto'[b] = upto[b],
             ~IsStdout => /\ Cur(c)' # << >> => spec'[c] = "Append"
                          /\ pc'[c] = "send" => Cur(c)' # << >> /\ upto'[c] = 0
      PROVE  SpecInv'
  <2>1. CASE IsStdout BY <1>1, <2>1 DEF SpecInv
  <2>2. CASE ~IsStdout
    <3>1. ASSUME NEW b \in Clients
          PROVE  /\ Cur(b)' # << >> => spec'[b] = "Append"
                 /\ pc'[b] = "send" => Cur(b)' # << >> /\ upto'[b] = 0
      BY <1>4, <2>2 DEF SpecInv
    <3> QED BY <1>1, <1>2, <1>4, <2>2, <3>1, SpecKeeps
  <2> QED BY <2>1, <2>2
<1>5. ASSUME pc[c] = "none", NewHandle(c), UNCHANGED <<sent, upto>>, pc'[c] # "send",
             \A b \in Clients : b # c => pc'[b] = pc[b]
      PROVE  SpecInv'
  <2>1. Cur(c)' = << >> /\ \A b \in Clients : b # c => Cur(b)' = Cur(b)
    BY <1>2, <1>5, NewHandleKeeps, OthersKeep
  <2>2. \A b \in Clients : b # c => spec'[b] = spec[b]
    BY <1>5 DEF NewHandle, Promised, ClientTypeOK
  <2> QED BY <1>4, <1>5, <2>1, <2>2
<1>6. CASE GetHandle(c)
  <2>1. /\ pc[c] = "none" /\ NewHandle(c) /\ UNCHANGED <<sent, upto>> /\ pc'[c] = "idle"
        /\ \A b \in Clients : b # c => pc'[b] = pc[b]
    BY <1>6 DEF GetHandle, Promised, ClientTypeOK
  <2> QED BY <1>5, <2>1
<1>7. CASE RootClose(c)
  <2>1. /\ pc[c] = "none" /\ NewHandle(c) /\ UNCHANGED <<sent, upto>>
        /\ pc'[c] = AfterClear("rootclose")
        /\ \A b \in Clients : b # c => pc'[b] = pc[b]
    BY <1>7 DEF RootClose, Continue, Promised, ClientTypeOK
  <2> QED BY <1>5, <2>1 DEF AfterClear
<1>8. ASSUME pc[c] = "idle", NEW o, NEW d, d = Cur(c)', NEW u, ~IsStdout => u = 0,
             ClearBatch(c, o, d, u), sent' = sent,
             \A b \in Clients : b # c => Cur(b)' = Cur(b) /\ spec'[b] = spec[b],
             ~IsStdout /\ Cur(c)' # << >> => spec'[c] = "Append"
      PROVE  SpecInv'
  <2>1. \A b \in Clients : b # c => pc'[b] = pc[b] /\ upto'[b] = upto[b]
    BY <1>8 DEF ClearBatch, Continue, Promised, ClientTypeOK
  <2>2. pc'[c] = "send" => d # << >> /\ upto'[c] = u
    <3>1. CASE d = << >>
      <4>1. pc'[c] = AfterClear(o)
        BY <1>8, <3>1 DEF ClearBatch, Continue, Promised, ClientTypeOK
      <4> QED BY <4>1 DEF AfterClear
    <3>2. CASE d # << >> /\ SeesError(c)
      <4>1. pc'[c] = AfterError(o)
        BY <1>8, <3>2 DEF ClearBatch, Continue, Promised, ClientTypeOK
      <4> QED BY <4>1 DEF AfterError
    <3>3. CASE d # << >> /\ ~SeesError(c)
      BY <1>8, <3>3 DEF ClearBatch, Continue, Promised, ClientTypeOK
    <3> QED BY <3>1, <3>2, <3>3
  <2> QED BY <1>4, <1>8, <2>1, <2>2
<1>9. ASSUME pc[c] = "idle", NEW o, ClearBatch(c, o, data[cur[c]], 0),
             UNCHANGED <<sent, cur, data, spec>>
      PROVE  SpecInv'
  <2>1. \A b \in Clients : Cur(b)' = Cur(b) BY <1>9 DEF Cur
  <2>2. Cur(c) = data[cur[c]] BY <1>9, BatchFacts DEF Promised, Cur
  <2>3. PICK d : d = Cur(c)' OBVIOUS
  <2>4. ClearBatch(c, o, d, 0) BY <1>9, <2>1, <2>2, <2>3
  <2> QED BY <1>3, <1>8, <1>9, <2>1, <2>3, <2>4
<1>10. CASE Shutdown(c)
  <2>1. UNCHANGED <<sent, cur, data, spec>> BY <1>10 DEF Shutdown, heap
  <2>2. CASE pc[c] = "idle"
    <3>1. \E o : ClearBatch(c, o, data[cur[c]], 0) BY <1>10, <2>2 DEF Shutdown
    <3> QED BY <1>9, <2>1, <2>2, <3>1
  <2>3. CASE pc[c] = "none"
    <3>1. /\ pc'[c] = "gone" /\ UNCHANGED upto
          /\ \A b \in Clients : b # c => pc'[b] = pc[b]
      BY <1>10, <2>3 DEF Shutdown, Continue, Promised, ClientTypeOK
    <3>2. \A b \in Clients : Cur(b)' = Cur(b) BY <2>1 DEF Cur
    <3> QED BY <1>3, <1>4, <2>1, <3>1, <3>2
  <2> QED BY <1>10, <2>2, <2>3 DEF Shutdown
<1>11. ASSUME NEW o \in {"flush", "close"}, Start(c, o) PROVE SpecInv'
  BY <1>9, <1>11 DEF Start, heap
<1>12. ASSUME NEW n \in 1 .. MaxWrite, NEW nl \in 0 .. MaxWrite, NEW s \in Specs,
              Write(c, n, nl, s)
       PROVE  SpecInv'
  <2>1. /\ Cur(c)' = Cur(c) \o [k \in 1 .. n |-> <<c, made[c] + k>>]
        /\ Cur(c) = data[cur[c]] /\ \A b \in Clients : b # c => Cur(b)' = Cur(b)
    BY <1>2, <1>12, WriteKeeps, OthersKeep
  <2>2. /\ pc[c] = "idle" /\ sent' = sent /\ spec'[c] = s
        /\ \A b \in Clients : b # c => spec'[b] = spec[b]
    BY <1>12 DEF Write, Promised, ClientTypeOK
  <2>3. ~IsStdout => spec'[c] = "Append" BY <1>3, <2>2
  <2>4. \/ UNCHANGED <<pc, upto>>
        \/ \E u : (~IsStdout => u = 0) /\ ClearBatch(c, "write", Cur(c)', u)
    <3>1. PICK d : d = Cur(c)' OBVIOUS
    <3>2. PICK u : u = IF LineBuffer /\ nl > 0 THEN Len(data[cur[c]]) + nl ELSE 0 OBVIOUS
    <3>3. \/ UNCHANGED <<pc, upto>> \/ ClearBatch(c, "write", d, u)
      BY <1>12, <2>1, <3>1, <3>2 DEF Write
    <3>4. ~IsStdout => u = 0 BY <1>3, <3>2
    <3> QED BY <3>1, <3>3, <3>4
  <2>5. CASE UNCHANGED <<pc, upto>>
    <3>1. pc'[c] # "send" BY <2>2, <2>5
    <3> QED BY <1>4, <2>1, <2>2, <2>3, <2>5, <3>1
  <2>6. ASSUME NEW u, ~IsStdout => u = 0, ClearBatch(c, "write", Cur(c)', u) PROVE SpecInv'
    <3>1. PICK d : d = Cur(c)' OBVIOUS
    <3>2. ClearBatch(c, "write", d, u) BY <2>6, <3>1
    <3> QED BY <1>8, <2>1, <2>2, <2>3, <2>6, <3>1, <3>2
  <2> QED BY <2>4, <2>5, <2>6
<1>13. CASE SendWrite(c)
  <2>1. PICK u \in 0 .. Len(Cur(c)) :
          /\ u = IF upto[c] = 0 THEN Len(Cur(c)) ELSE upto[c]
          /\ Cur(c) \in Seq(Unit)
          /\ Cur(c)' = SubSeq(Cur(c), u + 1, Len(Cur(c)))
          /\ sent' = Append(sent, [type |-> "Write", client |-> c, addr |-> cur[c],
                                   spec |-> spec[c], flush |-> upto[c] # 0])
          /\ \A b \in Clients : b # c => Cur(b)' = Cur(b)
    BY <1>2, <1>13, SendKeeps, OthersKeep
  <2>2. /\ pc[c] = "send" /\ pc'[c] = AfterClear(op[c])
        /\ \A b \in Clients : b # c => /\ pc'[b] = pc[b] /\ upto'[b] = upto[b]
                                       /\ spec'[b] = spec[b]
    BY <1>13 DEF SendWrite, Continue, Promised, ClientTypeOK
  <2>3. pc'[c] # "send" BY <2>2 DEF AfterClear
  <2>4. ~IsStdout => spec[c] = "Append" /\ Cur(c)' = << >>
    <3>1. ~IsStdout => u = Len(Cur(c)) /\ spec[c] = "Append" BY <1>3, <2>1, <2>2
    <3>2. u = Len(Cur(c)) => Cur(c)' = << >> BY <2>1
    <3> QED BY <3>1, <3>2
  <2>5. \E r : sent' = Append(sent, r) /\ (r.type = "Write" /\ ~IsStdout => r.spec = "Append")
    BY <2>1, <2>4
  <2> QED BY <1>4, <2>1, <2>2, <2>3, <2>4, <2>5
<1>14. ASSUME UNCHANGED <<cur, data, spec, upto>>, pc'[c] # "send",
              \A b \in Clients : b # c => pc'[b] = pc[b],
              sent' = sent \/ \E r : sent' = Append(sent, r) /\ r.type # "Write"
       PROVE  SpecInv'
  <2>1. \A b \in Clients : Cur(b)' = Cur(b) BY <1>14 DEF Cur
  <2> QED BY <1>3, <1>4, <1>14, <2>1
<1>15. CASE SendClose(c)
  <2>1. /\ UNCHANGED <<cur, data, spec, upto>> /\ pc'[c] = "flush"
        /\ \A b \in Clients : b # c => pc'[b] = pc[b]
    BY <1>15 DEF SendClose, heap, Promised, ClientTypeOK
  <2>2. \E r : sent' = Append(sent, r) /\ r.type # "Write" BY <1>15 DEF SendClose, Send
  <2> QED BY <1>14, <2>1, <2>2
<1>16. CASE SendFlush(c)
  <2>1. /\ UNCHANGED <<cur, data, spec, upto>> /\ pc'[c] = "wait"
        /\ \A b \in Clients : b # c => pc'[b] = pc[b]
    BY <1>16 DEF SendFlush, heap, Promised, ClientTypeOK
  <2>2. \E r : sent' = Append(sent, r) /\ r.type # "Write" BY <1>16 DEF SendFlush, Send
  <2> QED BY <1>14, <2>1, <2>2
<1>17. CASE FlushReturn(c)
  <2>1. /\ UNCHANGED <<cur, data, spec, upto, sent>>
        /\ pc'[c] = AfterFlush(op[c], fcode[c] = "Ok")
        /\ \A b \in Clients : b # c => pc'[b] = pc[b]
    BY <1>17 DEF FlushReturn, Continue, heap, Promised, ClientTypeOK
  <2>2. pc'[c] # "send" BY <2>1 DEF AfterFlush
  <2> QED BY <1>14, <2>1, <2>2
<1>18. CASE FreeHandle(c)
  <2>1. Cur(c)' = << >> /\ \A b \in Clients : b # c => Cur(b)' = Cur(b)
    BY <1>2, <1>18, FreeKeeps, OthersKeep
  <2>2. /\ UNCHANGED <<spec, upto, sent>> /\ pc'[c] # "send"
        /\ \A b \in Clients : b # c => pc'[b] = pc[b]
    BY <1>18 DEF FreeHandle, Continue, Promised, ClientTypeOK
  <2> QED BY <1>4, <2>1, <2>2
<1> QED
  BY <1>6, <1>7, <1>10, <1>11, <1>12, <1>13, <1>15, <1>16, <1>17, <1>18 DEF ClientStep

(* Appending never moves back in the file.  *)
LEMMA PutAppends ==
  ASSUME FileTypeOK, NEW v \in Seq(Unit), Put(v), opened.spec = "Append",
         file = OldFile \o log
  PROVE  file' = OldFile \o log' /\ opened' = opened
<1>1. PICK n \in Nat : n = Len(file) BY DEF FileTypeOK
<1>2. log' = log \o v /\ wpos' = n + Len(v) /\ opened' = opened
  BY <1>1 DEF Put
<1>3. file' = [k \in 1 .. (IF wpos' > n THEN wpos' ELSE n) |->
                 IF n < k /\ k <= wpos' THEN v[k - n] ELSE file[k]]
  BY <1>1 DEF Put
<1>4. Len(v) \in Nat /\ (IF wpos' > n THEN wpos' ELSE n) = n + Len(v) BY <1>2
<1>5. file' = [k \in 1 .. n + Len(v) |->
                 IF n < k /\ k <= n + Len(v) THEN v[k - n] ELSE file[k]]
  BY <1>2, <1>3, <1>4
<1>6. OldFile \in Seq(STRING) /\ log \in Seq(Unit) BY OldFileOK DEF OldFileOK, FileTypeOK
<1> DEFINE O == Len(OldFile)
           L == Len(log)
<1>8. /\ O \in Nat /\ L \in Nat /\ n = O + L
      /\ \A k \in 1 .. O : file[k] = OldFile[k]
      /\ \A k \in 1 .. L : file[O + k] = log[k]
  BY <1>1, <1>6
<1>9. PICK G : G = OldFile \o log' OBVIOUS
<1>10. /\ G \in Seq(STRING \cup Unit) /\ Len(G) = O + (L + Len(v))
       /\ \A k \in 1 .. O : G[k] = OldFile[k]
       /\ \A k \in 1 .. L : G[O + k] = log[k]
       /\ \A k \in 1 .. Len(v) : G[O + (L + k)] = v[k]
  <2>1. /\ log' \in Seq(Unit) /\ Len(log') = L + Len(v)
        /\ \A k \in 1 .. L : log'[k] = log[k]
        /\ \A k \in 1 .. Len(v) : log'[L + k] = v[k]
    BY <1>2, <1>6
  <2>2. /\ G \in Seq(STRING \cup Unit) /\ Len(G) = O + Len(log')
        /\ \A k \in 1 .. O : G[k] = OldFile[k]
        /\ \A k \in 1 .. Len(log') : G[O + k] = log'[k]
    <3>1. PICK S : S = STRING \cup Unit OBVIOUS
    <3>2. OldFile \in Seq(S) /\ log' \in Seq(S) BY <1>6, <2>1, <3>1
    <3>3. PICK a \in Seq(S), b \in Seq(S) : a = OldFile /\ b = log' BY <3>2
    <3>4. /\ a \o b \in Seq(S) /\ Len(a \o b) = Len(a) + Len(b)
          /\ \A k \in 1 .. Len(a) : (a \o b)[k] = a[k]
          /\ \A k \in 1 .. Len(b) : (a \o b)[Len(a) + k] = b[k]
      OBVIOUS
    <3> QED BY <1>9, <3>1, <3>3, <3>4
  <2>3. \A k \in 1 .. L : k \in 1 .. Len(log') BY <1>4, <1>8, <2>1
  <2>4. \A k \in 1 .. Len(v) : L + k \in 1 .. Len(log') BY <1>4, <1>8, <2>1
  <2> QED BY <2>1, <2>2, <2>3, <2>4
<1> HIDE DEF O, L
<1>11. DOMAIN G = 1 .. n + Len(v) /\ G = [k \in 1 .. n + Len(v) |-> G[k]]
  BY <1>4, <1>8, <1>10
<1>12. ASSUME NEW k \in 1 .. n + Len(v)
       PROVE  G[k] = IF n < k /\ k <= n + Len(v) THEN v[k - n] ELSE file[k]
  <2>0. O \in Nat /\ L \in Nat /\ n = O + L /\ Len(v) \in Nat BY <1>4, <1>8
  <2>1. CASE k \in 1 .. O
    <3>1. G[k] = OldFile[k] BY <1>10, <2>1
    <3>2. file[k] = OldFile[k] BY <1>8, <2>1
    <3>3. ~(n < k) BY <2>0, <2>1
    <3> QED BY <3>1, <3>2, <3>3
  <2>2. CASE k > O /\ k <= n
    <3>1. k - O \in 1 .. L /\ O + (k - O) = k BY <1>8, <2>2
    <3>2. G[k] = log[k - O] /\ file[k] = log[k - O] BY <1>8, <1>10, <3>1
    <3> QED BY <2>2, <3>2
  <2>3. CASE k > n
    <3>1. k - n \in 1 .. Len(v) /\ O + (L + (k - n)) = k BY <1>4, <1>8, <2>3
    <3>2. G[k] = v[k - n] BY <1>10, <3>1
    <3> QED BY <1>4, <2>3, <3>2
  <2>4. k \in 1 .. O \/ (k > O /\ k <= n) \/ k > n BY <2>0
  <2> QED BY <2>1, <2>2, <2>3, <2>4
<1>13. file' = G BY <1>5, <1>11, <1>12
<1> QED BY <1>2, <1>9, <1>13

LEMMA SpecReceiverStep ==
  ASSUME OnlyAppends, Promised, SpecInv, Receiver
  PROVE  SpecInv'
<1> USE DEF IInv, TypeOK
<1>1. UNCHANGED <<clientVars, sent>> /\ \A c \in Clients : Cur(c)' = Cur(c)
  BY ReceiverReads
<1>2. UNCHANGED <<pc, spec, upto>> BY <1>1 DEF clientVars
<1>3. issued \in Nat /\ recvd \in Nat /\ Len(sent) \in Nat /\ recvd <= Len(sent)
      /\ issued <= recvd
  BY DEF Promised, QueueTypeOK, BatchInv
<1>4. ASSUME opened'.spec = "Append", file' = OldFile \o log', issued' \in Nat,
             issued <= issued'
      PROVE  SpecInv'
  <2>2. PICK n \in Nat : n = issued' /\ issued <= n BY <1>4
  <2>4. n \in Nat /\ issued \in Nat BY <1>3
  <2>5. issued <= n BY <2>2
  <2>3. \A l \in Nat : \A i \in n + 1 .. l : i \in issued + 1 .. l BY <2>4, <2>5
  <2>1. \A i \in issued' + 1 .. Len(sent) : i \in issued + 1 .. Len(sent) BY <1>3, <2>2, <2>3
  <2> QED BY <1>1, <1>2, <1>4, <2>1 DEF SpecInv, IsWrite
<1>5. opened.spec = "Append" /\ file = OldFile \o log BY DEF SpecInv
<1>6. CASE Recv \/ TryRecv \/ IssueFlush \/ SetCode \/ DropRequest \/ EndBatch \/ Exit
  <2>1. UNCHANGED <<opened, file, log>>
    BY <1>6 DEF Recv, TryRecv, IssueFlush, SetCode, DropRequest, EndBatch, Exit, fileVars
  <2>2. issued' \in {issued, recvd}
    BY <1>6 DEF Recv, TryRecv, IssueFlush, SetCode, DropRequest, EndBatch, Exit
  <2> QED BY <1>3, <1>4, <1>5, <2>1, <2>2
<1>7. CASE OpenFile
  <2>1. PICK i \in Batch :
          /\ rstate = "open" /\ IsWrite(i)
          /\ opened' = [spec |-> OpenSpec(i), at |-> Len(log)] \/ opened' = opened
          /\ UNCHANGED <<file, log, issued>>
    BY <1>7 DEF OpenFile
  <2>2. i \in issued + 1 .. Len(sent)
    BY <1>3, <2>1 DEF Batch, Promised, BatchInv
  <2>3. OpenSpec(i) = "Append" BY <2>1, <2>2 DEF OpenSpec, SpecInv
  <2>4. opened'.spec = "Append" BY <1>5, <2>1, <2>3
  <2> QED BY <1>3, <1>4, <1>5, <2>1, <2>4
<1>8. CASE IssueWrite
  <2>1. PICK i \in issued + 1 .. recvd, v \in Seq(Unit) : issued' = i /\ Put(v)
    BY <1>8, WriteAdds DEF Promised
  <2>2. file' = OldFile \o log' /\ opened' = opened
    BY <1>5, <2>1, PutAppends DEF Promised
  <2>3. issued' \in Nat /\ issued <= issued' BY <1>3, <2>1
  <2> QED BY <1>4, <1>5, <2>2, <2>3
<1> QED BY <1>6, <1>7, <1>8 DEF Receiver

(* For any threads: a script that only appends to a file, closing and reopening it
   as it likes, never overwrites a byte, and neither does standard output.  *)
THEOREM AppendsOverwriteNothing ==
  ASSUME IsStdout \/ Specs \subseteq {"Append"}
  PROVE  Spec => []AppendKeepsAll
<1> USE DEF OnlyAppends
<1>1. Promised /\ SpecInv /\ [Next]_vars => SpecInv'
  <2> SUFFICES ASSUME Promised, SpecInv, [Next]_vars PROVE SpecInv'
    OBVIOUS
  <2>1. CASE UNCHANGED vars
    <3>1. UNCHANGED <<opened, file, log, issued, sent, spec, pc, upto, cur, data>>
      BY <2>1 DEF vars, clientVars, heap, queueVars, fileVars
    <3> QED BY <3>1 DEF SpecInv, Cur, IsWrite
  <2> QED BY <2>1, SpecClientStep, SpecReceiverStep DEF Next, Terminated
<1>2. SpecInv => AppendKeepsAll BY DEF SpecInv, AppendKeepsAll
<1> QED BY <1>1, <1>2, SpecInit, InductiveFile, PTL DEF Spec

=============================================================================
