---------------------------- MODULE WritersProof ----------------------------
(***************************************************************************)
(* The pointer protocol of writers.rs, for any number of threads, any      *)
(* channel and buffer sizes and any script: the inductive invariant IInv   *)
(* and the theorems it gives.                                              *)
(*                                                                         *)
(* The argument for NoDangling.  A thread's guards are in channel order,   *)
(* and the receiver answers and drops requests one by one in that order:   *)
(* an answered request (index at most acked) is at most one ahead of the   *)
(* dropped ones.  clear_guards keeps the last answered guard it sees, so   *)
(* everything it pops is strictly before an answered request, hence        *)
(* dropped.  flush frees all guards, but only after its own request, which *)
(* is after all of them, has been answered.                                *)
(***************************************************************************)
EXTENDS Writers, TLAPS, SequenceTheorems

\* A thread has a current batch exactly while it has a handle, and the cut a
\* blocked clear_batch is about to make lies inside that batch.
HandleOK ==
  \A c \in Clients :
    /\ (cur[c] = NoAddr) <=> (pc[c] \in {"none", "gone"})
    /\ pc[c] = "send" => upto[c] <= Len(data[cur[c]])

\* What the indices in guards refer to.
GuardsOK ==
  /\ \A i \in 1 .. Len(sent) : IsWrite(i) => sent[i].addr \in Addrs
  /\ \A c \in Clients : \A i \in guards[c] :
       IsWrite(i) /\ sent[i].client = c

\* No Box is in two places.
Distinct ==
  /\ \A c \in Clients : \A i, j \in guards[c] :
       sent[i].addr = sent[j].addr => i = j
  /\ \A c \in Clients : \A i \in guards[c] :
       sent[i].addr # cur[c] /\ sent[i].addr \notin old[c]
  /\ \A c \in Clients : cur[c] \notin old[c]
  /\ \A c, d \in Clients : c # d =>
       /\ \A i \in guards[c] : /\ \A j \in guards[d] : sent[i].addr # sent[j].addr
                               /\ sent[i].addr # cur[d]
                               /\ sent[i].addr \notin old[d]
       /\ cur[c] \notin old[d]
       /\ cur[c] # NoAddr => cur[c] # cur[d]
       /\ \A a \in old[c] : a \notin old[d]

\* A waiting thread waits for the one Flush of it that is not yet answered,
\* which it sent after all the requests it still guards.
FlushOK ==
  /\ \A c \in Clients : pc[c] = "wait" =>
       /\ flushIx[c] \in 1 .. Len(sent)
       /\ sent[flushIx[c]].type = "Flush" /\ sent[flushIx[c]].client = c
       /\ \A i \in guards[c] : i < flushIx[c]
       /\ (fcode[c] = "Ongoing") <=> (flushIx[c] > acked)
  /\ \A i \in acked + 1 .. Len(sent) : sent[i].type = "Flush" =>
       pc[sent[i].client] = "wait" /\ flushIx[sent[i].client] = i

\* What the status words say, until the first IO error.
StatusOK ==
  ~failed =>
    /\ \A c \in Clients : \A i \in guards[c] :
         status[sent[i].addr] = IF i <= acked THEN "Ok" ELSE "Ongoing"
    /\ \A c \in Clients : \A a \in old[c] : status[a] = "Ok"
    /\ \A c \in Clients : cur[c] # NoAddr => status[cur[c]] = "Ongoing"

\* The guards cover every request in flight, until the first IO error.
Covered ==
  ~failed =>
    /\ \A i \in dropped + 1 .. Len(sent) :
         IsWrite(i) => i \in guards[sent[i].client]
    /\ \A c \in Clients : pc[c] = "free" => guards[c] = {}

IInv ==
  /\ TypeOK /\ HandleOK /\ GuardsOK /\ Distinct /\ FlushOK /\ StatusOK
  /\ Covered

------------------------------------------------------------------------------
\* Counting one more operation.
LEMMA OpsFacts ==
  ASSUME ClientTypeOK, NEW c \in Clients, ops[c] < MaxOps[c],
         ops' = [ops EXCEPT ![c] = @ + 1]
  PROVE  ops' \in [Clients -> Nat] /\ \A b \in Clients : ops'[b] <= MaxOps[b]
<1>1. \A b \in Clients : ops[b] \in Nat /\ ops[b] <= MaxOps[b]
  BY DEF ClientTypeOK
<1>2. \A b \in Clients : MaxOps[b] \in Nat
  BY ConstantsOK DEF ConstantsOK
<1>3. \A b \in Clients : ops'[b] = IF b = c THEN ops[c] + 1 ELSE ops[b]
  BY DEF ClientTypeOK
<1>4. ops' \in [Clients -> Nat]
  BY DEF ClientTypeOK
<1> QED
  BY <1>1, <1>2, <1>3, <1>4

\* What appending one request does to the channel.
LEMMA AppendFacts ==
  ASSUME NEW s, s \in Seq(Request), NEW r \in Request
  PROVE  /\ Append(s, r) \in Seq(Request)
         /\ Len(s) \in Nat
         /\ Len(Append(s, r)) = Len(s) + 1
         /\ \A i \in 1 .. Len(s) : Append(s, r)[i] = s[i]
         /\ Append(s, r)[Len(s) + 1] = r
  OBVIOUS

\* The fields of a request that is in the channel.
LEMMA RequestFacts ==
  ASSUME QueueTypeOK, NEW i \in 1 .. Len(sent)
  PROVE  /\ sent[i] \in Request
         /\ sent[i].type \in {"Write", "Flush", "Close"}
         /\ sent[i].client \in Clients
         /\ sent[i].addr \in Addrs \cup {NoAddr}
         /\ sent[i].spec \in {"Trunc", "Append"}
<1>1. sent[i] \in Request
  BY DEF QueueTypeOK
<1> QED
  BY <1>1 DEF Request

\* A new Box is one nobody holds.
LEMMA FreshFacts ==
  ASSUME Free # {}
  PROVE  /\ Fresh \in Addrs
         /\ \A c \in Clients : /\ Fresh # cur[c] /\ Fresh \notin old[c]
                               /\ \A i \in guards[c] : sent[i].addr # Fresh
<1>1. Fresh \in Free
  BY DEF Fresh
<1>2. Fresh \in Addrs /\ Fresh \notin InUse
  BY <1>1 DEF Free
<1>3. ASSUME NEW c \in Clients
      PROVE  /\ Fresh # cur[c] /\ Fresh \notin old[c]
             /\ \A i \in guards[c] : sent[i].addr # Fresh
  <2>1. cur[c] \in InUse
    <3> DEFINE U == UNION {GuardAddrs(b) \cup old[b] : b \in Clients}
               C == {cur[b] : b \in Clients}
    <3>1. cur[c] \in C
      OBVIOUS
    <3>2. InUse = U \cup C
      BY Zenon DEF InUse
    <3> HIDE DEF U, C
    <3> QED
      BY <3>1, <3>2
  <2>2. \A a \in GuardAddrs(c) \cup old[c] : a \in InUse
    <3>1. GuardAddrs(c) \cup old[c] \in {GuardAddrs(b) \cup old[b] : b \in Clients}
      OBVIOUS
    <3> QED
      BY <3>1, Zenon DEF InUse
  <2>3. \A i \in guards[c] : sent[i].addr \in GuardAddrs(c)
    BY DEF GuardAddrs
  <2> QED
    BY <1>2, <2>1, <2>2, <2>3
<1> QED
  BY <1>2, <1>3

\* Before the first error, what clear_guards pops has been dropped.
LEMMA PoppedFacts ==
  ASSUME TypeOK, StatusOK, GuardsOK, NEW c \in Clients, ~failed
  PROVE  /\ ~SeesError(c)
         /\ \A j \in Popped(c) : j \in guards[c] /\ j <= dropped /\ j <= acked
<1> USE DEF TypeOK
<1>1. \A i \in guards[c] : status[sent[i].addr] = IF i <= acked THEN "Ok" ELSE "Ongoing"
  BY DEF StatusOK
<1>2. ~SeesError(c)
  BY <1>1 DEF SeesError
<1>3. \A i \in Done(c) : i \in guards[c] /\ i <= acked
  <2>1. \A i \in guards[c] : i \in Nat
    BY DEF ClientTypeOK
  <2>2. \A i \in Done(c) : i \in guards[c] /\ status[sent[i].addr] = "Ok"
    BY <2>1 DEF Done
  <2> QED
    BY <1>1, <2>2
<1>4. \A j \in Popped(c) : j \in guards[c] /\ j <= dropped /\ j <= acked
  BY <1>3 DEF Popped, ClientTypeOK, QueueTypeOK
<1> QED
  BY <1>2, <1>4

\* What a client step that only clears finished guards may do; d is the data
\* of its current batch after the step.
Cleared(c, d) ==
  /\ pc[c] = "idle"
  /\ \E p \in {"idle", "close", "flush", "free", "send"} :
       /\ pc' = [pc EXCEPT ![c] = p]
       /\ p = "free" => failed
       /\ p = "send" => upto'[c] <= Len(d)
  /\ upto' \in [Clients -> Nat]
  /\ \A b \in Clients \ {c} : upto'[b] = upto[b]
  /\ \E P \in SUBSET guards[c], K \in SUBSET Addrs :
       /\ guards' = [guards EXCEPT ![c] = @ \ P]
       /\ old' = [old EXCEPT ![c] = @ \cup K]
       /\ \A a \in K : \E i \in P : a = sent[i].addr
       /\ ~failed => \A i \in P : i <= dropped /\ i <= acked

LEMMA ClearBatchFacts ==
  ASSUME IInv, NEW c \in Clients, pc[c] = "idle", NEW d, NEW u \in Nat,
         NEW o \in {"write", "flush", "close", "shutdown", "drop"},
         d # <<>> => u <= Len(d), ClearBatch(c, o, d, u)
  PROVE  /\ Cleared(c, d)
         /\ op' \in [Clients -> {"none", "write", "flush", "close", "shutdown",
                                 "drop", "rootclose", "rootdrop"}]
<1> USE DEF IInv, TypeOK
<1>1. op' \in [Clients -> {"none", "write", "flush", "close", "shutdown",
                           "drop", "rootclose", "rootdrop"}]
  BY DEF ClearBatch, Continue, ClientTypeOK
<1>2. CASE d = <<>>
  <2>1. /\ pc' = [pc EXCEPT ![c] = AfterClear(o)]
        /\ UNCHANGED <<upto, guards, old>>
    BY <1>2 DEF ClearBatch, Continue
  <2>2. AfterClear(o) \in {"idle", "close", "flush"}
    BY DEF AfterClear
  <2>3. \E P \in SUBSET guards[c], K \in SUBSET Addrs :
          /\ guards' = [guards EXCEPT ![c] = @ \ P]
          /\ old' = [old EXCEPT ![c] = @ \cup K]
          /\ \A a \in K : \E i \in P : a = sent[i].addr
          /\ ~failed => \A i \in P : i <= dropped /\ i <= acked
    <3>1. /\ guards' = [guards EXCEPT ![c] = @ \ {}]
          /\ old' = [old EXCEPT ![c] = @ \cup {}]
      BY <2>1 DEF ClientTypeOK
    <3>2. {} \in SUBSET guards[c] /\ {} \in SUBSET Addrs
      OBVIOUS
    <3>3. /\ \A a \in {} : \E i \in {} : a = sent[i].addr
          /\ ~failed => \A i \in {} : i <= dropped /\ i <= acked
      OBVIOUS
    <3> QED
      BY <3>1, <3>2, <3>3, Zenon
  <2> QED
    BY <1>1, <2>1, <2>2, <2>3 DEF Cleared, ClientTypeOK
<1>3. CASE d # <<>> /\ SeesError(c)
  <2>1. /\ pc' = [pc EXCEPT ![c] = AfterError(o)]
        /\ UNCHANGED <<upto, guards, old>>
    BY <1>3 DEF ClearBatch, Continue
  <2>2. AfterError(o) \in {"idle", "free"}
    BY DEF AfterError
  <2>3. \E P \in SUBSET guards[c], K \in SUBSET Addrs :
          /\ guards' = [guards EXCEPT ![c] = @ \ P]
          /\ old' = [old EXCEPT ![c] = @ \cup K]
          /\ \A a \in K : \E i \in P : a = sent[i].addr
          /\ ~failed => \A i \in P : i <= dropped /\ i <= acked
    <3>1. /\ guards' = [guards EXCEPT ![c] = @ \ {}]
          /\ old' = [old EXCEPT ![c] = @ \cup {}]
      BY <2>1 DEF ClientTypeOK
    <3>2. {} \in SUBSET guards[c] /\ {} \in SUBSET Addrs
      OBVIOUS
    <3>3. /\ \A a \in {} : \E i \in {} : a = sent[i].addr
          /\ ~failed => \A i \in {} : i <= dropped /\ i <= acked
      OBVIOUS
    <3> QED
      BY <3>1, <3>2, <3>3, Zenon
  <2>4. failed
    BY <1>3, PoppedFacts
  <2> QED
    BY <1>1, <2>1, <2>2, <2>3, <2>4 DEF Cleared, ClientTypeOK
<1>4. CASE d # <<>> /\ ~SeesError(c)
  <2>1. /\ pc' = [pc EXCEPT ![c] = "send"]
        /\ upto' = [upto EXCEPT ![c] = u]
        /\ guards' = [guards EXCEPT ![c] = @ \ Popped(c)]
        /\ old' = [old EXCEPT ![c] = @ \cup Kept(c)]
    BY <1>4 DEF ClearBatch, Continue
  <2>2. Popped(c) \in SUBSET guards[c]
    BY DEF Popped
  <2>3. \A a \in Kept(c) : \E i \in Popped(c) : a = sent[i].addr
    BY DEF Kept
  <2>4. \A i \in Popped(c) : sent[i].addr \in Addrs
    BY <2>2 DEF GuardsOK, ClientTypeOK
  <2>5. ~failed => \A i \in Popped(c) : i <= dropped /\ i <= acked
    BY PoppedFacts
  <2>6. Kept(c) \in SUBSET Addrs
    BY <2>3, <2>4
  <2>7. upto' \in [Clients -> Nat] /\ upto'[c] = u
        /\ \A b \in Clients \ {c} : upto'[b] = upto[b]
    BY <2>1 DEF ClientTypeOK
  <2> QED
    BY <1>1, <1>4, <2>1, <2>2, <2>3, <2>5, <2>6, <2>7 DEF Cleared
<1> QED
  BY <1>2, <1>3, <1>4

\* A client inside an operation has a current batch.
LEMMA BatchFacts ==
  ASSUME TypeOK, HandleOK, NEW c \in Clients, pc[c] \notin {"none", "gone"}
  PROVE  /\ cur[c] # NoAddr /\ cur[c] \in Addrs
         /\ data[cur[c]] \in Seq(Unit) /\ Len(data[cur[c]]) \in Nat
<1>1. cur[c] # NoAddr
  BY DEF HandleOK
<1>2. cur[c] \in Addrs
  BY <1>1 DEF TypeOK, ClientTypeOK
<1>3. data[cur[c]] \in Seq(Unit)
  BY <1>2 DEF TypeOK, HeapTypeOK
<1> QED
  BY <1>1, <1>2, <1>3

\* A step of a client that extends its current batch and clears finished
\* guards keeps the whole protocol.
LEMMA ClearedStep ==
  ASSUME IInv, NEW c \in Clients, NEW d \in Seq(Unit), Cleared(c, d),
         data' = [data EXCEPT ![cur[c]] = d], status' = status,
         UNCHANGED <<cur, flushIx, fcode, sent, recvd, acked, dropped, failed>>
  PROVE  /\ HandleOK' /\ GuardsOK' /\ Distinct' /\ FlushOK' /\ StatusOK'
         /\ Covered'
         /\ pc' \in [Clients -> {"none", "idle", "send", "close", "flush",
                                 "wait", "free", "gone"}]
         /\ guards' \in [Clients -> SUBSET (1 .. Len(sent))]
         /\ old' \in [Clients -> SUBSET Addrs]
         /\ upto' \in [Clients -> Nat]
         /\ data' \in [Addrs -> Seq(Unit)]
<1> USE DEF IInv, TypeOK
<1>1. PICK p \in {"idle", "close", "flush", "free", "send"} :
        /\ pc' = [pc EXCEPT ![c] = p]
        /\ p = "free" => failed
        /\ p = "send" => upto'[c] <= Len(d)
  BY DEF Cleared
<1>2. PICK P \in SUBSET guards[c], K \in SUBSET Addrs :
        /\ guards' = [guards EXCEPT ![c] = @ \ P]
        /\ old' = [old EXCEPT ![c] = @ \cup K]
        /\ \A a \in K : \E i \in P : a = sent[i].addr
        /\ ~failed => \A i \in P : i <= dropped /\ i <= acked
  BY DEF Cleared
<1>3. /\ pc[c] = "idle" /\ cur[c] \in Addrs /\ cur[c] # NoAddr
      /\ upto' \in [Clients -> Nat]
      /\ \A b \in Clients \ {c} : upto'[b] = upto[b]
  <2>1. pc[c] = "idle"
    BY DEF Cleared
  <2> QED
    BY <2>1, BatchFacts DEF Cleared
<1>4. \A b \in Clients : /\ guards'[b] \subseteq guards[b]
                         /\ b # c => guards'[b] = guards[b] /\ old'[b] = old[b]
  BY <1>2 DEF ClientTypeOK
<1>5. /\ pc'[c] = p /\ guards'[c] = guards[c] \ P /\ old'[c] = old[c] \cup K
      /\ \A b \in Clients \ {c} : pc'[b] = pc[b]
  BY <1>1, <1>2 DEF ClientTypeOK
<1>6. HandleOK'
  <2>1. data'[cur[c]] = d
    BY <1>3 DEF HeapTypeOK
  <2>2. \A b \in Clients \ {c} : cur[b] # NoAddr => data'[cur[b]] = data[cur[b]]
    BY <1>3 DEF HeapTypeOK, Distinct, ClientTypeOK
  <2>3. \A b \in Clients \ {c} : pc[b] = "send" => cur[b] # NoAddr
    BY DEF HandleOK
  <2> QED
    BY <1>1, <1>3, <1>5, <2>1, <2>2, <2>3 DEF HandleOK
<1>7. GuardsOK'
  BY <1>4 DEF GuardsOK, IsWrite
<1>8. Distinct'
  <2>1. \A i \in P : i \in guards[c]
    OBVIOUS
  <2>2. \A a \in K : a \notin old[c] /\ a # cur[c]
    BY <1>2, <2>1 DEF Distinct
  <2>3. \A b \in Clients \ {c} : \A a \in K :
          /\ a \notin old[b] /\ a # cur[b]
          /\ \A j \in guards[b] : sent[j].addr # a
    BY <1>2, <2>1 DEF Distinct
  <2>4. \A i \in guards'[c] : sent[i].addr \notin K
    BY <1>2, <1>5, <2>1 DEF Distinct
  <2> QED
    BY <1>4, <1>5, <2>2, <2>3, <2>4 DEF Distinct
<1>9. FlushOK'
  <2>1. \A b \in Clients : (pc'[b] = "wait") <=> (pc[b] = "wait")
    BY <1>1, <1>3, <1>5
  <2>2. \A i \in acked + 1 .. Len(sent) : sent[i].client \in Clients
    BY RequestFacts DEF QueueTypeOK
  <2> QED
    BY <1>4, <2>1, <2>2 DEF FlushOK
<1>10. StatusOK'
  <2>1. ~failed => \A a \in K : status[a] = "Ok"
    BY <1>2 DEF StatusOK
  <2> QED
    BY <1>4, <1>5, <2>1 DEF StatusOK
<1>11. Covered'
  <2>1. ~failed => \A i \in dropped + 1 .. Len(sent) : i \notin P
    BY <1>2 DEF QueueTypeOK
  <2>2. \A i \in dropped + 1 .. Len(sent) : sent[i].client \in Clients
    BY RequestFacts DEF QueueTypeOK
  <2>3. ~failed => \A i \in dropped + 1 .. Len(sent) :
          IsWrite(i) => i \in guards'[sent[i].client]
    BY <1>4, <1>5, <2>1, <2>2 DEF Covered
  <2>4. ~failed => \A b \in Clients : pc'[b] = "free" => guards'[b] = {}
    BY <1>1, <1>4, <1>5 DEF Covered
  <2> QED
    BY <2>3, <2>4 DEF Covered, IsWrite
<1>12. /\ pc' \in [Clients -> {"none", "idle", "send", "close", "flush",
                               "wait", "free", "gone"}]
       /\ guards' \in [Clients -> SUBSET (1 .. Len(sent))]
       /\ old' \in [Clients -> SUBSET Addrs]
       /\ data' \in [Addrs -> Seq(Unit)]
  BY <1>1, <1>2, <1>3 DEF ClientTypeOK, HeapTypeOK
<1> QED
  BY <1>3, <1>6, <1>7, <1>8, <1>9, <1>10, <1>11, <1>12

LEMMA StartStep ==
  ASSUME IInv, NEW c \in Clients, NEW o \in {"flush", "close"}, Start(c, o)
  PROVE  IInv'
<1> USE DEF IInv, TypeOK
<1>1. /\ pc[c] = "idle" /\ cur[c] \in Addrs
      /\ data[cur[c]] \in Seq(Unit) /\ Len(data[cur[c]]) \in Nat
  BY BatchFacts DEF Start
<1>2. /\ Cleared(c, data[cur[c]])
      /\ op' \in [Clients -> {"none", "write", "flush", "close", "shutdown",
                              "drop", "rootclose", "rootdrop"}]
  BY <1>1, ClearBatchFacts DEF Start
<1>3. /\ data' = [data EXCEPT ![cur[c]] = data[cur[c]]] /\ status' = status
      /\ UNCHANGED <<cur, flushIx, fcode, sent, recvd, acked, dropped, failed>>
  BY <1>1 DEF Start, heap, queueVars, HeapTypeOK
<1>4. /\ HandleOK' /\ GuardsOK' /\ Distinct' /\ FlushOK' /\ StatusOK'
      /\ Covered'
      /\ pc' \in [Clients -> {"none", "idle", "send", "close", "flush",
                              "wait", "free", "gone"}]
      /\ guards' \in [Clients -> SUBSET (1 .. Len(sent))]
      /\ old' \in [Clients -> SUBSET Addrs]
      /\ upto' \in [Clients -> Nat]
      /\ data' \in [Addrs -> Seq(Unit)]
  BY <1>1, <1>2, <1>3, ClearedStep
<1>5. ClientTypeOK'
  <2>1. ops' \in [Clients -> Nat] /\ \A b \in Clients : ops'[b] <= MaxOps[b]
    BY OpsFacts DEF Start
  <2> QED
    BY <1>2, <1>4, <2>1 DEF Start, ClientTypeOK
<1>6. HeapTypeOK' /\ QueueTypeOK' /\ FileTypeOK'
  BY <1>4 DEF Start, heap, queueVars, fileVars, HeapTypeOK, QueueTypeOK,
              FileTypeOK
<1> QED
  BY <1>4, <1>5, <1>6

LEMMA ShutdownStep ==
  ASSUME IInv, NEW c \in Clients, Shutdown(c)
  PROVE  IInv'
<1> USE DEF IInv, TypeOK
<1>1. CASE pc[c] = "idle"
  <2>1. /\ cur[c] \in Addrs
        /\ data[cur[c]] \in Seq(Unit) /\ Len(data[cur[c]]) \in Nat
    BY <1>1, BatchFacts
  <2>2. PICK o \in {"shutdown", "drop"} : ClearBatch(c, o, data[cur[c]], 0)
    BY <1>1 DEF Shutdown
  <2>3. /\ Cleared(c, data[cur[c]])
        /\ op' \in [Clients -> {"none", "write", "flush", "close", "shutdown",
                                "drop", "rootclose", "rootdrop"}]
    BY <1>1, <2>1, <2>2, ClearBatchFacts
  <2>4. /\ data' = [data EXCEPT ![cur[c]] = data[cur[c]]] /\ status' = status
        /\ UNCHANGED <<cur, flushIx, fcode, sent, recvd, acked, dropped, failed>>
    BY <2>1 DEF Shutdown, heap, queueVars, HeapTypeOK
  <2>5. /\ HandleOK' /\ GuardsOK' /\ Distinct' /\ FlushOK' /\ StatusOK'
        /\ Covered'
        /\ pc' \in [Clients -> {"none", "idle", "send", "close", "flush",
                                "wait", "free", "gone"}]
        /\ guards' \in [Clients -> SUBSET (1 .. Len(sent))]
        /\ old' \in [Clients -> SUBSET Addrs]
        /\ upto' \in [Clients -> Nat]
        /\ data' \in [Addrs -> Seq(Unit)]
    BY <2>1, <2>3, <2>4, ClearedStep
  <2>6. ClientTypeOK'
    BY <2>3, <2>5 DEF Shutdown, ClientTypeOK
  <2>7. HeapTypeOK' /\ QueueTypeOK' /\ FileTypeOK'
    BY <2>5 DEF Shutdown, heap, queueVars, fileVars, HeapTypeOK, QueueTypeOK,
                FileTypeOK
  <2> QED
    BY <2>5, <2>6, <2>7
<1>2. CASE pc[c] = "none"
  <2>1. /\ pc' = [pc EXCEPT ![c] = "gone"] /\ op' = [op EXCEPT ![c] = "none"]
        /\ UNCHANGED <<upto, guards, old>>
    BY <1>2 DEF Shutdown, Continue
  <2>2. UNCHANGED <<ops, cur, spec, flushIx, made, fcode, status, data, sent,
                    queueVars, fileVars, durable>>
    BY DEF Shutdown, heap
  <2>3. ClientTypeOK'
    BY <2>1, <2>2 DEF ClientTypeOK
  <2>4. HeapTypeOK' /\ QueueTypeOK' /\ FileTypeOK'
    BY <2>2 DEF queueVars, fileVars, HeapTypeOK, QueueTypeOK, FileTypeOK
  <2>5. HandleOK'
    BY <1>2, <2>1, <2>2 DEF HandleOK, ClientTypeOK
  <2>6. GuardsOK' /\ Distinct'
    BY <2>1, <2>2 DEF GuardsOK, Distinct, IsWrite
  <2>7. FlushOK'
    <3>1. \A b \in Clients : (pc'[b] = "wait") <=> (pc[b] = "wait")
      BY <1>2, <2>1 DEF ClientTypeOK
    <3>2. \A i \in acked + 1 .. Len(sent) : sent[i].client \in Clients
      BY RequestFacts DEF QueueTypeOK
    <3> QED
      BY <2>1, <2>2, <3>1, <3>2 DEF FlushOK, queueVars
  <2>8. StatusOK'
    BY <2>1, <2>2 DEF StatusOK, queueVars
  <2>9. Covered'
    BY <2>1, <2>2 DEF Covered, ClientTypeOK, IsWrite, queueVars
  <2> QED
    BY <2>3, <2>4, <2>5, <2>6, <2>7, <2>8, <2>9
<1> QED
  BY <1>1, <1>2 DEF Shutdown

LEMMA WriteStep ==
  ASSUME IInv, NEW c \in Clients, NEW n \in 1 .. MaxWrite, NEW nl \in 0 .. n,
         NEW s \in Specs, Write(c, n, nl, s)
  PROVE  IInv'
<1> USE DEF IInv, TypeOK
<1> DEFINE d == data[cur[c]] \o [k \in 1..n |-> <<c, made[c] + k>>]
           line == LineBuffer /\ nl > 0
           u == IF line THEN Len(data[cur[c]]) + nl ELSE 0
<1>1. /\ pc[c] = "idle" /\ cur[c] \in Addrs
      /\ data[cur[c]] \in Seq(Unit) /\ Len(data[cur[c]]) \in Nat
  BY BatchFacts DEF Write
<1>2. n \in Nat /\ nl \in Nat /\ nl <= n /\ s \in {"Trunc", "Append"}
  BY ConstantsOK DEF ConstantsOK
<1>3. /\ d \in Seq(Unit) /\ Len(d) = Len(data[cur[c]]) + n
  <2>1. [k \in 1..n |-> <<c, made[c] + k>>] \in Seq(Unit)
    BY <1>2 DEF Unit, ClientTypeOK
  <2> QED
    BY <1>1, <1>2, <2>1
<1>4. u \in Nat /\ u <= Len(d)
  BY <1>1, <1>2, <1>3
<1>5. /\ data' = [data EXCEPT ![cur[c]] = d] /\ status' = status
      /\ UNCHANGED <<cur, flushIx, fcode, sent, recvd, acked, dropped, failed>>
  BY DEF Write, queueVars
<1>6. /\ Cleared(c, d)
      /\ op' \in [Clients -> {"none", "write", "flush", "close", "shutdown",
                              "drop", "rootclose", "rootdrop"}]
  <2>1. CASE ClearBatch(c, "write", d, u)
    <3> HIDE DEF d, u
    <3> QED
      BY <1>1, <1>4, <2>1, ClearBatchFacts
  <2>2. CASE UNCHANGED <<pc, op, upto, guards, old>>
    <3>1. pc' = [pc EXCEPT ![c] = "idle"]
      BY <1>1, <2>2 DEF ClientTypeOK
    <3>2. /\ guards' = [guards EXCEPT ![c] = @ \ {}]
          /\ old' = [old EXCEPT ![c] = @ \cup {}]
      BY <2>2 DEF ClientTypeOK
    <3>3. /\ {} \in SUBSET guards[c] /\ {} \in SUBSET Addrs
          /\ \A a \in {} : \E i \in {} : a = sent[i].addr
          /\ ~failed => \A i \in {} : i <= dropped /\ i <= acked
      OBVIOUS
    <3>4. \E P \in SUBSET guards[c], K \in SUBSET Addrs :
            /\ guards' = [guards EXCEPT ![c] = @ \ P]
            /\ old' = [old EXCEPT ![c] = @ \cup K]
            /\ \A a \in K : \E i \in P : a = sent[i].addr
            /\ ~failed => \A i \in P : i <= dropped /\ i <= acked
      BY <3>2, <3>3, Zenon
    <3> HIDE DEF d
    <3> QED
      BY <1>1, <2>2, <3>1, <3>4 DEF Cleared, ClientTypeOK
  <2> QED
    BY <2>1, <2>2 DEF Write
<1>7. /\ HandleOK' /\ GuardsOK' /\ Distinct' /\ FlushOK' /\ StatusOK'
      /\ Covered'
      /\ pc' \in [Clients -> {"none", "idle", "send", "close", "flush",
                              "wait", "free", "gone"}]
      /\ guards' \in [Clients -> SUBSET (1 .. Len(sent))]
      /\ old' \in [Clients -> SUBSET Addrs]
      /\ upto' \in [Clients -> Nat]
      /\ data' \in [Addrs -> Seq(Unit)]
  <2> HIDE DEF d
  <2> QED
    BY <1>3, <1>5, <1>6, ClearedStep
<1>8. ClientTypeOK'
  <2>1. ops' \in [Clients -> Nat] /\ \A b \in Clients : ops'[b] <= MaxOps[b]
    BY OpsFacts DEF Write
  <2>2. made' \in [Clients -> Nat] /\ spec' \in [Clients -> {"Trunc", "Append"}]
    BY <1>2 DEF Write, ClientTypeOK
  <2> QED
    BY <1>6, <1>7, <2>1, <2>2 DEF Write, ClientTypeOK
<1>9. HeapTypeOK' /\ QueueTypeOK' /\ FileTypeOK'
  BY <1>7 DEF Write, queueVars, fileVars, HeapTypeOK, QueueTypeOK, FileTypeOK
<1> QED
  BY <1>7, <1>8, <1>9

\* A thread gets a handle; p is where that leaves it.
LEMMA NewHandleStep ==
  ASSUME IInv, NEW c \in Clients, pc[c] = "none", NewHandle(c),
         NEW p \in {"idle", "close"}, pc' = [pc EXCEPT ![c] = p],
         UNCHANGED <<upto, guards, old, flushIx, fcode, sent, recvd, acked,
                     dropped, failed>>
  PROVE  /\ HandleOK' /\ GuardsOK' /\ Distinct' /\ FlushOK' /\ StatusOK'
         /\ Covered' /\ HeapTypeOK'
         /\ pc' \in [Clients -> {"none", "idle", "send", "close", "flush",
                                 "wait", "free", "gone"}]
         /\ cur' \in [Clients -> Addrs \cup {NoAddr}]
         /\ spec' \in [Clients -> {"Trunc", "Append"}]
<1> USE DEF IInv, TypeOK
<1> DEFINE a == Fresh
<1>1. /\ a \in Addrs
      /\ \A b \in Clients : /\ a # cur[b] /\ a \notin old[b]
                            /\ \A i \in guards[b] : sent[i].addr # a
  BY FreshFacts DEF NewHandle
<1>2. /\ cur' = [cur EXCEPT ![c] = a]
      /\ status' = [status EXCEPT ![a] = "Ongoing"]
      /\ data' = [data EXCEPT ![a] = <<>>]
      /\ spec' = [spec EXCEPT ![c] = "Append"]
  BY DEF NewHandle
<1> HIDE DEF a
<1>3. a # NoAddr
  BY <1>1, ConstantsOK DEF ConstantsOK
<1>4. /\ HeapTypeOK'
      /\ pc' \in [Clients -> {"none", "idle", "send", "close", "flush",
                              "wait", "free", "gone"}]
      /\ cur' \in [Clients -> Addrs \cup {NoAddr}]
      /\ spec' \in [Clients -> {"Trunc", "Append"}]
  <2>1. <<>> \in Seq(Unit)
    OBVIOUS
  <2> QED
    BY <1>1, <1>2, <2>1 DEF HeapTypeOK, ClientTypeOK
<1>5. /\ pc'[c] = p /\ cur'[c] = a
      /\ \A b \in Clients \ {c} : pc'[b] = pc[b] /\ cur'[b] = cur[b]
  BY <1>2 DEF ClientTypeOK
<1>6. \A e \in Addrs \ {a} : status'[e] = status[e] /\ data'[e] = data[e]
  BY <1>2 DEF HeapTypeOK
<1>7. HandleOK'
  <2>1. \A b \in Clients \ {c} : pc[b] = "send" => data'[cur[b]] = data[cur[b]]
    BY <1>1, <1>6, BatchFacts
  <2> QED
    BY <1>3, <1>5, <2>1 DEF HandleOK
<1>8. GuardsOK'
  BY DEF GuardsOK, IsWrite
<1>9. Distinct'
  BY <1>1, <1>3, <1>5 DEF Distinct
<1>10. FlushOK'
  <2>1. \A b \in Clients : (pc'[b] = "wait") <=> (pc[b] = "wait")
    BY <1>5
  <2>2. \A i \in acked + 1 .. Len(sent) : sent[i].client \in Clients
    BY RequestFacts DEF QueueTypeOK
  <2> QED
    BY <2>1, <2>2 DEF FlushOK
<1>11. StatusOK'
  <2>1. \A b \in Clients : \A i \in guards[b] :
          sent[i].addr \in Addrs /\ sent[i].addr # a
    BY <1>1 DEF GuardsOK, ClientTypeOK
  <2>2. \A b \in Clients : \A e \in old[b] : e \in Addrs /\ e # a
    BY <1>1 DEF ClientTypeOK
  <2>3. status'[a] = "Ongoing"
    BY <1>1, <1>2 DEF HeapTypeOK
  <2>4. \A b \in Clients : cur[b] # NoAddr => cur[b] \in Addrs
    BY DEF ClientTypeOK
  <2> QED
    BY <1>1, <1>5, <1>6, <2>1, <2>2, <2>3, <2>4 DEF StatusOK
<1>12. Covered'
  BY <1>5 DEF Covered, IsWrite
<1> QED
  BY <1>4, <1>7, <1>8, <1>9, <1>10, <1>11, <1>12

LEMMA GetHandleStep ==
  ASSUME IInv, NEW c \in Clients, GetHandle(c)
  PROVE  IInv'
<1> USE DEF IInv, TypeOK
<1>1. /\ pc[c] = "none" /\ NewHandle(c) /\ pc' = [pc EXCEPT ![c] = "idle"]
      /\ UNCHANGED <<upto, guards, old, flushIx, fcode, sent, recvd, acked,
                     dropped, failed>>
  BY DEF GetHandle, queueVars
<1>2. /\ HandleOK' /\ GuardsOK' /\ Distinct' /\ FlushOK' /\ StatusOK'
      /\ Covered' /\ HeapTypeOK'
      /\ pc' \in [Clients -> {"none", "idle", "send", "close", "flush",
                              "wait", "free", "gone"}]
      /\ cur' \in [Clients -> Addrs \cup {NoAddr}]
      /\ spec' \in [Clients -> {"Trunc", "Append"}]
  BY <1>1, NewHandleStep
<1>3. ClientTypeOK' /\ QueueTypeOK' /\ FileTypeOK'
  BY <1>2 DEF GetHandle, queueVars, fileVars, ClientTypeOK, QueueTypeOK,
              FileTypeOK
<1> QED
  BY <1>2, <1>3

LEMMA RootCloseStep ==
  ASSUME IInv, NEW c \in Clients, RootClose(c)
  PROVE  IInv'
<1> USE DEF IInv, TypeOK
<1>1. /\ pc[c] = "none" /\ NewHandle(c) /\ pc' = [pc EXCEPT ![c] = "close"]
      /\ op' = [op EXCEPT ![c] = "rootclose"]
      /\ UNCHANGED <<upto, guards, old, flushIx, fcode, sent, recvd, acked,
                     dropped, failed>>
  BY DEF RootClose, queueVars, Continue, AfterClear
<1>2. /\ HandleOK' /\ GuardsOK' /\ Distinct' /\ FlushOK' /\ StatusOK'
      /\ Covered' /\ HeapTypeOK'
      /\ pc' \in [Clients -> {"none", "idle", "send", "close", "flush",
                              "wait", "free", "gone"}]
      /\ cur' \in [Clients -> Addrs \cup {NoAddr}]
      /\ spec' \in [Clients -> {"Trunc", "Append"}]
  BY <1>1, NewHandleStep
<1>3. op' \in [Clients -> {"none", "write", "flush", "close", "shutdown",
                           "drop", "rootclose", "rootdrop"}]
  BY <1>1 DEF ClientTypeOK
<1>4. ops' \in [Clients -> Nat] /\ \A b \in Clients : ops'[b] <= MaxOps[b]
  BY OpsFacts DEF RootClose
<1>5. ClientTypeOK' /\ QueueTypeOK' /\ FileTypeOK'
  BY <1>2, <1>3, <1>4 DEF RootClose, queueVars, fileVars, ClientTypeOK,
                          QueueTypeOK, FileTypeOK
<1> QED
  BY <1>2, <1>5

\* A client step that appends request r to the channel, other than a Write.
LEMMA SendFacts ==
  ASSUME IInv, NEW r \in Request, Send(r)
  PROVE  /\ sent' \in Seq(Request) /\ Len(sent) \in Nat
         /\ Len(sent') = Len(sent) + 1
         /\ \A i \in 1 .. Len(sent) : sent'[i] = sent[i]
         /\ sent'[Len(sent) + 1] = r
         /\ Len(sent') - recvd <= ChanSize
         /\ recvd <= Len(sent') /\ acked <= Len(sent)
         /\ \A c \in Clients : \A i \in guards[c] :
              i \in 1 .. Len(sent) /\ sent'[i] = sent[i]
         /\ \A i \in 1 .. Len(sent) : sent[i].client \in Clients
<1> USE DEF IInv, TypeOK
<1>1. sent' = Append(sent, r) /\ Len(sent) - recvd < ChanSize
  BY DEF Send
<1>2. /\ sent' \in Seq(Request) /\ Len(sent) \in Nat
      /\ Len(sent') = Len(sent) + 1
      /\ \A i \in 1 .. Len(sent) : sent'[i] = sent[i]
      /\ sent'[Len(sent) + 1] = r
  BY <1>1, AppendFacts DEF QueueTypeOK
<1>3. \A c \in Clients : \A i \in guards[c] : i \in 1 .. Len(sent)
  BY DEF ClientTypeOK
<1>4. \A i \in 1 .. Len(sent) : sent[i].client \in Clients
  BY RequestFacts
<1>5. /\ Len(sent') - recvd <= ChanSize
      /\ recvd <= Len(sent') /\ acked <= Len(sent)
  BY <1>1, <1>2, ConstantsOK DEF ConstantsOK, QueueTypeOK
<1> QED
  BY <1>2, <1>3, <1>4, <1>5

LEMMA SendWriteStep ==
  ASSUME IInv, NEW c \in Clients, SendWrite(c)
  PROVE  IInv'
<1> USE DEF IInv, TypeOK
<1> DEFINE a == cur[c]
           nx == IF old[c] # {} THEN CHOOSE b \in old[c] : TRUE ELSE Fresh
           u == IF upto[c] = 0 THEN Len(data[a]) ELSE upto[c]
           r == [type |-> "Write", client |-> c, addr |-> a, spec |-> spec[c],
                 flush |-> upto[c] # 0]
           L == Len(sent)
<1>1. /\ pc[c] = "send" /\ Send(r) /\ (old[c] # {} \/ Free # {})
      /\ cur' = [cur EXCEPT ![c] = nx]
      /\ old' = [old EXCEPT ![c] = @ \ {nx}]
      /\ guards' = [guards EXCEPT ![c] = @ \cup {L + 1}]
      /\ status' = [status EXCEPT ![nx] = "Ongoing"]
      /\ data' = [data EXCEPT ![nx] = Rest(data[a], u), ![a] = SubSeq(data[a], 1, u)]
      /\ pc' = [pc EXCEPT ![c] = AfterClear(op[c])]
      /\ upto' = [upto EXCEPT ![c] = 0]
      /\ UNCHANGED <<flushIx, fcode, recvd, acked, dropped, failed>>
  BY DEF SendWrite, Continue, queueVars
<1>2. /\ a # NoAddr /\ a \in Addrs
      /\ data[a] \in Seq(Unit) /\ Len(data[a]) \in Nat
      /\ u \in 0 .. Len(data[a])
  <2>1. upto[c] \in Nat /\ upto[c] <= Len(data[a])
    BY <1>1 DEF HandleOK, ClientTypeOK
  <2> QED
    BY <1>1, <2>1, BatchFacts
<1>3. r \in Request
  BY <1>2 DEF Request, ClientTypeOK
<1>4. /\ nx \in Addrs /\ nx # NoAddr
      /\ \A b \in Clients : /\ nx # cur[b]
                            /\ \A i \in guards[b] : sent[i].addr # nx
                            /\ b # c => nx \notin old[b]
  <2>1. CASE old[c] # {}
    <3>1. nx \in old[c]
      BY <2>1
    <3> HIDE DEF nx
    <3> QED
      BY <3>1, ConstantsOK DEF ConstantsOK, Distinct, ClientTypeOK
  <2>2. CASE old[c] = {}
    <3>1. nx = Fresh /\ Free # {}
      BY <1>1, <2>2
    <3> HIDE DEF nx
    <3> QED
      BY <3>1, FreshFacts, ConstantsOK DEF ConstantsOK
  <2> QED
    BY <2>1, <2>2
<1>5. AfterClear(op[c]) \in {"idle", "close", "flush"}
  BY DEF AfterClear
<1> HIDE DEF nx, u, r, L
<1>6. /\ sent' \in Seq(Request) /\ L \in Nat
      /\ Len(sent') = L + 1
      /\ \A i \in 1 .. L : sent'[i] = sent[i]
      /\ sent'[L + 1] = r
      /\ Len(sent') - recvd <= ChanSize
      /\ recvd <= Len(sent') /\ acked <= L
      /\ \A b \in Clients : \A i \in guards[b] : i \in 1 .. L /\ sent'[i] = sent[i]
      /\ \A i \in 1 .. L : sent[i].client \in Clients
  BY <1>1, <1>3, SendFacts DEF L
<1>7. /\ cur'[c] = nx /\ old'[c] = old[c] \ {nx}
      /\ guards'[c] = guards[c] \cup {L + 1}
      /\ pc'[c] \in {"idle", "close", "flush"}
      /\ \A b \in Clients \ {c} : /\ cur'[b] = cur[b] /\ old'[b] = old[b]
                                  /\ guards'[b] = guards[b] /\ pc'[b] = pc[b]
                                  /\ upto'[b] = upto[b]
  BY <1>1, <1>5 DEF ClientTypeOK
<1>8. r.type = "Write" /\ r.client = c /\ r.addr = a
  BY DEF r
<1>9. \A e \in Addrs \ {nx} : status'[e] = status[e]
  BY <1>1 DEF HeapTypeOK
<1>10. ClientTypeOK'
  <2>1. guards' \in [Clients -> SUBSET (1 .. L + 1)]
    BY <1>1, <1>6 DEF ClientTypeOK, L
  <2>2. flushIx' \in [Clients -> 0 .. L + 1]
    BY <1>1, <1>6 DEF ClientTypeOK, L
  <2>3. /\ cur' \in [Clients -> Addrs \cup {NoAddr}]
        /\ old' \in [Clients -> SUBSET Addrs]
        /\ upto' \in [Clients -> Nat]
        /\ pc' \in [Clients -> {"none", "idle", "send", "close", "flush",
                                "wait", "free", "gone"}]
    BY <1>1, <1>4, <1>5 DEF ClientTypeOK
  <2>4. /\ spec' \in [Clients -> {"Trunc", "Append"}]
        /\ op' \in [Clients -> {"none", "write", "flush", "close", "shutdown",
                                "drop", "rootclose", "rootdrop"}]
    BY DEF SendWrite, Continue, ClientTypeOK
  <2>5. UNCHANGED <<ops, made, fcode, durable>>
    BY DEF SendWrite
  <2> QED
    BY <1>6, <2>1, <2>2, <2>3, <2>4, <2>5 DEF ClientTypeOK
<1>11. HeapTypeOK'
  <2>1. /\ SubSeq(data[a], 1, u) \in Seq(Unit)
        /\ SubSeq(data[a], u + 1, Len(data[a])) \in Seq(Unit)
    BY <1>2, SubSeqProperties
  <2> QED
    BY <1>1, <1>2, <1>4, <2>1 DEF HeapTypeOK, Rest
<1>12. QueueTypeOK' /\ FileTypeOK'
  BY <1>6 DEF SendWrite, queueVars, fileVars, QueueTypeOK, FileTypeOK
<1>13. HandleOK'
  <2>1. ASSUME NEW b \in Clients \ {c}, pc[b] = "send"
        PROVE  data'[cur[b]] = data[cur[b]]
    <3>1. cur[b] \in Addrs /\ cur[b] # NoAddr
      BY <2>1, BatchFacts
    <3>2. cur[b] # a /\ cur[b] # nx
      BY <1>2, <1>4, <3>1 DEF Distinct
    <3> QED
      BY <1>1, <3>1, <3>2 DEF HeapTypeOK
  <2> QED
    BY <1>4, <1>7, <2>1 DEF HandleOK
<1>14. GuardsOK'
  <2>1. \A i \in 1 .. L + 1 : sent'[i].type = "Write" => sent'[i].addr \in Addrs
    BY <1>2, <1>6, <1>8 DEF GuardsOK, IsWrite, L
  <2>2. \A b \in Clients : \A i \in guards'[b] :
          sent'[i].type = "Write" /\ sent'[i].client = b
    BY <1>6, <1>7, <1>8 DEF GuardsOK, IsWrite
  <2> QED
    BY <1>6, <2>1, <2>2 DEF GuardsOK, IsWrite
<1>15. Distinct'
  <2>1. sent'[L + 1].addr = a
    BY <1>6, <1>8
  <2>2. \A b \in Clients : \A i \in guards[b] : sent[i].addr # a
    BY <1>2 DEF Distinct
  <2>3. \A b \in Clients : a \notin old[b] /\ (b # c => cur[b] # a)
    BY <1>2 DEF Distinct
  <2>4. \A b \in Clients : a \notin old'[b] /\ a # cur'[b]
    BY <1>2, <1>4, <1>7, <2>3
  <2>5. \A b \in Clients : \A i, j \in guards'[b] :
          sent'[i].addr = sent'[j].addr => i = j
    BY <1>6, <1>7, <2>1, <2>2 DEF Distinct
  <2>6. \A b \in Clients : \A i \in guards'[b] :
          sent'[i].addr # cur'[b] /\ sent'[i].addr \notin old'[b]
    BY <1>4, <1>6, <1>7, <2>1, <2>4 DEF Distinct
  <2>7. \A b \in Clients : cur'[b] \notin old'[b]
    BY <1>7 DEF Distinct
  <2>8. ASSUME NEW b \in Clients, NEW e \in Clients, b # e
        PROVE  \A i \in guards'[b] : /\ \A j \in guards'[e] : sent'[i].addr # sent'[j].addr
                                     /\ sent'[i].addr # cur'[e]
                                     /\ sent'[i].addr \notin old'[e]
    <3>1. \A i \in guards'[b] : \A j \in guards'[e] : sent'[i].addr # sent'[j].addr
      BY <1>6, <1>7, <2>1, <2>2, <2>8 DEF Distinct
    <3>2. \A i \in guards'[b] : sent'[i].addr # cur'[e] /\ sent'[i].addr \notin old'[e]
      BY <1>4, <1>6, <1>7, <2>1, <2>4, <2>8 DEF Distinct
    <3> QED
      BY <3>1, <3>2
  <2>9. ASSUME NEW b \in Clients, NEW e \in Clients, b # e
        PROVE  /\ cur'[b] \notin old'[e]
               /\ cur'[b] # NoAddr => cur'[b] # cur'[e]
               /\ \A x \in old'[b] : x \notin old'[e]
    BY <1>4, <1>7, <2>9 DEF Distinct
  <2> QED
    BY <2>5, <2>6, <2>7, <2>8, <2>9 DEF Distinct
<1>16. FlushOK'
  <2>1. \A b \in Clients : (pc'[b] = "wait") <=> (pc[b] = "wait" /\ b # c)
    BY <1>1, <1>7
  <2>2. \A b \in Clients : pc'[b] = "wait" =>
          /\ flushIx[b] \in 1 .. L
          /\ sent'[flushIx[b]].type = "Flush" /\ sent'[flushIx[b]].client = b
          /\ \A i \in guards'[b] : i < flushIx[b]
          /\ (fcode[b] = "Ongoing") <=> (flushIx[b] > acked)
    BY <1>6, <1>7, <2>1 DEF FlushOK, L
  <2>3. \A i \in acked + 1 .. L + 1 : sent'[i].type = "Flush" =>
          i \in 1 .. L /\ sent'[i] = sent[i] /\ sent[i].client # c
    BY <1>1, <1>6, <1>8 DEF FlushOK, QueueTypeOK, L
  <2>4. \A i \in acked + 1 .. L + 1 : sent'[i].type = "Flush" =>
          pc'[sent'[i].client] = "wait" /\ flushIx[sent'[i].client] = i
    <3> SUFFICES ASSUME NEW i \in acked + 1 .. L + 1, sent'[i].type = "Flush"
                 PROVE  pc'[sent'[i].client] = "wait"
                        /\ flushIx[sent'[i].client] = i
      OBVIOUS
    <3>1. i \in 1 .. L /\ sent'[i] = sent[i] /\ sent[i].client # c
      BY <2>3
    <3>2. i \in acked + 1 .. Len(sent) /\ sent[i].type = "Flush"
      BY <1>6, <3>1 DEF QueueTypeOK, L
    <3>3. pc[sent[i].client] = "wait" /\ flushIx[sent[i].client] = i
      BY <3>2 DEF FlushOK
    <3> QED
      BY <1>6, <2>1, <3>1, <3>3
  <2>5. \A b \in Clients : pc'[b] = "wait" => flushIx[b] \in 1 .. L + 1
    BY <1>6, <2>2
  <2> QED
    BY <1>1, <1>6, <2>2, <2>4, <2>5 DEF FlushOK
<1>17. StatusOK'
  <2> SUFFICES ASSUME ~failed PROVE StatusOK'
    BY <1>1 DEF StatusOK
  <2>1. status'[nx] = "Ongoing" /\ status'[a] = "Ongoing"
    BY <1>1, <1>2, <1>4 DEF HeapTypeOK, StatusOK
  <2>2. \A b \in Clients : \A i \in guards[b] :
          sent[i].addr \in Addrs /\ sent[i].addr # nx
    BY <1>4, <1>6 DEF GuardsOK, L
  <2>3. \A b \in Clients : \A i \in guards'[b] :
          status'[sent'[i].addr] = IF i <= acked THEN "Ok" ELSE "Ongoing"
    <3>1. \A b \in Clients : \A i \in guards[b] :
            status'[sent'[i].addr] = IF i <= acked THEN "Ok" ELSE "Ongoing"
      BY <1>6, <1>9, <2>2 DEF StatusOK
    <3>2. status'[sent'[L + 1].addr] = "Ongoing" /\ ~(L + 1 <= acked)
      BY <1>6, <1>8, <2>1 DEF QueueTypeOK
    <3> QED
      BY <1>7, <3>1, <3>2
  <2>4. \A b \in Clients : \A e \in old'[b] : status'[e] = "Ok"
    <3>1. \A b \in Clients : \A e \in old'[b] : e \in old[b] /\ e \in Addrs /\ e # nx
      BY <1>4, <1>7 DEF ClientTypeOK
    <3> QED
      BY <1>9, <3>1 DEF StatusOK
  <2>5. \A b \in Clients : cur'[b] # NoAddr => status'[cur'[b]] = "Ongoing"
    <3>1. \A b \in Clients \ {c} : cur[b] # NoAddr =>
            cur[b] \in Addrs \ {nx} /\ status[cur[b]] = "Ongoing"
      BY <1>4 DEF StatusOK, ClientTypeOK
    <3> QED
      BY <1>7, <1>9, <2>1, <3>1
  <2> QED
    BY <1>1, <2>3, <2>4, <2>5 DEF StatusOK
<1>18. Covered'
  <2> SUFFICES ASSUME ~failed PROVE Covered'
    BY <1>1 DEF Covered
  <2>1. \A i \in dropped + 1 .. L + 1 :
          sent'[i].type = "Write" => i \in guards'[sent'[i].client]
    <3>1. ASSUME NEW i \in dropped + 1 .. L, sent[i].type = "Write"
          PROVE  i \in guards'[sent'[i].client]
      <4>1. i \in dropped + 1 .. Len(sent) /\ IsWrite(i)
        BY <3>1 DEF IsWrite, L
      <4>2. i \in guards[sent[i].client]
        BY <4>1 DEF Covered
      <4>3. sent'[i] = sent[i] /\ sent[i].client \in Clients
        BY <1>6, <3>1 DEF QueueTypeOK
      <4> QED
        BY <1>7, <4>2, <4>3
    <3>2. L + 1 \in guards'[sent'[L + 1].client]
      BY <1>6, <1>7, <1>8
    <3>3. dropped \in Nat /\ L \in Nat
      BY <1>6 DEF QueueTypeOK
    <3> SUFFICES ASSUME NEW i \in dropped + 1 .. L + 1, sent'[i].type = "Write"
                 PROVE  i \in guards'[sent'[i].client]
      OBVIOUS
    <3>4. CASE i = L + 1
      BY <3>2, <3>4
    <3>5. CASE i # L + 1
      <4>1. i \in dropped + 1 .. L /\ i \in 1 .. L
        BY <3>3, <3>5
      <4> QED
        BY <1>6, <3>1, <4>1
    <3> QED
      BY <3>4, <3>5
  <2>2. \A b \in Clients : pc'[b] = "free" => guards'[b] = {}
    BY <1>7 DEF Covered
  <2> QED
    BY <1>1, <1>6, <2>1, <2>2 DEF Covered, IsWrite
<1> QED
  BY <1>10, <1>11, <1>12, <1>13, <1>14, <1>15, <1>16, <1>17, <1>18

\* Appending a Flush or a Close leaves the guards and their memory alone.
LEMMA SendOtherStep ==
  ASSUME IInv, NEW c \in Clients, NEW r \in Request, Send(r),
         pc[c] \in {"close", "flush"}, r.client = c,
         \/ /\ r.type = "Close" /\ pc' = [pc EXCEPT ![c] = "flush"]
            /\ UNCHANGED <<flushIx, fcode>>
         \/ /\ r.type = "Flush" /\ pc' = [pc EXCEPT ![c] = "wait"]
            /\ flushIx' = [flushIx EXCEPT ![c] = Len(sent) + 1]
            /\ fcode' = [fcode EXCEPT ![c] = "Ongoing"],
         UNCHANGED <<op, ops, cur, spec, upto, guards, old, made, heap,
                     queueVars, fileVars, durable>>
  PROVE  IInv'
<1> USE DEF IInv, TypeOK
<1> DEFINE L == Len(sent)
<1> HIDE DEF L
<1>1. /\ sent' \in Seq(Request) /\ L \in Nat
      /\ Len(sent') = L + 1
      /\ \A i \in 1 .. L : sent'[i] = sent[i]
      /\ sent'[L + 1] = r
      /\ Len(sent') - recvd <= ChanSize
      /\ recvd <= Len(sent') /\ acked <= L
      /\ \A b \in Clients : \A i \in guards[b] : i \in 1 .. L /\ sent'[i] = sent[i]
      /\ \A i \in 1 .. L : sent[i].client \in Clients
  BY SendFacts DEF L
<1>2. /\ pc'[c] \in {"flush", "wait"}
      /\ \A b \in Clients \ {c} : /\ pc'[b] = pc[b] /\ flushIx'[b] = flushIx[b]
                                  /\ fcode'[b] = fcode[b]
  BY DEF ClientTypeOK
<1>3. UNCHANGED <<status, data, recvd, acked, dropped, failed>>
  BY DEF heap, queueVars
<1>4. ClientTypeOK'
  <2>1. pc' \in [Clients -> {"none", "idle", "send", "close", "flush", "wait",
                             "free", "gone"}]
    <3>1. \E p \in {"flush", "wait"} : pc' = [pc EXCEPT ![c] = p]
      OBVIOUS
    <3> QED
      BY <3>1 DEF ClientTypeOK
  <2>2. flushIx' \in [Clients -> 0 .. L + 1]
    <3>1. flushIx' = flushIx \/ flushIx' = [flushIx EXCEPT ![c] = L + 1]
      BY DEF L
    <3>2. flushIx \in [Clients -> 0 .. L + 1]
      BY <1>1 DEF ClientTypeOK, L
    <3> QED
      BY <1>1, <3>1, <3>2
  <2>3. guards' \in [Clients -> SUBSET (1 .. L + 1)]
    BY <1>1 DEF ClientTypeOK, L
  <2>4. fcode' \in [Clients -> {"Ongoing", "Ok", "Error"}]
    BY DEF ClientTypeOK
  <2> QED
    BY <1>1, <2>1, <2>2, <2>3, <2>4 DEF ClientTypeOK
<1>5. HeapTypeOK' /\ QueueTypeOK' /\ FileTypeOK'
  BY <1>1 DEF heap, queueVars, fileVars, HeapTypeOK, QueueTypeOK, FileTypeOK
<1>6. HandleOK'
  BY <1>2, <1>3 DEF HandleOK
<1>7. GuardsOK'
  <2>1. \A i \in 1 .. L + 1 : sent'[i].type = "Write" => sent'[i].addr \in Addrs
    BY <1>1 DEF GuardsOK, IsWrite, L
  <2> QED
    BY <1>1, <2>1 DEF GuardsOK, IsWrite
<1>8. Distinct'
  BY <1>1 DEF Distinct
<1>9. FlushOK'
  <2>1. ASSUME NEW b \in Clients \ {c}, pc[b] = "wait"
        PROVE  /\ flushIx[b] \in 1 .. L
               /\ sent'[flushIx[b]].type = "Flush"
               /\ sent'[flushIx[b]].client = b
               /\ \A i \in guards[b] : i < flushIx[b]
               /\ (fcode[b] = "Ongoing") <=> (flushIx[b] > acked)
    BY <1>1, <2>1 DEF FlushOK, L
  <2>2. pc'[c] = "wait" =>
          /\ r.type = "Flush" /\ flushIx'[c] = L + 1 /\ fcode'[c] = "Ongoing"
          /\ \A i \in guards[c] : i < L + 1
          /\ L + 1 > acked
    <3> SUFFICES ASSUME pc'[c] = "wait"
                 PROVE  /\ r.type = "Flush" /\ flushIx'[c] = L + 1
                        /\ fcode'[c] = "Ongoing"
                        /\ \A i \in guards[c] : i < L + 1
                        /\ L + 1 > acked
      OBVIOUS
    <3>1. pc' # [pc EXCEPT ![c] = "flush"]
      BY DEF ClientTypeOK
    <3>2. /\ r.type = "Flush" /\ flushIx' = [flushIx EXCEPT ![c] = L + 1]
          /\ fcode' = [fcode EXCEPT ![c] = "Ongoing"]
      BY <3>1 DEF L
    <3>3. flushIx'[c] = L + 1 /\ fcode'[c] = "Ongoing"
      BY <3>2 DEF ClientTypeOK
    <3>4. \A i \in guards[c] : i < L + 1
      BY <1>1
    <3>5. L + 1 > acked
      BY <1>1 DEF QueueTypeOK
    <3> QED
      BY <3>2, <3>3, <3>4, <3>5
  <2>3. ASSUME NEW i \in acked + 1 .. L, sent[i].type = "Flush"
        PROVE  /\ sent[i].client \in Clients \ {c}
               /\ pc'[sent[i].client] = "wait"
               /\ flushIx'[sent[i].client] = i
    <3>1. pc[sent[i].client] = "wait" /\ flushIx[sent[i].client] = i
      BY <2>3 DEF FlushOK, L
    <3>2. sent[i].client \in Clients
      BY <1>1, <2>3 DEF QueueTypeOK
    <3> QED
      BY <1>2, <3>1, <3>2
  <2>4. r.type = "Flush" => pc'[c] = "wait" /\ flushIx'[c] = L + 1
    BY DEF ClientTypeOK, L
  <2>5. ASSUME NEW i \in acked + 1 .. L + 1, sent'[i].type = "Flush"
        PROVE  pc'[sent'[i].client] = "wait" /\ flushIx'[sent'[i].client] = i
    <3>1. CASE i = L + 1
      BY <1>1, <2>4, <2>5, <3>1
    <3>2. CASE i # L + 1
      <4>1. i \in acked + 1 .. L /\ sent'[i] = sent[i]
        BY <1>1, <3>2 DEF QueueTypeOK
      <4> QED
        BY <2>3, <2>5, <4>1
    <3> QED
      BY <3>1, <3>2
  <2>6. ASSUME NEW b \in Clients, pc'[b] = "wait"
        PROVE  /\ flushIx'[b] \in 1 .. L + 1
               /\ sent'[flushIx'[b]].type = "Flush"
               /\ sent'[flushIx'[b]].client = b
               /\ \A i \in guards[b] : i < flushIx'[b]
               /\ (fcode'[b] = "Ongoing") <=> (flushIx'[b] > acked)
    <3>1. CASE b = c
      BY <1>1, <2>2, <2>6, <3>1
    <3>2. CASE b # c
      BY <1>1, <1>2, <2>1, <2>6, <3>2
    <3> QED
      BY <3>1, <3>2
  <2> QED
    BY <1>1, <1>3, <2>5, <2>6 DEF FlushOK
<1>10. StatusOK'
  BY <1>1, <1>3 DEF StatusOK
<1>11. Covered'
  <2>1. \A i \in dropped + 1 .. L + 1 : sent'[i].type = "Write" =>
          i \in 1 .. L /\ sent'[i] = sent[i]
    BY <1>1 DEF QueueTypeOK
  <2> QED
    BY <1>1, <1>2, <1>3, <2>1 DEF Covered, IsWrite, L
<1> QED
  BY <1>4, <1>5, <1>6, <1>7, <1>8, <1>9, <1>10, <1>11

LEMMA SendCloseStep ==
  ASSUME IInv, NEW c \in Clients, SendClose(c)
  PROVE  IInv'
<1> DEFINE r == [type |-> "Close", client |-> c, addr |-> NoAddr,
                 spec |-> "Append", flush |-> FALSE]
<1>1. r \in Request /\ r.type = "Close" /\ r.client = c
  BY DEF Request
<1>2. /\ Send(r) /\ pc[c] = "close" /\ pc' = [pc EXCEPT ![c] = "flush"]
      /\ UNCHANGED <<flushIx, fcode>>
      /\ UNCHANGED <<op, ops, cur, spec, upto, guards, old, made, heap,
                     queueVars, fileVars, durable>>
  BY DEF SendClose
<1> HIDE DEF r
<1> QED
  BY <1>1, <1>2, SendOtherStep

LEMMA SendFlushStep ==
  ASSUME IInv, NEW c \in Clients, SendFlush(c)
  PROVE  IInv'
<1> DEFINE r == [type |-> "Flush", client |-> c, addr |-> NoAddr,
                 spec |-> "Append", flush |-> FALSE]
<1>1. r \in Request /\ r.type = "Flush" /\ r.client = c
  BY DEF Request
<1>2. /\ Send(r) /\ pc[c] = "flush" /\ pc' = [pc EXCEPT ![c] = "wait"]
      /\ flushIx' = [flushIx EXCEPT ![c] = Len(sent) + 1]
      /\ fcode' = [fcode EXCEPT ![c] = "Ongoing"]
      /\ UNCHANGED <<op, ops, cur, spec, upto, guards, old, made, heap,
                     queueVars, fileVars, durable>>
  BY DEF SendFlush
<1> HIDE DEF r
<1> QED
  BY <1>1, <1>2, SendOtherStep

LEMMA FlushReturnStep ==
  ASSUME IInv, NEW c \in Clients, FlushReturn(c)
  PROVE  IInv'
<1> USE DEF IInv, TypeOK
<1> DEFINE ok == fcode[c] = "Ok"
<1>1. /\ pc[c] = "wait" /\ fcode[c] # "Ongoing"
      /\ guards' = [guards EXCEPT ![c] = {}]
      /\ pc' = [pc EXCEPT ![c] = AfterFlush(op[c], ok)]
      /\ UNCHANGED <<cur, upto, old, flushIx, fcode, status, data, sent, recvd,
                     acked, dropped, failed>>
  BY DEF FlushReturn, Continue, heap, queueVars
<1>2. AfterFlush(op[c], ok) \in {"idle", "free", "flush"}
  BY DEF AfterFlush
<1>3. /\ pc'[c] \in {"idle", "free", "flush"} /\ guards'[c] = {}
      /\ \A b \in Clients \ {c} : pc'[b] = pc[b] /\ guards'[b] = guards[b]
  BY <1>1, <1>2 DEF ClientTypeOK
<1>4. \A i \in guards[c] : i <= dropped
  <2>1. flushIx[c] <= acked /\ \A i \in guards[c] : i < flushIx[c]
    BY <1>1 DEF FlushOK, ClientTypeOK, QueueTypeOK
  <2> QED
    BY <2>1 DEF ClientTypeOK, QueueTypeOK
<1>5. ClientTypeOK'
  <2>1. OpAfterFlush(op[c], ok) \in {"shutdown", "rootdrop", "drop"}
    BY DEF OpAfterFlush
  <2>2. op' \in [Clients -> {"none", "write", "flush", "close", "shutdown",
                             "drop", "rootclose", "rootdrop"}]
    BY <2>1 DEF FlushReturn, Continue, ClientTypeOK
  <2>3. durable' \in [Clients -> Nat]
    BY DEF FlushReturn, ClientTypeOK
  <2>4. guards' \in [Clients -> SUBSET (1 .. Len(sent))]
    BY <1>1 DEF ClientTypeOK
  <2>5. pc' \in [Clients -> {"none", "idle", "send", "close", "flush", "wait",
                             "free", "gone"}]
    BY <1>1, <1>2 DEF ClientTypeOK
  <2>6. UNCHANGED <<ops, spec, made>>
    BY DEF FlushReturn
  <2> QED
    BY <1>1, <2>2, <2>3, <2>4, <2>5, <2>6 DEF ClientTypeOK
<1>6. HeapTypeOK' /\ QueueTypeOK' /\ FileTypeOK'
  BY DEF FlushReturn, heap, queueVars, fileVars, HeapTypeOK, QueueTypeOK,
         FileTypeOK
<1>7. HandleOK'
  BY <1>1, <1>3 DEF HandleOK
<1>8. GuardsOK'
  BY <1>1, <1>3 DEF GuardsOK, IsWrite
<1>9. Distinct'
  BY <1>1, <1>3 DEF Distinct
<1>10. FlushOK'
  <2>1. ASSUME NEW i \in acked + 1 .. Len(sent), sent[i].type = "Flush"
        PROVE  pc'[sent[i].client] = "wait" /\ flushIx[sent[i].client] = i
    <3>1. pc[sent[i].client] = "wait" /\ flushIx[sent[i].client] = i
      BY <2>1 DEF FlushOK
    <3>2. sent[i].client \in Clients
      BY RequestFacts DEF QueueTypeOK
    <3>3. sent[i].client # c
      BY <1>1, <3>1 DEF FlushOK, QueueTypeOK
    <3> QED
      BY <1>3, <3>1, <3>2, <3>3
  <2> QED
    BY <1>1, <1>3, <2>1 DEF FlushOK
<1>11. StatusOK'
  BY <1>1, <1>3 DEF StatusOK
<1>12. Covered'
  <2>1. ASSUME ~failed, NEW i \in dropped + 1 .. Len(sent), IsWrite(i)
        PROVE  i \in guards'[sent[i].client]
    <3>1. i \in guards[sent[i].client] /\ sent[i].client \in Clients
      BY <2>1, RequestFacts DEF Covered, QueueTypeOK
    <3>2. sent[i].client # c
      BY <1>4, <3>1 DEF QueueTypeOK
    <3> QED
      BY <1>3, <3>1, <3>2
  <2> QED
    BY <1>1, <1>3, <2>1 DEF Covered, IsWrite
<1> QED
  BY <1>5, <1>6, <1>7, <1>8, <1>9, <1>10, <1>11, <1>12

LEMMA FreeHandleStep ==
  ASSUME IInv, NEW c \in Clients, FreeHandle(c)
  PROVE  IInv'
<1> USE DEF IInv, TypeOK
<1>1. /\ pc[c] = "free"
      /\ guards' = [guards EXCEPT ![c] = {}]
      /\ old' = [old EXCEPT ![c] = {}]
      /\ cur' = [cur EXCEPT ![c] = NoAddr]
      /\ status' = [status EXCEPT ![cur[c]] = "Ok"]
      /\ UNCHANGED <<upto, flushIx, fcode, data, sent, recvd, acked, dropped,
                     failed>>
  BY DEF FreeHandle, queueVars
<1>2. /\ pc'[c] \in {"none", "gone"} /\ guards'[c] = {} /\ old'[c] = {}
      /\ cur'[c] = NoAddr
      /\ \A b \in Clients \ {c} : /\ pc'[b] = pc[b] /\ guards'[b] = guards[b]
                                  /\ old'[b] = old[b] /\ cur'[b] = cur[b]
  BY <1>1 DEF FreeHandle, Continue, ClientTypeOK
<1>3. cur[c] \in Addrs /\ cur[c] # NoAddr
  BY <1>1, BatchFacts
<1>4. \A e \in Addrs \ {cur[c]} : status'[e] = status[e]
  BY <1>1 DEF HeapTypeOK
<1>5. ClientTypeOK'
  <2>1. /\ pc' \in [Clients -> {"none", "idle", "send", "close", "flush",
                                "wait", "free", "gone"}]
        /\ op' \in [Clients -> {"none", "write", "flush", "close", "shutdown",
                                "drop", "rootclose", "rootdrop"}]
    BY DEF FreeHandle, Continue, ClientTypeOK
  <2>2. /\ cur' \in [Clients -> Addrs \cup {NoAddr}]
        /\ old' \in [Clients -> SUBSET Addrs]
        /\ guards' \in [Clients -> SUBSET (1 .. Len(sent))]
    BY <1>1 DEF ClientTypeOK
  <2>3. UNCHANGED <<ops, spec, made, durable>>
    BY DEF FreeHandle
  <2> QED
    BY <1>1, <2>1, <2>2, <2>3 DEF ClientTypeOK
<1>6. HeapTypeOK' /\ QueueTypeOK' /\ FileTypeOK'
  BY <1>1 DEF FreeHandle, queueVars, fileVars, HeapTypeOK, QueueTypeOK,
              FileTypeOK
<1>7. HandleOK'
  BY <1>1, <1>2 DEF HandleOK
<1>8. GuardsOK'
  BY <1>1, <1>2 DEF GuardsOK, IsWrite
<1>9. Distinct'
  <2>1. \A b \in Clients : NoAddr \notin old[b]
    BY ConstantsOK DEF ConstantsOK, ClientTypeOK
  <2>2. \A b \in Clients : \A i \in guards[b] : sent[i].addr # NoAddr
    BY ConstantsOK DEF ConstantsOK, GuardsOK, ClientTypeOK
  <2> QED
    BY <1>1, <1>2, <2>1, <2>2 DEF Distinct
<1>10. FlushOK'
  <2>1. \A b \in Clients : (pc'[b] = "wait") <=> (pc[b] = "wait")
    BY <1>1, <1>2
  <2>2. \A i \in acked + 1 .. Len(sent) : sent[i].client \in Clients
    BY RequestFacts DEF QueueTypeOK
  <2> QED
    BY <1>1, <1>2, <2>1, <2>2 DEF FlushOK
<1>11. StatusOK'
  <2>1. \A b \in Clients : \A i \in guards'[b] :
          i \in guards[b] /\ sent[i].addr \in Addrs \ {cur[c]}
    <3>1. \A b \in Clients : guards'[b] \subseteq guards[b] /\ guards'[c] = {}
      BY <1>2
    <3>2. \A b \in Clients : \A i \in guards[b] : sent[i].addr \in Addrs
      BY DEF GuardsOK, ClientTypeOK
    <3>3. \A b \in Clients \ {c} : \A i \in guards[b] : sent[i].addr # cur[c]
      BY DEF Distinct
    <3> QED
      BY <3>1, <3>2, <3>3
  <2>2. \A b \in Clients : \A e \in old'[b] : e \in old[b] /\ e \in Addrs \ {cur[c]}
    BY <1>2 DEF ClientTypeOK, Distinct
  <2>3. \A b \in Clients : cur'[b] # NoAddr =>
          cur'[b] = cur[b] /\ cur[b] \in Addrs \ {cur[c]}
    BY <1>2 DEF ClientTypeOK, Distinct
  <2> QED
    BY <1>1, <1>4, <2>1, <2>2, <2>3 DEF StatusOK
<1>12. Covered'
  <2>1. ASSUME ~failed, NEW i \in dropped + 1 .. Len(sent), IsWrite(i)
        PROVE  i \in guards'[sent[i].client]
    <3>1. i \in guards[sent[i].client] /\ sent[i].client \in Clients
      BY <2>1, RequestFacts DEF Covered, QueueTypeOK
    <3>2. sent[i].client # c
      BY <1>1, <2>1, <3>1 DEF Covered
    <3> QED
      BY <1>2, <3>1, <3>2
  <2> QED
    BY <1>1, <1>2, <2>1 DEF Covered, IsWrite
<1> QED
  BY <1>5, <1>6, <1>7, <1>8, <1>9, <1>10, <1>11, <1>12

\* A receiver step that answers and drops nothing keeps the protocol.
LEMMA ReceiverStep ==
  ASSUME IInv, UNCHANGED <<clientVars, fcode, heap, sent, acked, dropped,
                           durable>>,
         failed' = failed \/ failed'
  PROVE  /\ HandleOK' /\ GuardsOK' /\ Distinct' /\ FlushOK' /\ StatusOK'
         /\ Covered' /\ ClientTypeOK' /\ HeapTypeOK'
<1> USE DEF IInv, TypeOK, clientVars, heap
<1>1. ClientTypeOK' /\ HeapTypeOK'
  BY DEF ClientTypeOK, HeapTypeOK
<1>2. HandleOK' /\ GuardsOK'
  BY DEF HandleOK, GuardsOK, IsWrite
<1>3. Distinct'
  BY DEF Distinct
<1>4. FlushOK'
  BY DEF FlushOK
<1>5. StatusOK'
  BY DEF StatusOK
<1>6. Covered'
  BY DEF Covered, IsWrite
<1> QED
  BY <1>1, <1>2, <1>3, <1>4, <1>5, <1>6

\* Request::size of a request in the channel is a number.
LEMMA SizeFacts ==
  ASSUME TypeOK, GuardsOK, NEW i \in 1 .. Len(sent)
  PROVE  Size(i) \in Nat
<1>1. CASE IsWrite(i)
  <2>1. data[sent[i].addr] \in Seq(Unit)
    BY <1>1 DEF GuardsOK, TypeOK, HeapTypeOK
  <2> QED
    BY <1>1, <2>1 DEF Size
<1> QED
  BY <1>1 DEF Size

LEMMA RecvStep ==
  ASSUME IInv, Recv
  PROVE  IInv'
<1> USE DEF IInv, TypeOK
<1>1. /\ HandleOK' /\ GuardsOK' /\ Distinct' /\ FlushOK' /\ StatusOK'
      /\ Covered' /\ ClientTypeOK' /\ HeapTypeOK'
  BY ReceiverStep DEF Recv
<1>2. QueueTypeOK'
  <2>1. recvd + 1 \in 1 .. Len(sent)
    BY DEF Recv, QueueTypeOK
  <2>2. bytes' \in Nat
    BY <2>1, SizeFacts DEF Recv
  <2>3. rstate' \in {"recv", "more", "open", "issue", "ack", "exit"}
    BY DEF Recv, Loop
  <2>4. close' \in BOOLEAN
    BY DEF Recv
  <2> QED
    BY <2>1, <2>2, <2>3, <2>4, ConstantsOK DEF ConstantsOK, Recv, QueueTypeOK
<1>3. FileTypeOK'
  BY DEF Recv, fileVars, FileTypeOK
<1> QED
  BY <1>1, <1>2, <1>3

LEMMA TryRecvStep ==
  ASSUME IInv, TryRecv
  PROVE  IInv'
<1> USE DEF IInv, TypeOK
<1>1. /\ HandleOK' /\ GuardsOK' /\ Distinct' /\ FlushOK' /\ StatusOK'
      /\ Covered' /\ ClientTypeOK' /\ HeapTypeOK'
  BY ReceiverStep DEF TryRecv
<1>2. QueueTypeOK'
  <2>1. rstate' \in {"recv", "more", "open", "issue", "ack", "exit"}
    BY DEF TryRecv, Loop
  <2>4. UNCHANGED <<sent, acked, dropped, issued, failed>>
    BY DEF TryRecv
  <2>5. \/ recvd = Len(sent) /\ UNCHANGED <<recvd, bytes, close>>
        \/ /\ recvd < Len(sent)
           /\ recvd' = recvd + 1 /\ bytes' = bytes + Size(recvd + 1)
           /\ close' = (close \/ sent[recvd + 1].type = "Close")
    BY DEF TryRecv
  <2>6. recvd \in Nat /\ Len(sent) \in Nat
    BY DEF QueueTypeOK
  <2>2. CASE recvd = Len(sent)
    <3>1. UNCHANGED <<recvd, bytes, close>>
      BY <2>2, <2>5, <2>6
    <3> QED
      BY <2>1, <2>4, <3>1 DEF QueueTypeOK
  <2>3. CASE recvd < Len(sent)
    <3>1. recvd + 1 \in 1 .. Len(sent)
      BY <2>3 DEF QueueTypeOK
    <3>2. /\ recvd' = recvd + 1 /\ bytes' = bytes + Size(recvd + 1)
          /\ close' = (close \/ sent[recvd + 1].type = "Close")
      BY <2>3, <2>5, <2>6
    <3>3. bytes' \in Nat /\ close' \in BOOLEAN
      BY <3>1, <3>2, SizeFacts DEF QueueTypeOK
    <3> QED
      BY <2>1, <2>4, <3>1, <3>2, <3>3, ConstantsOK DEF ConstantsOK, QueueTypeOK
  <2> QED
    BY <2>2, <2>3 DEF QueueTypeOK
<1>3. FileTypeOK'
  BY DEF TryRecv, fileVars, FileTypeOK
<1> QED
  BY <1>1, <1>2, <1>3

LEMMA OpenFileStep ==
  ASSUME IInv, OpenFile
  PROVE  IInv'
<1> USE DEF IInv, TypeOK
<1>1. /\ HandleOK' /\ GuardsOK' /\ Distinct' /\ FlushOK' /\ StatusOK'
      /\ Covered' /\ ClientTypeOK' /\ HeapTypeOK'
  BY ReceiverStep DEF OpenFile, Fail
<1>2. PICK i \in Batch :
        /\ \/ /\ writer' = "open" /\ rstate' = "issue"
              /\ wpos' = IF OpenSpec(i) = "Append" THEN Len(file) ELSE 0
              /\ opened' = [spec |-> OpenSpec(i), at |-> Len(log)]
              /\ UNCHANGED failed
           \/ Fail /\ UNCHANGED <<wpos, opened>>
        /\ UNCHANGED <<sent, recvd, acked, dropped, issued, bytes, close, file,
                       log, closedIx>>
  BY DEF OpenFile
<1>3. OpenSpec(i) \in {"Trunc", "Append"}
  <2>1. i \in 1 .. Len(sent)
    BY DEF Batch, QueueTypeOK
  <2> QED
    BY <2>1, RequestFacts DEF OpenSpec
<1>4. QueueTypeOK'
  BY <1>2 DEF Fail, QueueTypeOK
<1>5. FileTypeOK'
  <2>1. Len(file) \in Nat /\ Len(log) \in Nat
    BY DEF FileTypeOK
  <2>2. /\ wpos' \in Nat /\ wpos' <= Len(file)
        /\ opened' \in [spec : {"Trunc", "Append"}, at : Nat]
    BY <1>2, <1>3, <2>1 DEF FileTypeOK
  <2> QED
    BY <1>2, <2>2 DEF Fail, FileTypeOK
<1> QED
  BY <1>1, <1>4, <1>5

\* Writing units keeps the file and the log sequences.
LEMMA PutFacts ==
  ASSUME FileTypeOK, NEW us \in Seq(Unit), Put(us)
  PROVE  /\ log' \in Seq(Unit) /\ wpos' \in Nat
         /\ file' \in Seq(Unit \cup STRING) /\ wpos' <= Len(file')
         /\ UNCHANGED <<opened, closedIx>>
<1> DEFINE at == IF opened.spec = "Append" THEN Len(file) ELSE wpos
           n == IF wpos' > Len(file) THEN wpos' ELSE Len(file)
<1>1. /\ log' = log \o us /\ wpos' = at + Len(us)
      /\ file' = [k \in 1 .. n |->
                    IF at < k /\ k <= wpos' THEN us[k - at] ELSE file[k]]
      /\ UNCHANGED <<opened, closedIx>>
  BY DEF Put
<1>2. at \in Nat /\ Len(us) \in Nat /\ Len(file) \in Nat /\ at <= Len(file)
  BY DEF FileTypeOK
<1>3. log' \in Seq(Unit)
  BY <1>1 DEF FileTypeOK
<1> HIDE DEF at
<1>4. wpos' \in Nat /\ n \in Nat
  BY <1>1, <1>2
<1>5. \A k \in 1 .. n :
        (IF at < k /\ k <= wpos' THEN us[k - at] ELSE file[k]) \in Unit \cup STRING
  <2> SUFFICES ASSUME NEW k \in 1 .. n
               PROVE  (IF at < k /\ k <= wpos' THEN us[k - at] ELSE file[k])
                        \in Unit \cup STRING
    OBVIOUS
  <2>1. CASE at < k /\ k <= wpos'
    <3>1. k - at \in 1 .. Len(us)
      BY <1>1, <1>2, <1>4, <2>1
    <3>2. us[k - at] \in Unit
      BY <3>1
    <3> QED
      BY <2>1, <3>2
  <2>2. CASE ~(at < k /\ k <= wpos')
    <3>1. k \in 1 .. Len(file)
      BY <1>1, <1>2, <1>4, <2>2
    <3>2. file[k] \in Unit \cup STRING
      BY <3>1 DEF FileTypeOK
    <3> QED
      BY <2>2, <3>2
  <2> QED
    BY <2>1, <2>2
<1>6. file' \in Seq(Unit \cup STRING) /\ Len(file') = n
  <2> HIDE DEF n
  <2> QED
    BY <1>1, <1>4, <1>5
<1>7. wpos' <= n
  BY <1>2, <1>4
<1> QED
  BY <1>1, <1>3, <1>4, <1>6, <1>7

LEMMA IssueWriteStep ==
  ASSUME IInv, IssueWrite
  PROVE  IInv'
<1> USE DEF IInv, TypeOK
<1>1. PICK i \in issued + 1 .. recvd :
        /\ IsWrite(i)
        /\ \/ /\ Put(data[sent[i].addr])
              /\ UNCHANGED <<rstate, failed, writer>>
           \/ /\ \E k \in 0 .. Len(data[sent[i].addr]) - 1 :
                   Put(SubSeq(data[sent[i].addr], 1, k))
              /\ Fail
        /\ issued' = i
        /\ UNCHANGED <<clientVars, fcode, heap, sent, recvd, acked, dropped,
                       bytes, close, durable>>
  BY DEF IssueWrite
<1>2. /\ HandleOK' /\ GuardsOK' /\ Distinct' /\ FlushOK' /\ StatusOK'
      /\ Covered' /\ ClientTypeOK' /\ HeapTypeOK'
  BY <1>1, ReceiverStep DEF Fail
<1>3. data[sent[i].addr] \in Seq(Unit)
  <2>1. i \in 1 .. Len(sent)
    BY DEF QueueTypeOK
  <2> QED
    BY <1>1, <2>1 DEF GuardsOK, HeapTypeOK
<1>4. QueueTypeOK'
  <2>1. issued' \in Nat
    BY <1>1 DEF QueueTypeOK
  <2>2. UNCHANGED <<rstate, failed>> \/ (failed' = TRUE /\ rstate' = "ack")
    BY <1>1 DEF Fail
  <2> QED
    BY <1>1, <2>1, <2>2 DEF QueueTypeOK
<1>5. \E us \in Seq(Unit) : Put(us)
  <2>1. ASSUME NEW k \in 0 .. Len(data[sent[i].addr]) - 1
        PROVE  SubSeq(data[sent[i].addr], 1, k) \in Seq(Unit)
    BY <1>3, SubSeqProperties
  <2> QED
    BY <1>1, <1>3, <2>1
<1>6. FileTypeOK'
  <2>1. writer' \in {"closed", "open"}
    BY <1>1 DEF Fail, FileTypeOK
  <2> QED
    BY <1>5, <2>1, PutFacts DEF FileTypeOK
<1> QED
  BY <1>2, <1>4, <1>6

LEMMA IssueFlushStep ==
  ASSUME IInv, IssueFlush
  PROVE  IInv'
<1> USE DEF IInv, TypeOK
<1>1. /\ HandleOK' /\ GuardsOK' /\ Distinct' /\ FlushOK' /\ StatusOK'
      /\ Covered' /\ ClientTypeOK' /\ HeapTypeOK'
  BY ReceiverStep DEF IssueFlush, Fail
<1>2. QueueTypeOK' /\ FileTypeOK'
  BY DEF IssueFlush, Fail, QueueTypeOK, FileTypeOK
<1> QED
  BY <1>1, <1>2

LEMMA SetCodeStep ==
  ASSUME IInv, SetCode
  PROVE  IInv'
<1> USE DEF IInv, TypeOK
<1> DEFINE i == acked + 1
<1>1. /\ acked = dropped /\ acked < recvd /\ acked' = i
      /\ status' = IF IsWrite(i) THEN [status EXCEPT ![sent[i].addr] = Code]
                                 ELSE status
      /\ fcode' = IF sent[i].type = "Flush"
                  THEN [fcode EXCEPT ![sent[i].client] = Code] ELSE fcode
      /\ UNCHANGED <<pc, op, ops, cur, spec, upto, guards, old, flushIx, made,
                     data, sent, recvd, dropped, failed, durable>>
  BY DEF SetCode, MayAnswer, clientVars
<1>2. Code \in {"Ok", "Error"} /\ (~failed => Code = "Ok")
  BY DEF Code
<1>3. i \in 1 .. Len(sent) /\ i \in dropped + 1 .. Len(sent)
  BY <1>1 DEF QueueTypeOK
<1>4. /\ sent[i].client \in Clients
      /\ IsWrite(i) => sent[i].addr \in Addrs
  BY <1>3, RequestFacts DEF GuardsOK
<1>5. ClientTypeOK'
  <2>1. fcode' \in [Clients -> {"Ongoing", "Ok", "Error"}]
    BY <1>1, <1>2 DEF ClientTypeOK
  <2> QED
    BY <1>1, <2>1 DEF ClientTypeOK
<1>6. HeapTypeOK'
  <2>1. status' \in [Addrs -> {"Ongoing", "Ok", "Error"}]
    BY <1>1, <1>2 DEF HeapTypeOK
  <2> QED
    BY <1>1, <2>1 DEF HeapTypeOK
<1>7. QueueTypeOK' /\ FileTypeOK'
  BY <1>1, <1>3 DEF SetCode, fileVars, QueueTypeOK, FileTypeOK
<1>8. HandleOK' /\ GuardsOK' /\ Distinct'
  BY <1>1 DEF HandleOK, GuardsOK, Distinct, IsWrite
<1>9. FlushOK'
  <2>1. ASSUME NEW j \in acked' + 1 .. Len(sent), sent[j].type = "Flush"
        PROVE  pc[sent[j].client] = "wait" /\ flushIx[sent[j].client] = j
    BY <1>1, <2>1 DEF FlushOK, QueueTypeOK
  <2>2. ASSUME NEW c \in Clients, pc[c] = "wait"
        PROVE  (fcode'[c] = "Ongoing") <=> (flushIx[c] > acked')
    <3>1. CASE flushIx[c] = i
      <4>1. sent[i].type = "Flush" /\ sent[i].client = c
        BY <2>2, <3>1 DEF FlushOK
      <4>2. fcode'[c] = Code
        BY <1>1, <4>1 DEF ClientTypeOK
      <4> QED
        BY <1>1, <1>2, <3>1, <4>2 DEF QueueTypeOK
    <3>2. CASE flushIx[c] # i
      <4>1. sent[i].type = "Flush" => sent[i].client # c
        BY <1>1, <1>3, <3>2 DEF FlushOK, QueueTypeOK
      <4>2. fcode'[c] = fcode[c]
        BY <1>1, <4>1 DEF ClientTypeOK
      <4>3. (fcode[c] = "Ongoing") <=> (flushIx[c] > acked)
        BY <2>2 DEF FlushOK
      <4> QED
        BY <1>1, <3>2, <4>2, <4>3 DEF QueueTypeOK, ClientTypeOK
    <3> QED
      BY <3>1, <3>2
  <2> QED
    BY <1>1, <2>1, <2>2 DEF FlushOK
<1>10. StatusOK'
  <2> SUFFICES ASSUME ~failed PROVE StatusOK'
    BY <1>1 DEF StatusOK
  <2>1. CASE IsWrite(i)
    <3> DEFINE d == sent[i].client
    <3>1. i \in guards[d] /\ d \in Clients
      BY <1>3, <1>4, <2>1 DEF Covered
    <3>2. /\ status'[sent[i].addr] = "Ok"
          /\ \A e \in Addrs \ {sent[i].addr} : status'[e] = status[e]
      BY <1>1, <1>2, <1>4, <2>1 DEF HeapTypeOK
    <3>3. ASSUME NEW c \in Clients, NEW j \in guards[c]
          PROVE  status'[sent[j].addr] = IF j <= acked' THEN "Ok" ELSE "Ongoing"
      <4>1. j \in Nat /\ sent[j].addr \in Addrs
        BY DEF ClientTypeOK, GuardsOK
      <4>2. CASE j = i
        BY <1>1, <3>2, <4>2 DEF QueueTypeOK
      <4>3. CASE j # i
        <5>1. sent[j].addr # sent[i].addr
          BY <3>1, <4>3 DEF Distinct
        <5>2. status'[sent[j].addr] = IF j <= acked THEN "Ok" ELSE "Ongoing"
          BY <3>2, <4>1, <5>1 DEF StatusOK
        <5> QED
          BY <1>1, <4>1, <4>3, <5>2 DEF QueueTypeOK
      <4> QED
        BY <4>2, <4>3
    <3>4. ASSUME NEW c \in Clients, NEW e \in old[c]
          PROVE  status'[e] = "Ok"
      BY <3>2 DEF StatusOK, ClientTypeOK
    <3>5. ASSUME NEW c \in Clients, cur[c] # NoAddr
          PROVE  status'[cur[c]] = "Ongoing"
      <4>1. cur[c] # sent[i].addr
        BY <3>1, <3>5 DEF Distinct
      <4>2. cur[c] \in Addrs
        BY <3>5 DEF ClientTypeOK
      <4> QED
        BY <3>2, <3>5, <4>1, <4>2 DEF StatusOK
    <3> QED
      BY <1>1, <3>3, <3>4, <3>5 DEF StatusOK
  <2>2. CASE ~IsWrite(i)
    <3>1. \A c \in Clients : \A j \in guards[c] : j # i /\ j \in Nat
      BY <2>2 DEF GuardsOK, ClientTypeOK
    <3>2. \A c \in Clients : \A j \in guards[c] : (j <= acked') <=> (j <= acked)
      BY <1>1, <3>1 DEF QueueTypeOK
    <3> QED
      BY <1>1, <2>2, <3>2 DEF StatusOK
  <2> QED
    BY <2>1, <2>2
<1>11. Covered'
  BY <1>1 DEF Covered, IsWrite
<1> QED
  BY <1>5, <1>6, <1>7, <1>8, <1>9, <1>10, <1>11

LEMMA DropRequestStep ==
  ASSUME IInv, DropRequest
  PROVE  IInv'
<1> USE DEF IInv, TypeOK
<1>1. /\ acked = dropped + 1 /\ dropped' = acked
      /\ UNCHANGED <<pc, op, ops, cur, spec, upto, guards, old, flushIx, made,
                     fcode, status, data, sent, acked, failed, durable>>
  BY DEF DropRequest, clientVars, heap
<1>2. ClientTypeOK' /\ HeapTypeOK' /\ FileTypeOK'
  BY <1>1 DEF DropRequest, fileVars, ClientTypeOK, HeapTypeOK, FileTypeOK
<1>3. QueueTypeOK'
  BY <1>1 DEF DropRequest, QueueTypeOK
<1>4. HandleOK' /\ GuardsOK' /\ Distinct' /\ FlushOK' /\ StatusOK'
  BY <1>1 DEF HandleOK, GuardsOK, Distinct, FlushOK, StatusOK, IsWrite
<1>5. Covered'
  BY <1>1 DEF Covered, IsWrite, QueueTypeOK
<1> QED
  BY <1>2, <1>3, <1>4, <1>5

LEMMA EndBatchStep ==
  ASSUME IInv, EndBatch
  PROVE  IInv'
<1> USE DEF IInv, TypeOK
<1>1. /\ HandleOK' /\ GuardsOK' /\ Distinct' /\ FlushOK' /\ StatusOK'
      /\ Covered' /\ ClientTypeOK' /\ HeapTypeOK'
  BY ReceiverStep DEF EndBatch
<1>2. QueueTypeOK' /\ FileTypeOK'
  BY DEF EndBatch, QueueTypeOK, FileTypeOK
<1> QED
  BY <1>1, <1>2

LEMMA ExitStep ==
  ASSUME IInv, Exit
  PROVE  IInv'
<1> USE DEF IInv, TypeOK
<1>1. /\ HandleOK' /\ GuardsOK' /\ Distinct' /\ FlushOK' /\ StatusOK'
      /\ Covered' /\ ClientTypeOK' /\ HeapTypeOK'
  BY ReceiverStep DEF Exit
<1>2. QueueTypeOK' /\ FileTypeOK'
  BY DEF Exit, fileVars, QueueTypeOK, FileTypeOK
<1> QED
  BY <1>1, <1>2

LEMMA StutterStep ==
  ASSUME IInv, UNCHANGED vars
  PROVE  IInv'
<1> USE DEF IInv, TypeOK, vars, queueVars, fileVars
<1>1. /\ HandleOK' /\ GuardsOK' /\ Distinct' /\ FlushOK' /\ StatusOK'
      /\ Covered' /\ ClientTypeOK' /\ HeapTypeOK'
  BY ReceiverStep
<1>2. QueueTypeOK' /\ FileTypeOK'
  BY DEF QueueTypeOK, FileTypeOK
<1> QED
  BY <1>1, <1>2

------------------------------------------------------------------------------
LEMMA InitInv == Init => IInv
<1> SUFFICES ASSUME Init PROVE IInv
  OBVIOUS
<1> USE DEF Init
<1>1. ClientTypeOK
  BY ConstantsOK DEF ConstantsOK, ClientTypeOK
<1>2. HeapTypeOK
  BY DEF HeapTypeOK
<1>3. QueueTypeOK
  <2>1. sent \in Seq(Request) /\ Len(sent) = 0
    OBVIOUS
  <2>2. /\ recvd = 0 /\ acked = 0 /\ dropped = 0 /\ issued = 0 /\ bytes = 0
        /\ close = FALSE /\ failed = FALSE /\ rstate = "recv"
    OBVIOUS
  <2>3. ChanSize \in Nat
    BY ConstantsOK DEF ConstantsOK
  <2> HIDE DEF Init
  <2> QED
    <3>1. Len(sent) - recvd <= ChanSize /\ recvd <= Len(sent)
      BY <2>1, <2>2, <2>3
    <3>2. dropped <= acked /\ acked <= dropped + 1 /\ acked <= recvd
      BY <2>2
    <3>3. recvd \in Nat /\ acked \in Nat /\ dropped \in Nat /\ issued \in Nat
      BY <2>2
    <3>4. bytes \in Nat /\ close \in BOOLEAN /\ failed \in BOOLEAN
      BY <2>2
    <3> QED
      BY <2>1, <2>2, <3>1, <3>2, <3>3, <3>4 DEF QueueTypeOK
<1>4. FileTypeOK
  <2>1. file \in Seq(Unit \cup STRING)
    BY OldFileOK DEF OldFileOK
  <2> QED
    BY <2>1 DEF FileTypeOK
<1>5. HandleOK /\ GuardsOK /\ Distinct /\ FlushOK
  BY DEF HandleOK, GuardsOK, Distinct, FlushOK
<1>6. StatusOK /\ Covered
  BY DEF StatusOK, Covered
<1> QED
  BY <1>1, <1>2, <1>3, <1>4, <1>5, <1>6 DEF IInv, TypeOK

LEMMA NextInv == IInv /\ [Next]_vars => IInv'
<1> SUFFICES ASSUME IInv, [Next]_vars PROVE IInv'
  OBVIOUS
<1>1. ASSUME NEW c \in Clients, ClientStep(c)
      PROVE  IInv'
  <2>1. CASE GetHandle(c)
    BY <2>1, GetHandleStep
  <2>2. CASE RootClose(c)
    BY <2>2, RootCloseStep
  <2>3. CASE Shutdown(c)
    BY <2>3, ShutdownStep
  <2>4. ASSUME NEW n \in 1 .. MaxWrite, NEW nl \in 0 .. MaxWrite, nl <= n,
               NEW s \in Specs, Write(c, n, nl, s)
        PROVE  IInv'
    <3>1. nl \in 0 .. n
      BY <2>4, ConstantsOK DEF ConstantsOK
    <3> QED
      BY <2>4, <3>1, WriteStep
  <2>5. ASSUME NEW o \in {"flush", "close"}, Start(c, o)
        PROVE  IInv'
    BY <2>5, StartStep
  <2>6. CASE SendWrite(c)
    BY <2>6, SendWriteStep
  <2>7. CASE SendClose(c)
    BY <2>7, SendCloseStep
  <2>8. CASE SendFlush(c)
    BY <2>8, SendFlushStep
  <2>9. CASE FlushReturn(c)
    BY <2>9, FlushReturnStep
  <2>10. CASE FreeHandle(c)
    BY <2>10, FreeHandleStep
  <2> QED
    BY <1>1, <2>1, <2>2, <2>3, <2>4, <2>5, <2>6, <2>7, <2>8, <2>9, <2>10
       DEF ClientStep
<1>2. CASE Receiver
  BY <1>2, RecvStep, TryRecvStep, OpenFileStep, IssueWriteStep, IssueFlushStep,
     SetCodeStep, DropRequestStep, EndBatchStep, ExitStep DEF Receiver
<1>3. CASE UNCHANGED vars
  BY <1>3, StutterStep
<1> QED
  BY <1>1, <1>2, <1>3 DEF Next, Terminated

THEOREM Inductive == Spec => []IInv
BY InitInv, NextInv, PTL DEF Spec

\* Type correctness of the whole model, with the order in which the receiver
\* pops, answers and drops requests, for every script and channel size.
THEOREM TypeCorrect == Spec => []TypeOK
<1>1. IInv => TypeOK
  BY DEF IInv
<1> QED
  BY <1>1, Inductive, PTL

\* The claim of the comment on `unsafe impl Send for Request': until the first
\* IO error, the memory behind every request the receiver still has is a guard
\* its client neither frees, nor reuses, nor writes to.
THEOREM PointersStayValid == Spec => []NoDangling
<1>1. IInv => NoDangling
  <2> SUFFICES ASSUME IInv, ~failed, NEW i \in dropped + 1 .. Len(sent),
                      IsWrite(i)
               PROVE  LET c == sent[i].client
                      IN i \in guards[c] /\ sent[i].addr # cur[c]
                           /\ sent[i].addr \notin old[c]
    BY DEF NoDangling
  <2>1. sent[i].client \in Clients
    BY RequestFacts DEF IInv, TypeOK, QueueTypeOK
  <2>2. i \in guards[sent[i].client]
    BY DEF IInv, Covered
  <2> QED
    BY <2>1, <2>2 DEF IInv, Distinct
<1> QED
  BY <1>1, Inductive, PTL

\* Without IO errors, the assertion in Drop for WriteGuard never fires, on the
\* return of a flush or when a handle is dropped.
THEOREM GuardsSettled ==
  ASSUME ~IoErrors
  PROVE  Spec => []DropAssertion
<1>1. Init => ~failed
  BY DEF Init
<1>2. ~failed /\ [Next]_vars => ~failed'
  <2> SUFFICES ASSUME ~failed, [Next]_vars PROVE ~failed'
    OBVIOUS
  <2> USE DEF queueVars
  <2>1. ASSUME NEW c \in Clients, ClientStep(c) PROVE ~failed'
    BY <2>1 DEF ClientStep, GetHandle, RootClose, Shutdown, Write, Start,
                SendWrite, SendClose, SendFlush, FlushReturn, FreeHandle
  <2>2. CASE Receiver
    BY <2>2 DEF Receiver, Recv, TryRecv, OpenFile, IssueWrite, IssueFlush,
                SetCode, DropRequest, EndBatch, Exit, Fail
  <2>3. CASE UNCHANGED vars
    BY <2>3 DEF vars
  <2> QED
    BY <2>1, <2>2, <2>3 DEF Next, Terminated
<1>3. IInv /\ ~failed => DropAssertion
  <2> SUFFICES ASSUME IInv, ~failed, NEW c \in Clients,
                      pc[c] = "free" \/ (pc[c] = "wait" /\ fcode[c] # "Ongoing")
               PROVE  /\ \A i \in guards[c] : status[sent[i].addr] # "Ongoing"
                      /\ \A a \in old[c] : status[a] # "Ongoing"
    BY DEF DropAssertion
  <2>1. \A i \in guards[c] : i <= acked
    <3>1. CASE pc[c] = "free"
      BY <3>1 DEF IInv, Covered
    <3>2. CASE pc[c] = "wait" /\ fcode[c] # "Ongoing"
      <4>1. ~(flushIx[c] > acked) /\ \A i \in guards[c] : i < flushIx[c]
        BY <3>2 DEF IInv, FlushOK
      <4> QED
        BY <4>1 DEF IInv, TypeOK, ClientTypeOK, QueueTypeOK
    <3> QED
      BY <3>1, <3>2
  <2> QED
    BY <2>1 DEF IInv, StatusOK
<1>4. Spec => []~failed
  BY <1>1, <1>2, PTL DEF Spec
<1> QED
  BY <1>3, <1>4, Inductive, PTL

=============================================================================
