------------------------- MODULE ParallelInputProof -------------------------
(****************************************************************************)
(* Where the chunks of the input are and in which order, for any files, any *)
(* number of readers and any size of the channel.                           *)
(*                                                                          *)
(* The line (LineInv): what a reader has is ahead of what is in the channel,*)
(* that of what the thread has in its hand, and that of what it has left to *)
(* read; with `file' ahead means in an earlier file.  Since a chunk is not  *)
(* ahead of itself, the parts of the line are apart, and the lost chunks    *)
(* are apart from the line (Whole).                                         *)
(*                                                                          *)
(* Then the start heuristic: its counters are in step with the readers.     *)
(****************************************************************************)
EXTENDS ParallelInput, FiniteSetTheorems, TLAPS

-----------------------------------------------------------------------------
(* Chunks and sequences of them. *)

LEMMA ChunkIs == \A k \in Chunks : k[1] \in Nat /\ k[2] \in Nat
BY ConstantsOK DEF Chunks

LEMMA FileIs ==
  ASSUME NEW f \in DOMAIN Files
  PROVE  File(f) \in Seq(Chunks) /\ \A k \in Elems(File(f)) : k[1] = f
<1>1. \A i \in 1 .. Files[f] : <<f, i>> \in Chunks BY DEF Chunks
<1>2. Files[f] \in Nat BY ConstantsOK
<1>3. File(f) \in Seq(Chunks) BY <1>1, <1>2 DEF File
<1>4. \A k \in Elems(File(f)) : k[1] = f BY DEF File, Elems
<1> QED BY <1>3, <1>4

(* A sequence in the order of the input. *)
InLine(s) == \A i, j \in DOMAIN s : i < j => Before(s[i], s[j])

LEMMA HeadTail ==
  ASSUME NEW S, NEW s \in Seq(S), s # << >>
  PROVE  /\ Tail(s) \in Seq(S) /\ Head(s) \in S
         /\ Elems(s) = {Head(s)} \cup Elems(Tail(s))
         /\ InLine(s) => InLine(Tail(s)) /\ \A k \in Elems(Tail(s)) : Before(Head(s), k)
<1>1. /\ Tail(s) \in Seq(S) /\ Head(s) \in S /\ Head(s) = s[1] /\ 1 \in DOMAIN s
      /\ \A i \in DOMAIN Tail(s) : i + 1 \in DOMAIN s /\ 1 < i + 1 /\ Tail(s)[i] = s[i + 1]
      /\ \A i \in DOMAIN s : i = 1 \/ (i - 1 \in DOMAIN Tail(s) /\ s[i] = Tail(s)[i - 1])
  OBVIOUS
<1>2. Elems(s) = {Head(s)} \cup Elems(Tail(s))
  <2>1. PICK h, t : h = Head(s) /\ t = Tail(s) OBVIOUS
  <2>2. \A k \in Elems(s) : k = h \/ k \in Elems(t)
    <3> TAKE k \in Elems(s)
    <3>1. PICK i \in DOMAIN s : k = s[i] BY DEF Elems
    <3>2. CASE i = 1 BY <1>1, <2>1, <3>1, <3>2
    <3>3. CASE i - 1 \in DOMAIN t /\ s[i] = t[i - 1]
      BY <3>1, <3>3 DEF Elems
    <3> QED BY <1>1, <2>1, <3>2, <3>3
  <2>3. \A k \in Elems(t) : k \in Elems(s) BY <1>1, <2>1 DEF Elems
  <2>4. h \in Elems(s) BY <1>1, <2>1 DEF Elems
  <2> QED BY <2>1, <2>2, <2>3, <2>4
<1>3. ASSUME InLine(s) PROVE InLine(Tail(s))
  <2> SUFFICES ASSUME NEW i \in DOMAIN Tail(s), NEW j \in DOMAIN Tail(s), i < j
               PROVE  Before(Tail(s)[i], Tail(s)[j])
    BY DEF InLine
  <2>1. i + 1 < j + 1 /\ i + 1 \in DOMAIN s /\ j + 1 \in DOMAIN s
    BY <1>1
  <2> QED BY <1>1, <1>3, <2>1 DEF InLine
<1>4. ASSUME InLine(s), NEW k \in Elems(Tail(s)) PROVE Before(Head(s), k)
  <2>1. PICK i \in DOMAIN Tail(s) : k = Tail(s)[i] BY DEF Elems
  <2> QED BY <1>1, <1>4, <2>1 DEF InLine
<1> QED BY <1>1, <1>2, <1>3, <1>4

LEMMA AppendIs ==
  ASSUME NEW S, NEW s \in Seq(S), NEW e \in S
  PROVE  /\ Append(s, e) \in Seq(S) /\ Len(Append(s, e)) = Len(s) + 1
         /\ Elems(Append(s, e)) = Elems(s) \cup {e}
         /\ InLine(s) /\ (\A k \in Elems(s) : Before(k, e)) => InLine(Append(s, e))
<1> DEFINE a == Append(s, e)
<1>1. /\ a \in Seq(S) /\ Len(a) = Len(s) + 1 /\ Len(s) \in Nat
      /\ a[Len(s) + 1] = e /\ \A i \in DOMAIN s : i \in DOMAIN a /\ a[i] = s[i]
      /\ \A i \in DOMAIN a : i \in DOMAIN s \/ i = Len(s) + 1
      /\ DOMAIN s = 1 .. Len(s) /\ DOMAIN a = 1 .. Len(s) + 1
  OBVIOUS
<1> HIDE DEF a
<1>2. Elems(a) = Elems(s) \cup {e} BY <1>1 DEF Elems
<1>3. ASSUME InLine(s), \A k \in Elems(s) : Before(k, e) PROVE InLine(a)
  <2> SUFFICES ASSUME NEW i \in DOMAIN a, NEW j \in DOMAIN a, i < j
               PROVE  Before(a[i], a[j])
    BY DEF InLine
  <2>1. i \in DOMAIN s BY <1>1
  <2>2. CASE j \in DOMAIN s BY <1>1, <1>3, <2>1, <2>2 DEF InLine
  <2>3. CASE j = Len(s) + 1 BY <1>1, <1>3, <2>1, <2>3 DEF Elems
  <2> QED BY <1>1, <2>2, <2>3
<1> QED BY <1>1, <1>2, <1>3 DEF a

-----------------------------------------------------------------------------
(* Types. *)

LEMMA InitTypes == Init => TypeOK
<1> SUFFICES ASSUME Init PROVE TypeOK OBVIOUS
<1>1. files \in Seq(Seq(Chunks))
  <2>1. DOMAIN Files = 1 .. Len(Files) /\ Len(Files) \in Nat BY ConstantsOK
  <2>2. \A f \in DOMAIN Files : File(f) \in Seq(Chunks) BY FileIs
  <2> QED BY <2>1, <2>2 DEF Init
<1> QED BY <1>1, ConstantsOK DEF Init, TypeOK, Readers

LEMMA StopTypes ==
  ASSUME TypeOK, Stop
  PROVE  /\ ppc' = "gone" /\ files' \in Seq(Seq(Chunks)) /\ hand' \in Seq(Chunks)
         /\ failures' \in Nat /\ nworkers' \in Nat /\ lost' \subseteq Chunks
<1>1. AllElems(files) \cup Elems(hand) \subseteq Chunks
  <2>1. \A s \in Seq(Chunks) : Elems(s) \subseteq Chunks BY DEF Elems
  <2>2. \A f \in DOMAIN files : files[f] \in Seq(Chunks) BY DEF TypeOK
  <2> QED BY <2>1, <2>2 DEF TypeOK, AllElems
<1> QED BY <1>1 DEF Stop, TypeOK

LEMMA PutTypes ==
  ASSUME TypeOK, Put, HasRoom
  PROVE  /\ channel' \in Seq(Seq(Chunks)) /\ Len(channel') <= ChanSize
         /\ hand' \in Seq(Chunks) /\ ppc' = "read"
         /\ UNCHANGED <<files, nworkers, tokens, lost>>
<1>1. channel' \in Seq(Seq(Chunks)) /\ Len(channel') = Len(channel) + 1
  BY AppendIs DEF TypeOK, Put
<1>2. Len(channel) \in Nat /\ ChanSize \in Nat /\ ChanSize >= 1
      /\ Len(channel) < IF PerRecord THEN ChanSize ELSE 1
  BY ConstantsOK DEF TypeOK, HasRoom
<1> QED BY <1>1, <1>2 DEF Put

LEMMA ThreadTypes == ASSUME TypeOK, Thread PROVE TypeOK'
<1> USE ConstantsOK
<1>1. CASE ReadChunk
  <2>1. spent' \in 0 .. ChanSize BY <1>1 DEF ReadChunk, TypeOK
  <2>2. CASE Stop BY <1>1, <2>1, <2>2, StopTypes DEF ReadChunk, TypeOK, rvars
  <2>3. ASSUME NEW f \in DOMAIN files, Begun(f),
               hand' = << Head(files[f]) >>,
               files' = [files EXCEPT ![f] = Tail(@)], ppc' = "try",
               UNCHANGED <<failures, nworkers, lost>>
        PROVE  TypeOK'
    <3>1. files[f] \in Seq(Chunks) /\ files[f] # << >>
      BY <2>3 DEF TypeOK, Begun
    <3>2. Head(files[f]) \in Chunks /\ Tail(files[f]) \in Seq(Chunks)
      BY <3>1, HeadTail
    <3>3. files' \in Seq(Seq(Chunks)) BY <2>3, <3>2 DEF TypeOK
    <3>4. hand' \in Seq(Chunks) BY <2>3, <3>2
    <3> QED BY <1>1, <2>1, <2>3, <3>3, <3>4 DEF ReadChunk, TypeOK, rvars
  <2> QED BY <1>1, <2>2, <2>3 DEF ReadChunk
<1>2. CASE NextOffer
  <2>1. CASE Stop BY <1>2, <2>1, StopTypes DEF NextOffer, TypeOK, rvars
  <2>2. CASE files # << >> /\ hand' = Head(files) /\ files' = Tail(files)
    BY <1>2, <2>2, HeadTail DEF NextOffer, TypeOK, rvars
  <2> QED BY <1>2, <2>1, <2>2 DEF NextOffer
<1>3. CASE TrySend
  <2>1. CASE Stop /\ UNCHANGED <<channel, tokens>>
    BY <1>3, <2>1, StopTypes DEF TrySend, TypeOK, rvars
  <2>2. CASE HasRoom /\ Put /\ failures' = 0
    BY <1>3, <2>2, PutTypes DEF TrySend, TypeOK, rvars
  <2>3. CASE TryFull
    <3>1. failures' \in Nat /\ nworkers' \in Nat /\ tokens' \in 0 .. ChanSize
      BY <2>3 DEF TryFull, TypeOK
    <3> QED BY <1>3, <2>3, <3>1 DEF TrySend, TryFull, TypeOK, rvars
  <2> QED BY <1>3, <2>1, <2>2, <2>3 DEF TrySend
<1>4. CASE Send
  <2>1. CASE Stop /\ UNCHANGED <<channel, tokens>>
    BY <1>4, <2>1, StopTypes DEF Send, TypeOK, rvars
  <2>2. CASE HasRoom /\ Put /\ UNCHANGED failures
    BY <1>4, <2>2, PutTypes DEF Send, TypeOK, rvars
  <2> QED BY <1>4, <2>1, <2>2 DEF Send
<1> QED BY <1>1, <1>2, <1>3, <1>4 DEF Thread

LEMMA DeliverTypes ==
  ASSUME TypeOK, NEW c \in Readers, NEW s \in Seq(Chunks), Deliver(c, s)
  PROVE  /\ cur' \in [Readers -> Seq(Chunks)] /\ got' \in [Readers -> Seq(Chunks)]
<1>1. CASE s = << >> BY <1>1 DEF Deliver, TypeOK
<1>2. CASE s # << >>
  <2>1. Head(s) \in Chunks /\ Tail(s) \in Seq(Chunks) BY <1>2, HeadTail
  <2>2. Append(got[c], Head(s)) \in Seq(Chunks) BY <2>1, AppendIs DEF TypeOK
  <2> QED BY <1>2, <2>1, <2>2 DEF Deliver, TypeOK
<1> QED BY <1>1, <1>2

LEMMA QuitTypes ==
  ASSUME TypeOK, NEW c \in Readers, NEW remaining \in Seq(Seq(Chunks)),
         Len(remaining) <= ChanSize, NEW taken \in SUBSET Chunks,
         QuitWith(c, remaining, taken)
  PROVE  TypeOK'
<1>1. AllElems(remaining) \subseteq Chunks /\ Elems(cur[c]) \subseteq Chunks
  BY DEF AllElems, Elems, TypeOK
<1>2. lost' \subseteq Chunks BY <1>1 DEF QuitWith, TypeOK
<1>3. channel' \in Seq(Seq(Chunks)) /\ Len(channel') <= ChanSize
  BY ConstantsOK DEF QuitWith
<1> QED BY <1>2, <1>3 DEF QuitWith, TypeOK, pvars

LEMMA ReaderTypes ==
  ASSUME TypeOK, NEW c \in Readers, Read(c) \/ ReadFails(c) \/ Leave(c) \/ NextFile(c)
  PROVE  TypeOK'
<1>1. channel \in Seq(Seq(Chunks)) /\ Len(channel) <= ChanSize /\ {} \subseteq Chunks
  BY DEF TypeOK
<1>2. Quit(c) => TypeOK' BY <1>1, QuitTypes DEF Quit
<1>3. CASE Timeout(c) \/ EndOfInput(c) \/ Leave(c)
  BY <1>2, <1>3 DEF Timeout, EndOfInput, Leave
<1>4. CASE Wait(c)
  <2>1. tokens' \in 0 .. ChanSize BY <1>4, ConstantsOK DEF Wait, TypeOK, PerRecord
  <2> QED BY <1>4, <2>1 DEF Wait, TypeOK, pvars
<1>5. CASE NextChunk(c)
  <2>1. cur[c] \in Seq(Chunks) BY DEF TypeOK
  <2>2. cur' \in [Readers -> Seq(Chunks)] /\ got' \in [Readers -> Seq(Chunks)]
    BY <1>5, <2>1, DeliverTypes DEF NextChunk
  <2> QED BY <1>5, <2>2 DEF NextChunk, TypeOK, pvars
<1>6. CASE Receive(c)
  <2>1. channel # << >> BY <1>6 DEF Receive
  <2>2. Head(channel) \in Seq(Chunks) /\ Tail(channel) \in Seq(Seq(Chunks))
        /\ Len(Tail(channel)) <= ChanSize
    BY <2>1, ConstantsOK DEF TypeOK
  <2>3. cur' \in [Readers -> Seq(Chunks)] /\ got' \in [Readers -> Seq(Chunks)]
    BY <1>6, <2>2, DeliverTypes DEF Receive
  <2>4. spent' \in 0 .. ChanSize BY <1>6, ConstantsOK DEF Receive, TypeOK
  <2> QED BY <1>6, <2>2, <2>3, <2>4 DEF Receive, TypeOK, pvars
<1>7. CASE ReadFails(c)
  <2>1. CASE channel # << >> /\ QuitWith(c, Tail(channel), Elems(Head(channel)))
    <3>1. Tail(channel) \in Seq(Seq(Chunks)) /\ Len(Tail(channel)) <= ChanSize
      BY <2>1, ConstantsOK DEF TypeOK
    <3>2. Head(channel) \in Seq(Chunks) BY <2>1 DEF TypeOK
    <3>3. Elems(Head(channel)) \in SUBSET Chunks BY <3>2 DEF Elems
    <3> QED BY <2>1, <3>1, <3>3, QuitTypes
  <2> QED BY <1>2, <1>7, <2>1 DEF ReadFails
<1>8. CASE NextFile(c)
  <2>1. Elems(cur[c]) \subseteq Chunks BY DEF TypeOK, Elems
  <2>2. CASE ~PerRecord
    <3>1. /\ lost' = lost \cup Elems(cur[c]) /\ cur' = [cur EXCEPT ![c] = << >>]
          /\ UNCHANGED <<strategy, pvars, channel, spent, tokens, rpc, got>>
      BY <1>8, <2>2 DEF NextFile
    <3>2. << >> \in Seq(Chunks) OBVIOUS
    <3>3. cur' \in [Readers -> Seq(Chunks)] BY <3>1, <3>2 DEF TypeOK
    <3> QED BY <2>1, <3>1, <3>3 DEF TypeOK, pvars
  <2> QED BY <1>2, <1>8, <2>2 DEF NextFile
<1> QED BY <1>3, <1>4, <1>5, <1>6, <1>7, <1>8 DEF Read

LEMMA ReaderSteps ==
  ASSUME Next
  PROVE  \/ Thread
         \/ \E c \in Readers : Read(c) \/ ReadFails(c) \/ Leave(c) \/ NextFile(c)
         \/ UNCHANGED vars
BY ConstantsOK DEF Next

(* TypeOK, for any files, readers and size of the channel: in particular, no
   channel ever holds more than its size.  *)
THEOREM TypeCorrect == Spec => []TypeOK
<1>1. TypeOK /\ [Next]_vars => TypeOK'
  <2>1. TypeOK /\ UNCHANGED vars => TypeOK' BY DEF TypeOK, vars, pvars, rvars
  <2> QED BY <2>1, ReaderSteps, ThreadTypes, ReaderTypes
<1> QED BY <1>1, InitTypes, PTL DEF Spec

-----------------------------------------------------------------------------
(* The order of the input. *)

(* What is taken from the channel later comes later in the input, and with
   `file' belongs to a later file.  *)
Later(k, l) == IF PerRecord THEN Before(k, l) ELSE k[1] < l[1]
Ahead(S, T) == \A k \in S, l \in T : Later(k, l)

Has(c) == Elems(cur[c]) \cup Elems(got[c])
Coming == AllElems(channel) \cup Elems(hand) \cup AllElems(files)

(* A sequence of sequences in the order of the input. *)
Row(ss) ==
  /\ \A i \in DOMAIN ss : InLine(ss[i])
  /\ \A i, j \in DOMAIN ss : i < j => Ahead(Elems(ss[i]), Elems(ss[j]))

ProducerLine ==
  /\ Row(files) /\ InLine(hand) /\ Row(channel)
  /\ Ahead(Elems(hand), AllElems(files))
  /\ Ahead(AllElems(channel), Elems(hand) \cup AllElems(files))

ReaderLine ==
  \A c \in Readers :
    /\ InLine(cur[c]) /\ InLine(got[c])
    /\ \A k \in Elems(got[c]), l \in Elems(cur[c]) : Before(k, l)
    /\ Ahead(Has(c), Coming)

(* No two readers share a chunk, or, with `file', a file. *)
Separate ==
  \A c, d \in Readers : c # d =>
    \A k \in Has(c), l \in Has(d) : k # l /\ (~PerRecord => k[1] # l[1])

LineInv == ProducerLine /\ ReaderLine /\ Separate

LEMMA LaterIs ==
  ASSUME NEW k \in Chunks, NEW l \in Chunks, Later(k, l)
  PROVE  k # l /\ Before(k, l) /\ (~PerRecord => k[1] # l[1])
BY ChunkIs DEF Later, Before

(* The first sequence of a row, and one put at its end. *)
LEMMA RowTail ==
  ASSUME NEW S, NEW ss \in Seq(S), ss # << >>
  PROVE  /\ AllElems(ss) = Elems(Head(ss)) \cup AllElems(Tail(ss))
         /\ Row(ss) => /\ Row(Tail(ss)) /\ InLine(Head(ss))
                       /\ Ahead(Elems(Head(ss)), AllElems(Tail(ss)))
<1> DEFINE t == Tail(ss)
           h == Head(ss)
<1>1. /\ h = ss[1] /\ 1 \in DOMAIN ss
      /\ \A i \in DOMAIN t : i + 1 \in DOMAIN ss /\ 1 < i + 1 /\ t[i] = ss[i + 1]
      /\ \A i \in DOMAIN ss : i = 1 \/ (i - 1 \in DOMAIN t /\ ss[i] = t[i - 1])
      /\ \A i, j \in DOMAIN t : i < j => i + 1 < j + 1
  OBVIOUS
<1> HIDE DEF t, h
<1>2. AllElems(ss) = Elems(h) \cup AllElems(t)
  <2>1. ASSUME NEW k \in AllElems(ss) PROVE k \in Elems(h) \cup AllElems(t)
    <3>1. PICK i \in DOMAIN ss : k \in Elems(ss[i]) BY DEF AllElems
    <3>2. CASE i = 1 BY <1>1, <3>1, <3>2
    <3>3. CASE i - 1 \in DOMAIN t /\ ss[i] = t[i - 1] BY <3>1, <3>3 DEF AllElems
    <3> QED BY <1>1, <3>2, <3>3
  <2>2. Elems(h) \subseteq AllElems(ss) BY <1>1 DEF AllElems
  <2>3. AllElems(t) \subseteq AllElems(ss) BY <1>1 DEF AllElems
  <2> QED BY <2>1, <2>2, <2>3
<1>3. ASSUME Row(ss) PROVE Row(t) /\ InLine(h) /\ Ahead(Elems(h), AllElems(t))
  <2>1. Row(t) BY <1>1, <1>3 DEF Row
  <2>2. \A i \in DOMAIN t : Ahead(Elems(h), Elems(t[i])) BY <1>1, <1>3 DEF Row
  <2> QED BY <1>1, <1>3, <2>1, <2>2 DEF Row, Ahead, AllElems
<1> QED BY <1>2, <1>3 DEF t, h

LEMMA RowAppend ==
  ASSUME NEW S, NEW ss \in Seq(S), NEW e \in S
  PROVE  /\ AllElems(Append(ss, e)) = AllElems(ss) \cup Elems(e)
         /\ Row(ss) /\ InLine(e) /\ Ahead(AllElems(ss), Elems(e)) =>
              Row(Append(ss, e))
<1> DEFINE a == Append(ss, e)
<1>1. /\ a[Len(ss) + 1] = e /\ Len(ss) \in Nat
      /\ \A i \in DOMAIN ss : i \in DOMAIN a /\ a[i] = ss[i]
      /\ \A i \in DOMAIN a : i \in DOMAIN ss \/ i = Len(ss) + 1
      /\ DOMAIN ss = 1 .. Len(ss) /\ DOMAIN a = 1 .. Len(ss) + 1
  OBVIOUS
<1> HIDE DEF a
<1>2. AllElems(a) = AllElems(ss) \cup Elems(e)
  <2>1. AllElems(a) \subseteq AllElems(ss) \cup Elems(e) BY <1>1 DEF AllElems
  <2>2. AllElems(ss) \subseteq AllElems(a) BY <1>1 DEF AllElems
  <2>3. Len(ss) + 1 \in DOMAIN a BY <1>1
  <2>4. Elems(e) \subseteq AllElems(a) BY <1>1, <2>3 DEF AllElems
  <2> QED BY <2>1, <2>2, <2>4
<1>3. ASSUME Row(ss), InLine(e), Ahead(AllElems(ss), Elems(e)) PROVE Row(a)
  <2>1. \A i \in DOMAIN a : InLine(a[i]) BY <1>1, <1>3 DEF Row
  <2>2. \A i \in DOMAIN ss : Ahead(Elems(ss[i]), Elems(e))
    BY <1>3 DEF Ahead, AllElems
  <2>3. \A i, j \in DOMAIN a : i < j => i \in DOMAIN ss BY <1>1
  <2> QED BY <1>1, <1>3, <2>1, <2>2, <2>3 DEF Row
<1> QED BY <1>2, <1>3 DEF a

(* The first chunk that is left is taken. *)
LEMMA RowTake ==
  ASSUME PerRecord, NEW ss \in Seq(Seq(Chunks)), NEW f \in DOMAIN ss,
         ss[f] # << >>, \A g \in DOMAIN ss : g < f => ss[g] = << >>,
         NEW tt, DOMAIN tt = DOMAIN ss, tt[f] = Tail(ss[f]),
         \A g \in DOMAIN ss : g # f => tt[g] = ss[g]
  PROVE  /\ AllElems(ss) = {Head(ss[f])} \cup AllElems(tt)
         /\ Row(ss) => Row(tt) /\ Ahead({Head(ss[f])}, AllElems(tt))
<1>1. ss[f] \in Seq(Chunks) /\ f \in Nat /\ DOMAIN tt = DOMAIN ss
      /\ \A g \in DOMAIN ss : g \in Nat
  OBVIOUS
<1>2. /\ Elems(ss[f]) = {Head(ss[f])} \cup Elems(tt[f])
      /\ InLine(ss[f]) => /\ InLine(tt[f])
                          /\ \A k \in Elems(tt[f]) : Before(Head(ss[f]), k)
  <2>1. tt[f] = Tail(ss[f]) OBVIOUS
  <2> QED BY <1>1, <2>1, HeadTail
<1>3. \A g \in DOMAIN ss : g # f => tt[g] = ss[g] OBVIOUS
<1>4. \A g \in DOMAIN ss : Elems(tt[g]) \subseteq Elems(ss[g]) BY <1>2, <1>3
<1>5. AllElems(ss) = {Head(ss[f])} \cup AllElems(tt)
  <2>1. AllElems(tt) \subseteq AllElems(ss) BY <1>1, <1>4 DEF AllElems
  <2>2. Head(ss[f]) \in AllElems(ss) BY <1>2 DEF AllElems
  <2>3. ASSUME NEW k \in AllElems(ss) PROVE k \in {Head(ss[f])} \cup AllElems(tt)
    <3>1. PICK g \in DOMAIN ss : k \in Elems(ss[g]) BY DEF AllElems
    <3>2. k = Head(ss[f]) \/ k \in Elems(tt[g]) BY <1>2, <1>3, <3>1
    <3>3. Elems(tt[g]) \subseteq AllElems(tt) BY <1>1 DEF AllElems
    <3> QED BY <3>2, <3>3
  <2> QED BY <2>1, <2>2, <2>3
<1>6. ASSUME Row(ss) PROVE Row(tt) /\ Ahead({Head(ss[f])}, AllElems(tt))
  <2>1. \A g \in DOMAIN tt : InLine(tt[g]) BY <1>1, <1>2, <1>3, <1>6 DEF Row
  <2>2. ASSUME NEW g \in DOMAIN tt, NEW j \in DOMAIN tt, g < j
        PROVE  Ahead(Elems(tt[g]), Elems(tt[j]))
    <3>1. Ahead(Elems(ss[g]), Elems(ss[j])) BY <1>1, <1>6, <2>2 DEF Row
    <3>2. Elems(tt[g]) \subseteq Elems(ss[g]) /\ Elems(tt[j]) \subseteq Elems(ss[j])
      BY <1>1, <1>4
    <3> QED BY <3>1, <3>2 DEF Ahead
  <2>3. ASSUME NEW g \in DOMAIN tt, NEW k \in Elems(tt[g])
        PROVE  Later(Head(ss[f]), k)
    <3>1. CASE g = f BY <1>2, <1>6, <2>3, <3>1 DEF Row, Later
    <3>2. CASE g < f BY <1>1, <1>3, <2>3, <3>2 DEF Elems
    <3>3. CASE f < g
      <4>1. Head(ss[f]) \in Elems(ss[f]) /\ k \in Elems(ss[g])
        BY <1>2, <1>3, <2>3, <3>3
      <4> QED BY <1>1, <1>6, <2>3, <3>3, <4>1 DEF Row, Ahead
    <3> QED BY <1>1, <2>3, <3>1, <3>2, <3>3
  <2>4. Row(tt) BY <2>1, <2>2 DEF Row
  <2>5. Ahead({Head(ss[f])}, AllElems(tt)) BY <2>3 DEF Ahead, AllElems
  <2> QED BY <2>4, <2>5
<1> QED BY <1>5, <1>6
LEMMA TakeIs ==
  ASSUME TypeOK, PerRecord, NEW f \in DOMAIN files, Begun(f),
         hand' = << Head(files[f]) >>, files' = [files EXCEPT ![f] = Tail(@)]
  PROVE  /\ AllElems(files) = Elems(hand') \cup AllElems(files')
         /\ InLine(hand')
         /\ Row(files) => Row(files') /\ Ahead(Elems(hand'), AllElems(files'))
<1>1. PICK ss, tt : ss = files /\ tt = files' OBVIOUS
<1>2. /\ ss \in Seq(Seq(Chunks)) /\ f \in DOMAIN ss /\ ss[f] # << >>
      /\ \A g \in DOMAIN ss : g < f => ss[g] = << >>
  BY <1>1 DEF Begun, TypeOK
<1>3. /\ DOMAIN tt = DOMAIN ss /\ tt[f] = Tail(ss[f])
      /\ \A g \in DOMAIN ss : g # f => tt[g] = ss[g]
  BY <1>1, <1>2
<1>4. /\ AllElems(ss) = {Head(ss[f])} \cup AllElems(tt)
      /\ Row(ss) => Row(tt) /\ Ahead({Head(ss[f])}, AllElems(tt))
  BY <1>2, <1>3, RowTake
<1>5. Elems(hand') = {Head(ss[f])} /\ InLine(hand') BY <1>1 DEF Elems, InLine
<1> QED BY <1>1, <1>4, <1>5

(* The order, of the state after a step. *)
LEMMA LineAfter ==
  ASSUME UNCHANGED strategy
  PROVE  /\ ProducerLine' <=>
              /\ Row(files') /\ InLine(hand') /\ Row(channel')
              /\ Ahead(Elems(hand'), AllElems(files'))
              /\ Ahead(AllElems(channel'), Elems(hand') \cup AllElems(files'))
         /\ ReaderLine' <=>
              \A c \in Readers :
                /\ InLine(cur'[c]) /\ InLine(got'[c])
                /\ \A k \in Elems(got'[c]), l \in Elems(cur'[c]) : Before(k, l)
                /\ Ahead(Has(c)', Coming')
         /\ Separate' <=>
              \A c, d \in Readers : c # d =>
                \A k \in Has(c)', l \in Has(d)' : k # l /\ (~PerRecord => k[1] # l[1])
BY DEF ProducerLine, ReaderLine, Separate, Row, Ahead, Later, PerRecord, Coming

LEMMA InChunks ==
  ASSUME TypeOK
  PROVE  /\ Coming \subseteq Chunks
         /\ \A c \in Readers : Has(c) \subseteq Chunks
<1>1. \A s \in Seq(Chunks) : Elems(s) \subseteq Chunks BY DEF Elems
<1>2. \A ss \in Seq(Seq(Chunks)) : AllElems(ss) \subseteq Chunks
  BY <1>1 DEF AllElems
<1> QED BY <1>1, <1>2 DEF TypeOK, Coming, Has

(* A step of the thread, which leaves the readers what they have.  *)
LEMMA ThreadLeaves ==
  ASSUME LineInv, UNCHANGED <<strategy, rvars>>, Coming' \subseteq Coming
  PROVE  ReaderLine' /\ Separate'
<1>1. \A c \in Readers : Has(c)' = Has(c) BY DEF Has, rvars
<1>2. \A c \in Readers : Ahead(Has(c), Coming') BY DEF LineInv, ReaderLine, Ahead
<1> QED BY <1>1, <1>2, LineAfter DEF LineInv, ReaderLine, Separate, rvars

LEMMA EmptyRow ==
  /\ Row(<< >>) /\ InLine(<< >>) /\ Elems(<< >>) = {} /\ AllElems(<< >>) = {}
BY DEF Row, InLine, Elems, AllElems

LEMMA StopLine ==
  ASSUME LineInv, Stop, UNCHANGED <<strategy, channel>>
  PROVE  ProducerLine' /\ Coming' \subseteq Coming
<1>1. files' = << >> /\ hand' = << >> BY DEF Stop
<1>2. ProducerLine'
  BY <1>1, LineAfter, EmptyRow DEF LineInv, ProducerLine, Ahead
<1>3. Coming' \subseteq Coming BY <1>1, EmptyRow DEF Coming
<1> QED BY <1>2, <1>3

LEMMA PutLine ==
  ASSUME TypeOK, LineInv, Put, UNCHANGED strategy
  PROVE  ProducerLine' /\ Coming' \subseteq Coming
<1>1. /\ channel' = Append(channel, hand) /\ hand' = << >> /\ files' = files
  BY DEF Put
<1>2. channel \in Seq(Seq(Chunks)) /\ hand \in Seq(Chunks) BY DEF TypeOK
<1>3. Ahead(AllElems(channel), Elems(hand)) BY DEF LineInv, ProducerLine, Ahead
<1>4. Row(channel') BY <1>1, <1>2, <1>3, RowAppend DEF LineInv, ProducerLine
<1>5. AllElems(channel') = AllElems(channel) \cup Elems(hand)
  BY <1>1, <1>2, RowAppend
<1>6. Ahead(AllElems(channel'), AllElems(files))
  BY <1>5 DEF LineInv, ProducerLine, Ahead
<1>7. ProducerLine'
  BY <1>1, <1>4, <1>6, LineAfter, EmptyRow DEF LineInv, ProducerLine, Ahead
<1>8. Coming' \subseteq Coming BY <1>1, <1>5, EmptyRow DEF Coming
<1> QED BY <1>7, <1>8

LEMMA ThreadLine == ASSUME TypeOK, LineInv, Thread PROVE LineInv'
<1> SUFFICES ProducerLine' /\ Coming' \subseteq Coming
  <2>1. UNCHANGED <<strategy, rvars>>
    BY DEF Thread, ReadChunk, NextOffer, TrySend, Send
  <2> QED BY <2>1, ThreadLeaves DEF LineInv
<1>1. CASE ReadChunk
  <2>1. CASE Stop BY <1>1, <2>1, StopLine DEF ReadChunk
  <2>2. ASSUME NEW f \in DOMAIN files, Begun(f),
               hand' = << Head(files[f]) >>,
               files' = [files EXCEPT ![f] = Tail(@)]
        PROVE  ProducerLine' /\ Coming' \subseteq Coming
    <3>1. PerRecord /\ UNCHANGED <<strategy, channel>> BY <1>1 DEF ReadChunk
    <3>2. /\ AllElems(files) = Elems(hand') \cup AllElems(files')
          /\ InLine(hand')
          /\ Row(files) => Row(files') /\ Ahead(Elems(hand'), AllElems(files'))
      BY <2>2, <3>1, TakeIs DEF PerRecord
    <3>3. ProducerLine'
      BY <3>1, <3>2, LineAfter DEF LineInv, ProducerLine, Ahead
    <3>4. Coming' \subseteq Coming BY <3>1, <3>2 DEF Coming
    <3> QED BY <3>3, <3>4
  <2> QED BY <1>1, <2>1, <2>2 DEF ReadChunk
<1>2. CASE NextOffer
  <2>1. CASE Stop BY <1>2, <2>1, StopLine DEF NextOffer
  <2>2. CASE files # << >> /\ hand' = Head(files) /\ files' = Tail(files)
    <3>1. UNCHANGED <<strategy, channel>> BY <1>2 DEF NextOffer
    <3>2. files \in Seq(Seq(Chunks)) BY DEF TypeOK
    <3>3. /\ AllElems(files) = Elems(hand') \cup AllElems(files')
          /\ Row(files) => /\ Row(files') /\ InLine(hand')
                           /\ Ahead(Elems(hand'), AllElems(files'))
      BY <2>2, <3>2, RowTail
    <3>4. ProducerLine' BY <3>1, <3>3, LineAfter DEF LineInv, ProducerLine, Ahead
    <3>5. Coming' \subseteq Coming BY <3>1, <3>3 DEF Coming
    <3> QED BY <3>4, <3>5
  <2> QED BY <1>2, <2>1, <2>2 DEF NextOffer
<1>3. CASE TrySend
  <2>1. CASE Stop /\ UNCHANGED channel BY <1>3, <2>1, StopLine DEF TrySend
  <2>2. CASE Put BY <1>3, <2>2, PutLine DEF TrySend
  <2>3. CASE TryFull
    <3>1. UNCHANGED <<strategy, files, hand, channel>>
      BY <1>3, <2>3 DEF TrySend, TryFull
    <3> QED BY <3>1, LineAfter DEF LineInv, ProducerLine, Coming
  <2> QED BY <1>3, <2>1, <2>2, <2>3 DEF TrySend
<1>4. CASE Send
  <2>1. CASE Stop /\ UNCHANGED channel BY <1>4, <2>1, StopLine DEF Send
  <2>2. CASE Put BY <1>4, <2>2, PutLine DEF Send
  <2> QED BY <1>4, <2>1, <2>2 DEF Send
<1> QED BY <1>1, <1>2, <1>3, <1>4 DEF Thread

(* What a reader keeps of what it had, and the thread of what it has.  *)
LEMMA LessLine ==
  ASSUME TypeOK, LineInv, UNCHANGED <<strategy, pvars, got>>,
         channel' \in {channel, << >>} \/ (channel # << >> /\ channel' = Tail(channel)),
         \A c \in Readers : cur'[c] = cur[c] \/ cur'[c] = << >>
  PROVE  LineInv'
<1>1. Row(channel') /\ AllElems(channel') \subseteq AllElems(channel)
  <2>1. channel \in Seq(Seq(Chunks)) /\ Row(channel)
    BY DEF TypeOK, LineInv, ProducerLine
  <2> QED BY <2>1, EmptyRow, RowTail
<1>2. ProducerLine'
  BY <1>1, LineAfter DEF LineInv, ProducerLine, Ahead, pvars
<1>3. Coming' \subseteq Coming BY <1>1 DEF Coming, pvars
<1>4. \A c \in Readers : /\ Elems(cur'[c]) \subseteq Elems(cur[c])
                         /\ Has(c)' \subseteq Has(c)
                         /\ InLine(cur[c]) => InLine(cur'[c])
  BY EmptyRow DEF Has
<1>5. \A c \in Readers : Ahead(Has(c)', Coming')
  BY <1>3, <1>4 DEF LineInv, ReaderLine, Ahead
<1>6. ReaderLine' BY <1>4, <1>5, LineAfter DEF LineInv, ReaderLine
<1>7. Separate' BY <1>4, LineAfter DEF LineInv, Separate
<1> QED BY <1>2, <1>6, <1>7 DEF LineInv

LEMMA QuitLine ==
  ASSUME TypeOK, LineInv, NEW c \in Readers, NEW remaining, NEW taken,
         QuitWith(c, remaining, taken),
         remaining = channel \/ (channel # << >> /\ remaining = Tail(channel))
  PROVE  LineInv'
<1>1. \A d \in Readers : cur'[d] = cur[d] \/ cur'[d] = << >>
  BY DEF QuitWith, TypeOK
<1>2. \/ channel' \in {channel, << >>}
      \/ channel # << >> /\ channel' = Tail(channel)
  BY DEF QuitWith
<1>3. UNCHANGED <<strategy, pvars, got>> BY DEF QuitWith
<1> QED BY <1>1, <1>2, <1>3, LessLine

(* The next chunk of its file.  *)
LEMMA NextChunkLine ==
  ASSUME TypeOK, LineInv, NEW c \in Readers, NextChunk(c)
  PROVE  LineInv'
<1>1. PICK h, t : h = Head(cur[c]) /\ t = Tail(cur[c]) OBVIOUS
<1>2. cur[c] \in Seq(Chunks) /\ cur[c] # << >> /\ got[c] \in Seq(Chunks)
  BY DEF NextChunk, TypeOK
<1>3. /\ h \in Chunks /\ Elems(cur[c]) = {h} \cup Elems(t)
      /\ InLine(t) /\ \A k \in Elems(t) : Before(h, k)
  BY <1>1, <1>2, HeadTail DEF LineInv, ReaderLine
<1>4. /\ Elems(Append(got[c], h)) = Elems(got[c]) \cup {h}
      /\ InLine(Append(got[c], h))
  BY <1>2, <1>3, AppendIs DEF LineInv, ReaderLine
<1>5. /\ cur'[c] = t /\ got'[c] = Append(got[c], h)
      /\ \A d \in Readers \ {c} : cur'[d] = cur[d] /\ got'[d] = got[d]
      /\ UNCHANGED <<strategy, pvars, channel>>
  BY <1>1, <1>2 DEF NextChunk, Deliver, TypeOK
<1>6. \A d \in Readers : Has(d)' = Has(d)
  BY <1>3, <1>4, <1>5 DEF Has
<1>7. Coming' = Coming BY <1>5 DEF Coming, pvars
<1>8. ProducerLine' BY <1>5, LineAfter DEF LineInv, ProducerLine, pvars
<1>9. \A d \in Readers :
        /\ InLine(cur'[d]) /\ InLine(got'[d])
        /\ \A k \in Elems(got'[d]), l \in Elems(cur'[d]) : Before(k, l)
  BY <1>3, <1>4, <1>5 DEF LineInv, ReaderLine
<1>10. ReaderLine' BY <1>5, <1>6, <1>7, <1>9, LineAfter DEF LineInv, ReaderLine
<1>11. Separate' BY <1>5, <1>6, LineAfter DEF LineInv, Separate
<1> QED BY <1>8, <1>10, <1>11 DEF LineInv

(* The chunks a reader takes from the channel are all ahead of what is coming,
   and behind what any reader has.  *)
LEMMA ReceiveLine ==
  ASSUME TypeOK, LineInv, NEW c \in Readers, Receive(c)
  PROVE  LineInv'
<1>1. PICK s, r : s = Head(channel) /\ r = Tail(channel) OBVIOUS
<1>2. /\ channel \in Seq(Seq(Chunks)) /\ channel # << >> /\ cur[c] = << >>
      /\ got[c] \in Seq(Chunks) /\ s \in Seq(Chunks) /\ channel' = r
      /\ UNCHANGED <<strategy, pvars>> /\ Deliver(c, s)
  BY <1>1 DEF Receive, TypeOK
<1>3. /\ AllElems(channel) = Elems(s) \cup AllElems(r)
      /\ Row(r) /\ InLine(s) /\ Ahead(Elems(s), AllElems(r))
  BY <1>1, <1>2, RowTail DEF LineInv, ProducerLine
<1>4. /\ Coming' = AllElems(r) \cup Elems(hand) \cup AllElems(files)
      /\ Coming = Elems(s) \cup Coming'
  BY <1>2, <1>3 DEF Coming, pvars
<1>5. Ahead(Elems(s), Coming')
  BY <1>3, <1>4 DEF LineInv, ProducerLine, Ahead
<1>6. \A d \in Readers : Ahead(Has(d), Elems(s)) /\ Ahead(Has(d), Coming')
  BY <1>4 DEF LineInv, ReaderLine, Ahead
<1>7. Elems(s) \subseteq Chunks /\ \A d \in Readers : Has(d) \subseteq Chunks
  BY <1>4, InChunks
<1>8. /\ \A d \in Readers \ {c} : cur'[d] = cur[d] /\ got'[d] = got[d]
      /\ InLine(cur'[c]) /\ InLine(got'[c])
      /\ \A k \in Elems(got'[c]), l \in Elems(cur'[c]) : Before(k, l)
      /\ Has(c)' = Has(c) \cup Elems(s)
  <2>1. Has(c) = Elems(got[c]) BY <1>2, EmptyRow DEF Has
  <2>2. \A k \in Elems(got[c]), l \in Elems(s) : Before(k, l)
    BY <1>6, <1>7, <2>1, LaterIs DEF Ahead
  <2>3. CASE s = << >>
    <3>1. got' = got /\ cur' = [cur EXCEPT ![c] = << >>]
      BY <1>2, <2>3 DEF Deliver
    <3>2. cur'[c] = << >> /\ \A d \in Readers \ {c} : cur'[d] = cur[d]
      BY <3>1 DEF TypeOK
    <3> QED BY <2>1, <2>3, <3>1, <3>2, EmptyRow DEF Has, LineInv, ReaderLine
  <2>4. CASE s # << >>
    <3>1. PICK h, t : h = Head(s) /\ t = Tail(s) OBVIOUS
    <3>2. /\ h \in Chunks /\ Elems(s) = {h} \cup Elems(t)
          /\ InLine(t) /\ \A k \in Elems(t) : Before(h, k)
      BY <1>2, <1>3, <2>4, <3>1, HeadTail
    <3>3. /\ Elems(Append(got[c], h)) = Elems(got[c]) \cup {h}
          /\ InLine(Append(got[c], h))
      BY <1>2, <2>2, <3>2, AppendIs DEF LineInv, ReaderLine
    <3>4. cur' = [cur EXCEPT ![c] = t] /\ got' = [got EXCEPT ![c] = Append(@, h)]
      BY <1>2, <2>4, <3>1 DEF Deliver
    <3>5. /\ cur'[c] = t /\ got'[c] = Append(got[c], h)
          /\ \A d \in Readers \ {c} : cur'[d] = cur[d] /\ got'[d] = got[d]
      BY <3>4 DEF TypeOK
    <3>6. Has(c)' = Has(c) \cup Elems(s) BY <2>1, <3>2, <3>3, <3>5 DEF Has
    <3>7. \A k \in Elems(got'[c]), l \in Elems(cur'[c]) : Before(k, l)
      BY <2>2, <3>2, <3>3, <3>5
    <3> QED BY <3>2, <3>3, <3>5, <3>6, <3>7
  <2> QED BY <2>3, <2>4
<1>9. \A d \in Readers \ {c} : Has(d)' = Has(d) BY <1>8 DEF Has
<1>10. ProducerLine'
  BY <1>2, <1>3, LineAfter DEF LineInv, ProducerLine, Ahead, pvars
<1>11. \A d \in Readers : Ahead(Has(d)', Coming')
  BY <1>5, <1>6, <1>8, <1>9 DEF Ahead
<1>12. \A d \in Readers :
        /\ InLine(cur'[d]) /\ InLine(got'[d])
        /\ \A k \in Elems(got'[d]), l \in Elems(cur'[d]) : Before(k, l)
  BY <1>8 DEF LineInv, ReaderLine
<1>13. ReaderLine' BY <1>2, <1>11, <1>12, LineAfter
<1>14. \A d \in Readers \ {c} : \A k \in Has(d), l \in Elems(s) :
         k # l /\ (~PerRecord => k[1] # l[1])
  BY <1>6, <1>7, LaterIs DEF Ahead
<1>15. ASSUME NEW d \in Readers, NEW e \in Readers, d # e,
              NEW k \in Has(d)', NEW l \in Has(e)'
       PROVE  k # l /\ (~PerRecord => k[1] # l[1])
  <2>1. CASE d = c /\ l \in Has(e)
    BY <1>8, <1>14, <1>15, <2>1 DEF LineInv, Separate
  <2>2. CASE e = c /\ k \in Has(d)
    BY <1>8, <1>14, <1>15, <2>2 DEF LineInv, Separate
  <2>3. CASE d # c /\ e # c BY <1>9, <1>15, <2>3 DEF LineInv, Separate
  <2> QED BY <1>9, <1>15, <2>1, <2>2, <2>3
<1>16. Separate' BY <1>2, <1>15, LineAfter
<1> QED BY <1>10, <1>13, <1>16 DEF LineInv

LEMMA ReaderLines ==
  ASSUME TypeOK, LineInv, NEW c \in Readers,
         Read(c) \/ ReadFails(c) \/ Leave(c) \/ NextFile(c)
  PROVE  LineInv'
<1>1. Quit(c) => LineInv'
  <2>1. \A r : r = channel /\ QuitWith(c, r, {}) => LineInv' BY QuitLine
  <2> QED BY <2>1 DEF Quit
<1>2. CASE Timeout(c) \/ EndOfInput(c) \/ Leave(c)
  BY <1>1, <1>2 DEF Timeout, EndOfInput, Leave
<1>3. CASE Wait(c)
  <2>1. UNCHANGED <<strategy, pvars, got, cur, channel>> BY <1>3 DEF Wait
  <2> QED BY <2>1, LessLine
<1>4. CASE ReadFails(c)
  <2>1. CASE channel # << >> /\ QuitWith(c, Tail(channel), Elems(Head(channel)))
    <3>1. PICK r, k : r = Tail(channel) /\ k = Elems(Head(channel)) OBVIOUS
    <3> QED BY <2>1, <3>1, QuitLine
  <2> QED BY <1>1, <1>4, <2>1 DEF ReadFails
<1>5. CASE NextFile(c)
  <2>1. CASE ~PerRecord
    <3>1. /\ cur' = [cur EXCEPT ![c] = << >>]
          /\ UNCHANGED <<strategy, pvars, channel, got>>
      BY <1>5, <2>1 DEF NextFile
    <3>2. \A d \in Readers : cur'[d] = cur[d] \/ cur'[d] = << >>
      BY <3>1 DEF TypeOK
    <3> QED BY <3>1, <3>2, LessLine
  <2> QED BY <1>1, <1>5, <2>1 DEF NextFile
<1> QED BY <1>2, <1>3, <1>4, <1>5, NextChunkLine, ReceiveLine DEF Read

LEMMA InitLine == Init => LineInv
<1> SUFFICES ASSUME Init PROVE LineInv OBVIOUS
<1>1. Row(files)
  <2>1. /\ DOMAIN files = DOMAIN Files
        /\ \A f \in DOMAIN Files : f \in Nat /\ files[f] = File(f)
    BY ConstantsOK DEF Init
  <2>2. \A f \in DOMAIN Files : InLine(File(f))
    <3> SUFFICES ASSUME NEW f \in DOMAIN Files,
                        NEW i \in 1 .. Files[f], NEW j \in 1 .. Files[f], i < j
                 PROVE  Before(<<f, i>>, <<f, j>>)
      BY DEF InLine, File
    <3> QED BY DEF Before
  <2>3. \A f, g \in DOMAIN Files : f < g => Ahead(Elems(File(f)), Elems(File(g)))
    BY FileIs DEF Ahead, Later, Before
  <2> QED BY <2>1, <2>2, <2>3 DEF Row
<1>2. hand = << >> /\ channel = << >> /\ \A c \in Readers : cur[c] = << >> /\ got[c] = << >>
  BY DEF Init
<1> QED BY <1>1, <1>2, EmptyRow
        DEF LineInv, ProducerLine, ReaderLine, Separate, Has, Ahead

LEMMA LineSteps == TypeOK /\ LineInv /\ [Next]_vars => LineInv'
<1>1. TypeOK /\ LineInv /\ UNCHANGED vars => LineInv'
  <2> SUFFICES ASSUME TypeOK, LineInv, UNCHANGED vars PROVE LineInv' OBVIOUS
  <2> QED BY LessLine DEF vars, rvars
<1> QED BY <1>1, ReaderSteps, ThreadLine, ReaderLines

LEMMA LineAlways == Spec => [](TypeOK /\ LineInv)
BY InitTypes, InitLine, TypeCorrect, LineSteps, PTL DEF Spec

(* For any number of files, chunks and readers, with either strategy, whatever
   readers time out, skip, fail or leave: what a reader receives is in the order
   of the input.  *)
THEOREM OrderKept == Spec => []InOrder
<1>1. TypeOK /\ LineInv => InOrder
  <2> SUFFICES ASSUME TypeOK, LineInv, NEW c \in Readers, NEW i \in 1 .. Len(got[c]) - 1
               PROVE  Before(got[c][i], got[c][i + 1])
    BY DEF InOrder
  <2>1. got[c] \in Seq(Chunks) /\ InLine(got[c]) BY DEF TypeOK, LineInv, ReaderLine
  <2>2. i \in DOMAIN got[c] /\ i + 1 \in DOMAIN got[c] /\ i < i + 1 BY <2>1
  <2> QED BY <2>1, <2>2 DEF InLine
<1> QED BY <1>1, LineAlways, PTL

(* With `file', no two readers ever have chunks of one file.  *)
THEOREM FilesWhole == Spec => []FileToOneReader
<1>1. LineInv => FileToOneReader
  BY DEF LineInv, Separate, FileToOneReader, Has, PerRecord
<1> QED BY <1>1, LineAlways, PTL

-----------------------------------------------------------------------------
(* The place of each chunk. *)

Held == UNION {Has(c) : c \in Readers}

(* Every chunk is somewhere, and only those nobody has are lost.  *)
Whole ==
  /\ Chunks = Coming \cup Held \cup lost
  /\ lost \cap (Coming \cup Held) = {}
  /\ ppc \in {"read", "gone"} => hand = << >>

(* What comes in order is apart.  *)
LEMMA Apart ==
  ASSUME TypeOK, LineInv
  PROVE  /\ Elems(hand) \cap AllElems(files) = {}
         /\ AllElems(channel) \cap (Elems(hand) \cup AllElems(files)) = {}
         /\ Held \cap Coming = {}
         /\ \A c \in Readers : Elems(cur[c]) \cap Elems(got[c]) = {}
         /\ \A c, d \in Readers : c # d => Has(c) \cap Has(d) = {}
<1>1. \A S, T \in SUBSET Chunks : Ahead(S, T) => S \cap T = {}
  BY LaterIs DEF Ahead
<1>2. /\ Elems(hand) \in SUBSET Chunks /\ AllElems(files) \in SUBSET Chunks
      /\ AllElems(channel) \in SUBSET Chunks
  BY InChunks DEF Coming
<1>3. \A c \in Readers : Has(c) \cap Coming = {}
  BY <1>1, InChunks DEF LineInv, ReaderLine
<1>4. ASSUME NEW c \in Readers PROVE Elems(cur[c]) \cap Elems(got[c]) = {}
  <2>1. \A k \in Elems(got[c]) : k \in Chunks BY InChunks DEF Has
  <2>2. \A k \in Chunks : ~Before(k, k) BY ChunkIs DEF Before
  <2> QED BY <2>1, <2>2 DEF LineInv, ReaderLine
<1>5. \A c, d \in Readers : c # d => Has(c) \cap Has(d) = {}
  BY DEF LineInv, Separate
<1>6. Held \cap Coming = {} BY <1>3 DEF Held
<1>7. Elems(hand) \cap AllElems(files) = {}
  BY <1>1, <1>2 DEF LineInv, ProducerLine
<1>8. AllElems(channel) \cap (Elems(hand) \cup AllElems(files)) = {}
  BY <1>1, <1>2 DEF LineInv, ProducerLine
<1> QED BY <1>4, <1>5, <1>6, <1>7, <1>8

LEMMA HeldStays ==
  ASSUME UNCHANGED <<cur, got>>
  PROVE  Held' = Held
BY DEF Held, Has

LEMMA StopWhole ==
  ASSUME TypeOK, LineInv, Whole, Stop, UNCHANGED <<channel, rvars>>
  PROVE  Whole'
<1>1. Held' = Held BY HeldStays DEF rvars
<1>2. /\ Coming' = AllElems(channel) /\ hand' = << >>
      /\ lost' = lost \cup AllElems(files) \cup Elems(hand)
  BY EmptyRow DEF Stop, Coming
<1>3. Coming = AllElems(channel) \cup Elems(hand) \cup AllElems(files) BY DEF Coming
<1> QED BY <1>1, <1>2, <1>3, Apart DEF Whole

LEMMA PutWhole ==
  ASSUME TypeOK, Whole, Put, UNCHANGED rvars
  PROVE  Whole'
<1>1. Held' = Held BY HeldStays DEF rvars
<1>2. channel \in Seq(Seq(Chunks)) /\ hand \in Seq(Chunks) BY DEF TypeOK
<1>3. AllElems(channel') = AllElems(channel) \cup Elems(hand)
  BY <1>2, RowAppend DEF Put
<1>4. Coming' = Coming BY <1>3, EmptyRow DEF Coming, Put
<1> QED BY <1>1, <1>4 DEF Whole, Put

LEMMA ThreadWhole == ASSUME TypeOK, LineInv, Whole, Thread PROVE Whole'
<1>1. CASE ReadChunk
  <2>1. CASE Stop BY <1>1, <2>1, StopWhole DEF ReadChunk
  <2>2. ASSUME NEW f \in DOMAIN files, Begun(f),
               hand' = << Head(files[f]) >>,
               files' = [files EXCEPT ![f] = Tail(@)],
               ppc' = "try", lost' = lost
        PROVE  Whole'
    <3>1. PerRecord /\ hand = << >> /\ UNCHANGED <<channel, rvars>>
      BY <1>1 DEF ReadChunk, Whole
    <3>2. AllElems(files) = Elems(hand') \cup AllElems(files')
      BY <2>2, <3>1, TakeIs DEF PerRecord
    <3>3. Coming' = Coming BY <3>1, <3>2, EmptyRow DEF Coming
    <3>4. Held' = Held BY <3>1, HeldStays DEF rvars
    <3> QED BY <2>2, <3>3, <3>4 DEF Whole
  <2> QED BY <1>1, <2>1, <2>2 DEF ReadChunk
<1>2. CASE NextOffer
  <2>1. CASE Stop BY <1>2, <2>1, StopWhole DEF NextOffer
  <2>2. CASE /\ files # << >> /\ hand' = Head(files) /\ files' = Tail(files)
             /\ ppc' = "send" /\ lost' = lost
    <3>1. hand = << >> /\ UNCHANGED <<channel, rvars>>
      BY <1>2 DEF NextOffer, Whole
    <3>2. files \in Seq(Seq(Chunks)) BY DEF TypeOK
    <3>3. AllElems(files) = Elems(hand') \cup AllElems(files')
      BY <2>2, <3>2, RowTail
    <3>4. Coming' = Coming BY <3>1, <3>3, EmptyRow DEF Coming
    <3>5. Held' = Held BY <3>1, HeldStays DEF rvars
    <3> QED BY <2>2, <3>4, <3>5 DEF Whole
  <2> QED BY <1>2, <2>1, <2>2 DEF NextOffer
<1>3. CASE TrySend
  <2>1. CASE Stop /\ UNCHANGED channel BY <1>3, <2>1, StopWhole DEF TrySend
  <2>2. CASE Put BY <1>3, <2>2, PutWhole DEF TrySend
  <2>3. CASE TryFull
    <3>1. /\ UNCHANGED <<files, hand, channel, lost, rvars>> /\ ppc' = "send"
      BY <1>3, <2>3 DEF TrySend, TryFull
    <3>2. Held' = Held BY <3>1, HeldStays DEF rvars
    <3> QED BY <3>1, <3>2 DEF Whole, Coming
  <2> QED BY <1>3, <2>1, <2>2, <2>3 DEF TrySend
<1>4. CASE Send
  <2>1. CASE Stop /\ UNCHANGED channel BY <1>4, <2>1, StopWhole DEF Send
  <2>2. CASE Put BY <1>4, <2>2, PutWhole DEF Send
  <2> QED BY <1>4, <2>1, <2>2 DEF Send
<1> QED BY <1>1, <1>2, <1>3, <1>4 DEF Thread

(* A reader that leaves, with `taken' what it had just taken from the channel.  *)
LEMMA QuitWhole ==
  ASSUME TypeOK, LineInv, Whole, NEW c \in Readers, NEW remaining, NEW taken,
         QuitWith(c, remaining, taken),
         AllElems(channel) = taken \cup AllElems(remaining),
         taken \cap AllElems(remaining) = {}
  PROVE  Whole'
<1> DEFINE rest == Elems(hand) \cup AllElems(files)
<1>1. /\ UNCHANGED <<pvars, got>>
      /\ cur'[c] = << >> /\ \A d \in Readers \ {c} : cur'[d] = cur[d]
  BY DEF QuitWith, TypeOK
<1>2. PICK dropped :
        /\ lost' = lost \cup taken \cup Elems(cur[c]) \cup dropped
        /\ AllElems(remaining) = AllElems(channel') \cup dropped
        /\ AllElems(channel') \cap dropped = {}
  <2>1. CASE channel' = remaining /\ lost' = lost \cup taken \cup Elems(cur[c]) \cup {}
    BY <2>1
  <2>2. CASE /\ channel' = << >>
             /\ lost' = lost \cup taken \cup Elems(cur[c]) \cup AllElems(remaining)
    BY <2>2, EmptyRow
  <2> QED BY <2>1, <2>2 DEF QuitWith
<1>3. Coming = AllElems(channel) \cup rest /\ Coming' = AllElems(channel') \cup rest
  BY <1>1 DEF Coming, pvars
<1>4. /\ Has(c) = Elems(cur[c]) \cup Elems(got[c]) /\ Has(c)' = Elems(got[c])
      /\ \A d \in Readers \ {c} : Has(d)' = Has(d)
  BY <1>1, EmptyRow DEF Has
<1>5. Held = Held' \cup Elems(cur[c]) BY <1>4 DEF Held
<1>6. Held' \cap Elems(cur[c]) = {} BY <1>4, Apart DEF Held
<1>7. AllElems(channel) \cap rest = {} /\ Held \cap Coming = {}
  BY Apart
<1>8. Chunks = Coming' \cup Held' \cup lost' BY <1>2, <1>3, <1>5 DEF Whole
<1>9. lost' \cap (Coming' \cup Held') = {}
  BY <1>2, <1>3, <1>5, <1>6, <1>7 DEF Whole
<1> QED BY <1>1, <1>8, <1>9 DEF Whole, pvars

LEMMA ReaderWhole ==
  ASSUME TypeOK, LineInv, Whole, NEW c \in Readers,
         Read(c) \/ ReadFails(c) \/ Leave(c) \/ NextFile(c)
  PROVE  Whole'
<1>1. Quit(c) => Whole'
  <2>1. \A r, t : r = channel /\ t = {} /\ QuitWith(c, r, t) => Whole' BY QuitWhole
  <2> QED BY <2>1 DEF Quit
<1>2. CASE Timeout(c) \/ EndOfInput(c) \/ Leave(c)
  BY <1>1, <1>2 DEF Timeout, EndOfInput, Leave
<1>3. CASE Wait(c)
  <2>1. UNCHANGED <<pvars, cur, got, channel, lost>> BY <1>3 DEF Wait
  <2>2. Held' = Held /\ Coming' = Coming BY <2>1, HeldStays DEF Coming, pvars
  <2> QED BY <2>1, <2>2 DEF Whole, pvars
<1>4. CASE ReadFails(c)
  <2>1. CASE channel # << >> /\ QuitWith(c, Tail(channel), Elems(Head(channel)))
    <3>1. PICK r, k : r = Tail(channel) /\ k = Elems(Head(channel)) OBVIOUS
    <3>2. channel \in Seq(Seq(Chunks)) /\ Row(channel) /\ channel # << >>
      BY <2>1 DEF TypeOK, LineInv, ProducerLine
    <3>3. AllElems(channel) = k \cup AllElems(r) /\ Ahead(k, AllElems(r))
      BY <3>1, <3>2, RowTail
    <3>4. AllElems(channel) \subseteq Chunks BY InChunks DEF Coming
    <3>5. k \cap AllElems(r) = {} BY <3>3, <3>4, LaterIs DEF Ahead
    <3> QED BY <2>1, <3>1, <3>3, <3>5, QuitWhole
  <2> QED BY <1>1, <1>4, <2>1 DEF ReadFails
<1>5. CASE NextFile(c)
  <2>1. CASE ~PerRecord
    <3>1. /\ lost' = lost \cup Elems(cur[c])
          /\ cur' = [cur EXCEPT ![c] = << >>]
          /\ UNCHANGED <<pvars, channel, got>>
      BY <1>5, <2>1 DEF NextFile
    <3>2. cur'[c] = << >> /\ \A d \in Readers \ {c} : cur'[d] = cur[d]
      BY <3>1 DEF TypeOK
    <3>3. /\ Has(c) = Elems(cur[c]) \cup Elems(got[c]) /\ Has(c)' = Elems(got[c])
          /\ \A d \in Readers \ {c} : Has(d)' = Has(d)
      BY <3>1, <3>2, EmptyRow DEF Has
    <3>4. Held = Held' \cup Elems(cur[c]) BY <3>3 DEF Held
    <3>5. Held' \cap Elems(cur[c]) = {} BY <3>3, Apart DEF Held
    <3>6. Coming' = Coming BY <3>1 DEF Coming, pvars
    <3> QED BY <3>1, <3>4, <3>5, <3>6, Apart DEF Whole, pvars
  <2> QED BY <1>1, <1>5, <2>1 DEF NextFile
<1>6. ASSUME NextChunk(c) \/ Receive(c),
             NEW s \in Seq(Chunks), Deliver(c, s),
             Held' \cup Coming' = Held \cup Coming, UNCHANGED <<pvars, lost>>
      PROVE  Whole'
  BY <1>6 DEF Whole, pvars
<1>7. ASSUME NEW s \in Seq(Chunks), Deliver(c, s)
      PROVE  /\ Has(c)' = Elems(got[c]) \cup Elems(s)
             /\ \A d \in Readers \ {c} : Has(d)' = Has(d)
  <2>1. CASE s = << >>
    <3>1. /\ got' = got /\ cur'[c] = << >>
          /\ \A d \in Readers \ {c} : cur'[d] = cur[d]
      BY <1>7, <2>1 DEF Deliver, TypeOK
    <3> QED BY <2>1, <3>1, EmptyRow DEF Has
  <2>2. CASE s # << >>
    <3>1. PICK h, t : h = Head(s) /\ t = Tail(s) OBVIOUS
    <3>2. h \in Chunks /\ Elems(s) = {h} \cup Elems(t) BY <2>2, <3>1, HeadTail
    <3>3. got[c] \in Seq(Chunks) BY DEF TypeOK
    <3>4. Elems(Append(got[c], h)) = Elems(got[c]) \cup {h} BY <3>2, <3>3, AppendIs
    <3>5. /\ cur'[c] = t /\ got'[c] = Append(got[c], h)
          /\ \A d \in Readers \ {c} : cur'[d] = cur[d] /\ got'[d] = got[d]
      BY <1>7, <2>2, <3>1 DEF Deliver, TypeOK
    <3> QED BY <3>2, <3>4, <3>5 DEF Has
  <2> QED BY <2>1, <2>2
<1>8. CASE NextChunk(c)
  <2>1. /\ cur[c] \in Seq(Chunks) /\ Deliver(c, cur[c])
        /\ UNCHANGED <<pvars, channel, lost>>
    BY <1>8 DEF NextChunk, TypeOK
  <2>2. Has(c)' = Has(c) /\ \A d \in Readers \ {c} : Has(d)' = Has(d)
    BY <1>7, <2>1 DEF Has
  <2>3. Held' = Held BY <2>2 DEF Held
  <2>4. Coming' = Coming BY <2>1 DEF Coming, pvars
  <2> QED BY <1>6, <1>8, <2>1, <2>3, <2>4
<1>9. CASE Receive(c)
  <2>1. PICK s, r : s = Head(channel) /\ r = Tail(channel) OBVIOUS
  <2>2. /\ channel \in Seq(Seq(Chunks)) /\ channel # << >> /\ cur[c] = << >>
        /\ s \in Seq(Chunks) /\ channel' = r /\ Deliver(c, s)
        /\ UNCHANGED <<pvars, lost>>
    BY <1>9, <2>1 DEF Receive, TypeOK
  <2>3. AllElems(channel) = Elems(s) \cup AllElems(r) BY <2>1, <2>2, RowTail
  <2>4. Has(c)' = Has(c) \cup Elems(s) /\ \A d \in Readers \ {c} : Has(d)' = Has(d)
    BY <1>7, <2>2, EmptyRow DEF Has
  <2>5. Held' = Held \cup Elems(s) BY <2>4 DEF Held
  <2>6. Coming = Coming' \cup Elems(s) BY <2>2, <2>3 DEF Coming, pvars
  <2> QED BY <1>6, <1>9, <2>2, <2>5, <2>6
<1> QED BY <1>2, <1>3, <1>4, <1>5, <1>8, <1>9 DEF Read

LEMMA InitWhole == Init => Whole
<1> SUFFICES ASSUME Init PROVE Whole OBVIOUS
<1>1. hand = << >> /\ channel = << >> /\ lost = {} /\ Held = {}
  BY EmptyRow DEF Init, Held, Has
<1>2. Chunks = AllElems(files)
  <2>1. /\ DOMAIN files = DOMAIN Files
        /\ \A f \in DOMAIN Files : files[f] = File(f)
    BY DEF Init
  <2>2. \A f \in DOMAIN Files : Elems(File(f)) = {f} \X (1 .. Files[f])
    BY DEF Elems, File
  <2> QED BY <2>1, <2>2 DEF AllElems, Chunks
<1> QED BY <1>1, <1>2, EmptyRow DEF Whole, Coming

LEMMA WholeAlways == Spec => [](TypeOK /\ LineInv /\ Whole)
<1>1. TypeOK /\ LineInv /\ Whole /\ [Next]_vars => Whole'
  <2>1. ASSUME Whole, UNCHANGED vars PROVE Whole'
    BY <2>1, HeldStays DEF Whole, Coming, vars, pvars, rvars
  <2> QED BY <2>1, ReaderSteps, ThreadWhole, ReaderWhole
<1> QED BY <1>1, InitWhole, LineAlways, PTL DEF Spec

(* A chunk is in one sequence of a row at most.  *)
LEMMA RowOnce ==
  ASSUME NEW ss \in Seq(Seq(Chunks)), Row(ss), NEW i \in DOMAIN ss, NEW j \in DOMAIN ss,
         NEW k \in Elems(ss[i]), k \in Elems(ss[j])
  PROVE  i = j
<1>1. i \in Nat /\ j \in Nat OBVIOUS
<1>2. k \in Chunks
  <2>1. ss[i] \in Seq(Chunks) OBVIOUS
  <2> QED BY <2>1 DEF Elems
<1>3. ~Later(k, k) BY <1>2, LaterIs
<1>4. ~(i < j) /\ ~(j < i) BY <1>3 DEF Row, Ahead
<1> QED BY <1>1, <1>4

(* The parts of Places.  *)
LEMMA PlacesAre ==
  ASSUME NEW k, NEW p \in Places(k)
  PROVE  \/ \E f \in DOMAIN files : k \in Elems(files[f]) /\ p = <<"files", f>>
         \/ \E i \in DOMAIN channel : k \in Elems(channel[i]) /\ p = <<"channel", i>>
         \/ \E c \in Readers : k \in Elems(cur[c]) /\ p = <<"cur", c>>
         \/ \E c \in Readers : k \in Elems(got[c]) /\ p = <<"got", c>>
         \/ k \in Elems(hand) /\ p = <<"hand">>
         \/ k \in lost /\ p = <<"lost">>
BY DEF Places

LEMMA PlacesHave ==
  ASSUME NEW k
  PROVE  /\ \A f \in DOMAIN files : k \in Elems(files[f]) => <<"files", f>> \in Places(k)
         /\ \A i \in DOMAIN channel : k \in Elems(channel[i]) => <<"channel", i>> \in Places(k)
         /\ \A c \in Readers : k \in Elems(cur[c]) => <<"cur", c>> \in Places(k)
         /\ \A c \in Readers : k \in Elems(got[c]) => <<"got", c>> \in Places(k)
         /\ k \in Elems(hand) => <<"hand">> \in Places(k)
         /\ k \in lost => <<"lost">> \in Places(k)
BY DEF Places

(* A chunk is somewhere ...  *)
LEMMA Somewhere ==
  ASSUME Whole, NEW k \in Chunks
  PROVE  Places(k) # {}
<1>1. \/ k \in AllElems(files) \/ k \in AllElems(channel) \/ k \in Elems(hand)
      \/ k \in lost \/ \E c \in Readers : k \in Has(c)
  BY DEF Whole, Coming, Held
<1>2. CASE k \in AllElems(files) \/ k \in AllElems(channel)
  BY <1>2, PlacesHave DEF AllElems
<1>3. CASE k \in Elems(hand) \/ k \in lost \/ \E c \in Readers : k \in Has(c)
  BY <1>3, PlacesHave DEF Has
<1> QED BY <1>1, <1>2, <1>3

(* ... and not in two places.  *)
LEMMA NotTwice ==
  ASSUME TypeOK, LineInv, Whole, NEW k \in Chunks,
         NEW p \in Places(k), NEW q \in Places(k)
  PROVE  p = q
<1> DEFINE InFiles(x) == \E f \in DOMAIN files : k \in Elems(files[f]) /\ x = <<"files", f>>
           InChannel(x) == \E i \in DOMAIN channel : k \in Elems(channel[i]) /\ x = <<"channel", i>>
           InCur(x) == \E c \in Readers : k \in Elems(cur[c]) /\ x = <<"cur", c>>
           InGot(x) == \E c \in Readers : k \in Elems(got[c]) /\ x = <<"got", c>>
           InHand(x) == k \in Elems(hand) /\ x = <<"hand">>
           InLost(x) == k \in lost /\ x = <<"lost">>
<1>1. \A x \in Places(k) :
        InFiles(x) \/ InChannel(x) \/ InCur(x) \/ InGot(x) \/ InHand(x) \/ InLost(x)
  BY PlacesAre
<1>2. \A x : /\ InFiles(x) => k \in AllElems(files)
             /\ InChannel(x) => k \in AllElems(channel)
             /\ InHand(x) => k \in Elems(hand)
             /\ InCur(x) \/ InGot(x) => k \in Held
             /\ InLost(x) => k \in lost
  BY DEF AllElems, Held, Has
<1>3. /\ files \in Seq(Seq(Chunks)) /\ Row(files)
      /\ channel \in Seq(Seq(Chunks)) /\ Row(channel)
  BY DEF TypeOK, LineInv, ProducerLine
<1>4. \A x, y : InFiles(x) /\ InFiles(y) => x = y BY <1>3, RowOnce
<1>5. \A x, y : InChannel(x) /\ InChannel(y) => x = y BY <1>3, RowOnce
<1>6. \A c, d \in Readers : k \in Has(c) /\ k \in Has(d) => c = d BY Apart
<1>7. \A x, y : InCur(x) /\ InCur(y) => x = y BY <1>6 DEF Has
<1>8. \A x, y : InGot(x) /\ InGot(y) => x = y BY <1>6 DEF Has
<1>9. \A x, y : ~(InCur(x) /\ InGot(y)) BY <1>6, Apart DEF Has
<1>10. /\ ~(k \in AllElems(files) /\ k \in Elems(hand))
       /\ ~(k \in AllElems(channel) /\ k \in Elems(hand) \cup AllElems(files))
       /\ ~(k \in Held /\ k \in AllElems(files) \cup AllElems(channel) \cup Elems(hand))
       /\ ~(k \in lost
             /\ k \in AllElems(files) \cup AllElems(channel) \cup Elems(hand) \cup Held)
  BY Apart DEF Whole, Coming
<1>11. \A x, y : (InHand(x) /\ InHand(y)) \/ (InLost(x) /\ InLost(y)) => x = y
  OBVIOUS
<1> HIDE DEF InFiles, InChannel, InCur, InGot, InHand, InLost
<1> QED BY <1>1, <1>2, <1>4, <1>5, <1>7, <1>8, <1>9, <1>10, <1>11

(* Whatever the strategy and however the readers come and go: no chunk is dropped
   on its way, and none is handed out twice.  *)
THEOREM OnePlace == Spec => []ExactlyOnePlace
<1>1. TypeOK /\ LineInv /\ Whole => ExactlyOnePlace
  <2> SUFFICES ASSUME TypeOK, LineInv, Whole, NEW k \in Chunks
               PROVE  Cardinality(Places(k)) = 1
    BY DEF ExactlyOnePlace
  <2>1. PICK p : p \in Places(k) BY Somewhere
  <2>2. Places(k) = {p} BY <2>1, NotTwice
  <2> QED BY <2>2, FS_Singleton
<1> QED BY <1>1, WholeAlways, PTL

-----------------------------------------------------------------------------
(* The start heuristic. *)

(* The threshold doubles with the workers: the subsets of a set that gains one
   element (2 << n_workers).  *)
LEMMA ThresholdIs == \A n \in Nat : 2 ^ (n + 1) \in Nat \ {0}
<1> TAKE n \in Nat
<1> DEFINE S == 1 .. n + 1
<1>1. IsFiniteSet(S) /\ Cardinality(S) = n + 1 BY FS_Interval
<1>2. IsFiniteSet(SUBSET S) /\ Cardinality(SUBSET S) = 2 ^ (n + 1)
  BY <1>1, FS_SUBSET
<1>3. SUBSET S # {} OBVIOUS
<1> QED BY <1>2, <1>3, FS_CardinalityType, FS_EmptySet

Working == {c \in Extra : rpc[c] = "read"}

LEMMA WorkingIs == IsFiniteSet(Working) /\ Cardinality(Working) \in Nat
<1>1. Working \subseteq Extra BY DEF Working
<1> QED BY <1>1, ConstantsOK, FS_Subset, FS_CardinalityType

(* No step but the answer to a token puts a reader to work. *)
LEMMA FewerWork ==
  ASSUME Working' \subseteq Working
  PROVE  /\ Cardinality(Working') \in Nat /\ Cardinality(Working) \in Nat
         /\ Cardinality(Working') <= Cardinality(Working)
BY WorkingIs, FS_Subset, FS_CardinalityType

LEMMA InitStep == Init => HeuristicInStep
<1> SUFFICES ASSUME Init PROVE HeuristicInStep OBVIOUS
<1>1. failures = 0 /\ nworkers = 0 /\ tokens = 0 BY DEF Init
<1>2. Threshold \in Nat \ {0} BY <1>1, ThresholdIs DEF Threshold
<1>3. Working = {} BY ConstantsOK DEF Init, Working, Readers
<1>4. Cardinality(Working) = 0 BY <1>3, FS_EmptySet
<1> QED BY <1>1, <1>2, <1>4 DEF HeuristicInStep, Working

LEMMA ThreadInStep == ASSUME TypeOK, HeuristicInStep, Thread PROVE HeuristicInStep'
<1>1. nworkers \in Nat /\ failures \in Nat /\ tokens \in Nat
      /\ Cardinality(Working) \in Nat
  BY ConstantsOK, WorkingIs DEF TypeOK
<1>2. Threshold \in Nat \ {0} BY <1>1, ThresholdIs DEF Threshold
<1>3. failures < Threshold /\ (PerRecord => Cardinality(Working) + tokens <= nworkers)
  BY DEF HeuristicInStep, Working
<1>4. Working' = Working /\ strategy' = strategy
  BY DEF Thread, ReadChunk, NextOffer, TrySend, Send, rvars, Working
<1>5. ASSUME failures' \in {0, failures}, UNCHANGED <<nworkers, tokens>>
      PROVE  HeuristicInStep'
  BY <1>2, <1>3, <1>4, <1>5 DEF HeuristicInStep, Threshold, PerRecord, Working
<1>6. CASE TryFull
  <2>1. CASE failures + 1 = Threshold /\ tokens < ChanSize
    <3>1. failures' = 0 /\ tokens' = tokens + 1 /\ nworkers' = nworkers + 1
      BY <1>6, <2>1 DEF TryFull
    <3>2. Threshold' \in Nat \ {0}
      BY <1>1, <3>1, ThresholdIs DEF Threshold
    <3>3. failures' < Threshold' BY <3>1, <3>2
    <3>4. PerRecord' => Cardinality(Working') + tokens' <= nworkers'
      BY <1>1, <1>3, <1>4, <3>1 DEF PerRecord
    <3> QED BY <3>3, <3>4 DEF HeuristicInStep, Working
  <2>2. CASE ~(failures + 1 = Threshold /\ tokens < ChanSize)
    <3>1. /\ failures' = IF failures + 1 = Threshold THEN 0 ELSE failures + 1
          /\ UNCHANGED <<nworkers, tokens>>
      BY <1>6, <2>2 DEF TryFull
    <3>2. Threshold' = Threshold BY <3>1 DEF Threshold
    <3>3. failures' < Threshold' BY <1>1, <1>2, <1>3, <3>1, <3>2
    <3>4. PerRecord' => Cardinality(Working') + tokens' <= nworkers'
      BY <1>3, <1>4, <3>1 DEF PerRecord
    <3> QED BY <3>3, <3>4 DEF HeuristicInStep, Working
  <2> QED BY <2>1, <2>2
<1>7. CASE ReadChunk BY <1>5, <1>7 DEF ReadChunk, Stop
<1>8. CASE NextOffer BY <1>5, <1>8 DEF NextOffer, Stop
<1>9. CASE TrySend BY <1>5, <1>6, <1>9 DEF TrySend, Stop, Put
<1>10. CASE Send BY <1>5, <1>10 DEF Send, Stop, Put
<1> QED BY <1>7, <1>8, <1>9, <1>10 DEF Thread

LEMMA ReaderInStep ==
  ASSUME TypeOK, HeuristicInStep, NEW c \in Readers,
         Read(c) \/ ReadFails(c) \/ Leave(c) \/ NextFile(c)
  PROVE  HeuristicInStep'
<1>1. nworkers \in Nat /\ tokens \in Nat /\ Cardinality(Working) \in Nat
  BY ConstantsOK, WorkingIs DEF TypeOK
<1>2. failures < Threshold /\ (PerRecord => Cardinality(Working) + tokens <= nworkers)
  BY DEF HeuristicInStep, Working
<1>3. UNCHANGED <<failures, nworkers, strategy>>
  BY DEF Read, Wait, Timeout, NextChunk, Receive, EndOfInput, ReadFails, Leave,
         NextFile, Quit, QuitWith, pvars
<1>4. failures' < Threshold' BY <1>2, <1>3 DEF Threshold
<1>5. ASSUME tokens' = tokens, Working' \subseteq Working PROVE HeuristicInStep'
  <2>1. Cardinality(Working') <= Cardinality(Working) /\ Cardinality(Working') \in Nat
    BY <1>5, FewerWork
  <2>2. PerRecord' => Cardinality(Working') + tokens' <= nworkers'
    BY <1>1, <1>2, <1>3, <1>5, <2>1 DEF PerRecord
  <2> QED BY <1>4, <2>2 DEF HeuristicInStep, Working
<1>6. CASE Wait(c)
  <2>1. rpc[c] = "wait" /\ rpc' = [rpc EXCEPT ![c] = "read"]
        /\ (PerRecord => tokens > 0 /\ tokens' = tokens - 1)
    BY <1>6 DEF Wait
  <2>2. Working' \subseteq Working \cup {c}
    BY <2>1 DEF Working, TypeOK
  <2>3. Cardinality(Working') <= Cardinality(Working) + 1 /\ Cardinality(Working') \in Nat
    <3>1. PICK W : W = Working \cup {c} OBVIOUS
    <3>2. IsFiniteSet(W) BY <3>1, WorkingIs, FS_AddElement
    <3>3. Cardinality(W) = Cardinality(Working) \/ Cardinality(W) = Cardinality(Working) + 1
      BY <3>1, WorkingIs, FS_AddElement
    <3>4. Cardinality(W) <= Cardinality(Working) + 1 BY <1>1, <3>3
    <3>5. IsFiniteSet(Working') /\ Cardinality(Working') <= Cardinality(W)
      BY <2>2, <3>1, <3>2, FS_Subset
    <3>6. Cardinality(Working') \in Nat /\ Cardinality(W) \in Nat
      BY <3>2, <3>5, FS_CardinalityType
    <3> QED BY <1>1, <3>4, <3>5, <3>6
  <2>4. PerRecord' => Cardinality(Working') + tokens' <= nworkers'
    BY <1>1, <1>2, <1>3, <2>1, <2>3 DEF PerRecord
  <2> QED BY <1>4, <2>4 DEF HeuristicInStep, Working
<1>7. ASSUME NEW r, NEW k, QuitWith(c, r, k) PROVE HeuristicInStep'
  <2>1. tokens' = tokens /\ rpc' = [rpc EXCEPT ![c] = "gone"]
    BY <1>7 DEF QuitWith
  <2>2. Working' \subseteq Working BY <2>1 DEF Working, TypeOK
  <2> QED BY <1>5, <2>1, <2>2
<1>8. CASE UNCHANGED <<tokens, rpc>> BY <1>5, <1>8 DEF Working
<1>9. Wait(c) \/ UNCHANGED <<tokens, rpc>> \/ \E r, k : QuitWith(c, r, k)
  BY DEF Read, Timeout, NextChunk, Receive, EndOfInput, ReadFails, Leave, NextFile, Quit
<1> QED BY <1>6, <1>7, <1>8, <1>9

(* HeuristicInStep, for any number of workers: the count of full channels is
   always below the next threshold, so that the equality with which the thread
   compares it cannot be missed, and no more readers are at work or called than
   n_workers says.  *)
THEOREM InStep == Spec => []HeuristicInStep
<1>1. TypeOK /\ HeuristicInStep /\ [Next]_vars => HeuristicInStep'
  <2>1. ASSUME HeuristicInStep, UNCHANGED vars PROVE HeuristicInStep'
    BY <2>1 DEF HeuristicInStep, Threshold, PerRecord, vars, pvars, rvars
  <2> QED BY <2>1, ReaderSteps, ThreadInStep, ReaderInStep
<1> QED BY <1>1, InitStep, TypeCorrect, PTL DEF Spec

(* The readers that have had their chance to answer a token. *)
Called == {c \in Extra : rpc[c] # "wait"}
FewTokens == rpc[Main] # "wait" /\ nworkers <= tokens + Cardinality(Called)

LEMMA CalledIs ==
  /\ IsFiniteSet(Called) /\ Cardinality(Called) \in Nat
  /\ Cardinality(Called) <= Cardinality(Extra) /\ Cardinality(Extra) \in Nat
<1>1. Called \subseteq Extra BY DEF Called
<1> QED BY <1>1, ConstantsOK, FS_Subset, FS_CardinalityType

(* Nobody goes back to waiting. *)
LEMMA MoreCalled ==
  ASSUME TypeOK, NEW c \in Readers, NEW l \in {"read", "gone"},
         rpc' = [rpc EXCEPT ![c] = l]
  PROVE  /\ Cardinality(Called) <= Cardinality(Called') /\ Cardinality(Called') \in Nat
         /\ c \in Extra /\ rpc[c] = "wait" =>
              Cardinality(Called') = Cardinality(Called) + 1
<1>1. \A d \in Readers : rpc'[d] = IF d = c THEN l ELSE rpc[d] BY DEF TypeOK
<1>2. \A d \in Extra : d \in Called' <=> d \in Called \/ d = c
  BY <1>1 DEF Called, Readers
<1>3. Called \subseteq Called' /\ Called' \subseteq Extra BY <1>2 DEF Called
<1>4. IsFiniteSet(Called') /\ Cardinality(Called') \in Nat
  BY <1>3, ConstantsOK, FS_Subset, FS_CardinalityType
<1>5. Cardinality(Called) <= Cardinality(Called') BY <1>3, <1>4, FS_Subset
<1>6. ASSUME c \in Extra, rpc[c] = "wait"
      PROVE  Cardinality(Called') = Cardinality(Called) + 1
  <2>1. c \notin Called BY <1>6 DEF Called
  <2>2. Called' = Called \cup {c} BY <1>2, <1>3, <1>6
  <2> QED BY <2>1, <2>2, CalledIs, FS_AddElement
<1> QED BY <1>4, <1>5, <1>6

LEMMA ReaderTokens ==
  ASSUME TypeOK, FewTokens, NEW c \in Readers,
         Read(c) \/ ReadFails(c) \/ Leave(c) \/ NextFile(c)
  PROVE  FewTokens'
<1>1. nworkers \in Nat /\ tokens \in Nat /\ Cardinality(Called) \in Nat
  BY ConstantsOK, CalledIs DEF TypeOK
<1>2. nworkers' = nworkers
  BY DEF Read, Wait, Timeout, NextChunk, Receive, EndOfInput, ReadFails, Leave,
         NextFile, Quit, QuitWith, pvars
<1> USE DEF FewTokens
<1>7. rpc[Main] # "wait" /\ rpc \in [Readers -> {"wait", "read", "gone"}]
  BY DEF TypeOK
<1>3. CASE Wait(c)
  <2>1. rpc[c] = "wait" /\ rpc' = [rpc EXCEPT ![c] = "read"]
        /\ tokens' \in {tokens, tokens - 1}
    BY <1>3 DEF Wait
  <2>2. c \in Extra /\ Cardinality(Called') = Cardinality(Called) + 1
    <3>1. c \in Extra BY <2>1 DEF FewTokens, Readers
    <3> QED BY <2>1, <3>1, MoreCalled
  <2> QED BY <1>1, <1>2, <1>7, <2>1, <2>2
<1>4. ASSUME NEW r, NEW k, QuitWith(c, r, k) PROVE FewTokens'
  <2>1. tokens' = tokens /\ rpc' = [rpc EXCEPT ![c] = "gone"]
    BY <1>4 DEF QuitWith
  <2>2. Cardinality(Called) <= Cardinality(Called') /\ Cardinality(Called') \in Nat
    BY <2>1, MoreCalled
  <2> QED BY <1>1, <1>2, <1>7, <2>1, <2>2
<1>5. CASE UNCHANGED <<tokens, rpc>> BY <1>2, <1>5 DEF FewTokens, Called
<1>6. Wait(c) \/ UNCHANGED <<tokens, rpc>> \/ \E r, k : QuitWith(c, r, k)
  BY DEF Read, Timeout, NextChunk, Receive, EndOfInput, ReadFails, Leave, NextFile, Quit
<1> QED BY <1>3, <1>4, <1>5, <1>6

LEMMA ThreadTokens == ASSUME TypeOK, FewTokens, Thread PROVE FewTokens'
<1>1. nworkers \in Nat /\ tokens \in Nat /\ Cardinality(Called) \in Nat
  BY ConstantsOK, CalledIs DEF TypeOK
<1>2. rpc' = rpc /\ Called' = Called
  BY DEF Thread, ReadChunk, NextOffer, TrySend, Send, rvars, Called
<1>3. \/ UNCHANGED <<nworkers, tokens>>
      \/ nworkers' = nworkers + 1 /\ tokens' = tokens + 1
  BY DEF Thread, ReadChunk, NextOffer, TrySend, Send, TryFull, Put, Stop
<1> QED BY <1>1, <1>2, <1>3 DEF FewTokens

(* n_workers counts tokens in the channel and readers that have answered one: in
   a run with 29 workers and tokens at most, the threshold 2 << n_workers, which
   the model does not cut to 32 bits, is what the code computes (chunk.rs, new).  *)
THEOREM WorkersBounded == Spec => [](nworkers <= Cardinality(Extra) + ChanSize)
<1>1. Init => FewTokens
  BY ConstantsOK, CalledIs DEF Init, FewTokens, Readers
<1>2. TypeOK /\ FewTokens /\ [Next]_vars => FewTokens'
  <2>1. ASSUME FewTokens, UNCHANGED vars PROVE FewTokens'
    BY <2>1 DEF FewTokens, Called, vars, pvars, rvars
  <2> QED BY <2>1, ReaderSteps, ThreadTokens, ReaderTokens
<1>3. TypeOK /\ FewTokens => nworkers <= Cardinality(Extra) + ChanSize
  <2> SUFFICES ASSUME TypeOK, FewTokens
               PROVE  nworkers <= Cardinality(Extra) + ChanSize
    OBVIOUS
  <2>1. nworkers \in Nat /\ tokens \in Nat /\ tokens <= ChanSize /\ ChanSize \in Nat
    BY ConstantsOK DEF TypeOK
  <2> QED BY <2>1, CalledIs DEF FewTokens
<1> QED BY <1>1, <1>2, <1>3, TypeCorrect, PTL DEF Spec
=============================================================================
