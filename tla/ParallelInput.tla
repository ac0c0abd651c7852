--------------------------- MODULE ParallelInput ---------------------------
(***************************************************************************)
(* The input of a parallel run, src/src/runtime/splitter/chunk.rs: how the *)
(* chunks of several files reach the readers of the threads.               *)
(*                                                                         *)
(* With `record' (ShardPerRecord) a producer thread reads all files, one   *)
(* after the other (ChainedChunkProducer), and sends their chunks through  *)
(* a channel that the readers share (ParallelChunkProducer).  It asks for  *)
(* another reader, with a start token, when it finds the channel full too  *)
(* often; a reader that gets no token within two seconds gives up.  With   *)
(* `file' (ShardPerFile) a thread offers whole files through a channel of  *)
(* one, and each reader reads the chunks of one file after the other       *)
(* (ShardedChunkProducer).                                                 *)
(*                                                                         *)
(* A chunk is <<f, i>>, the i-th chunk of the f-th file.  What goes        *)
(* through the channel is a sequence of chunks: a single one with          *)
(* `record', all of a file with `file'.                                    *)
(***************************************************************************)
EXTENDS Naturals, Sequences, FiniteSets

CONSTANTS
  Strategies,  \* subset of {"record", "file"}
  Main,        \* the reader of the main thread
  Extra,       \* the readers of the worker threads
  Files,       \* the number of chunks of each file
  ChanSize,    \* chan_size
  Errors,      \* may reading fail?
  Leaving      \* readers whose script may use nextfile or end early

Readers == Extra \cup {Main}
File(f) == [i \in 1 .. Files[f] |-> <<f, i>>]
Chunks == UNION {{f} \X (1 .. Files[f]) : f \in DOMAIN Files}

ASSUME ConstantsOK ==
  /\ Strategies \subseteq {"record", "file"}
  /\ Main \notin Extra /\ IsFiniteSet(Extra)
  /\ Files \in Seq(Nat)
  /\ ChanSize \in Nat \ {0}
  /\ Errors \in BOOLEAN
  /\ Leaving \subseteq Readers

VARIABLES
  strategy,
  ppc,        \* the thread: "read", "try", "send", "gone"
  files,      \* the chunks of each file it has left
  hand,       \* what it is about to send
  failures,   \* n_failures
  nworkers,   \* n_workers
  channel,
  spent,      \* used chunks on their way back to the producer
  tokens,     \* start tokens in their channel
  rpc,        \* each reader: "wait", "read", "gone"
  cur,        \* the chunks its file has left (ProducerState::Main)
  got,        \* the chunks it has received (history)
  lost        \* chunks given up by a skip, an early end or an error (history)

pvars == <<ppc, files, hand, failures, nworkers>>
rvars == <<rpc, cur, got>>
vars == <<strategy, pvars, channel, spent, tokens, rvars, lost>>

PerRecord == strategy = "record"
Elems(s) == {s[i] : i \in DOMAIN s}
AllElems(ss) == UNION {Elems(ss[i]) : i \in DOMAIN ss}

Init ==
  /\ strategy \in Strategies
  /\ ppc = "read" /\ files = [f \in DOMAIN Files |-> File(f)] /\ hand = << >>
  /\ failures = 0 /\ nworkers = 0
  /\ channel = << >> /\ spent = 0 /\ tokens = 0
  /\ rpc = [c \in Readers |-> IF c = Main THEN "read" ELSE "wait"]
  /\ cur = [c \in Readers |-> << >>] /\ got = [c \in Readers |-> << >>]
  /\ lost = {}

------------------------------------------------------------------------------
(* The thread. *)

Connected == \E c \in Readers : rpc[c] # "gone"
\* Mutant: the channel takes one more than its size.
HasRoom_OneMore == Len(channel) <= IF PerRecord THEN ChanSize ELSE 1

HasRoom == Len(channel) < IF PerRecord THEN ChanSize ELSE 1

\* The thread returns, with whatever it has not sent.
Stop ==
  /\ ppc' = "gone" /\ files' = << >> /\ hand' = << >>
  /\ lost' = lost \cup AllElems(files) \cup Elems(hand)
  /\ UNCHANGED <<failures, nworkers>>

\* Mutant: the vector of files, popped from its end, is not reversed first.
Begun_Reversed(f) ==
  files[f] # << >> /\ \A g \in DOMAIN files : g > f => files[g] = << >>

\* ChainedChunkProducer::get_chunk gets to file f, past files that are done.
Begun(f) ==
  files[f] # << >> /\ \A g \in DOMAIN files : g < f => files[g] = << >>

AllDone == \A f \in DOMAIN files : files[f] = << >>

\* Mutant: the end of the input is tried again.
ReadChunk_Retries ==
  /\ PerRecord /\ ppc = "read"
  /\ spent' = IF spent = 0 THEN 0 ELSE spent - 1
  /\ \/ AllDone /\ UNCHANGED <<pvars, lost>>
     \/ \E f \in DOMAIN files :
          /\ Begun(f)
          /\ hand' = << Head(files[f]) >>
          /\ files' = [files EXCEPT ![f] = Tail(@)]
          /\ ppc' = "try"
          /\ UNCHANGED <<failures, nworkers, lost>>
  /\ UNCHANGED <<strategy, channel, tokens, rvars>>

\* An error ends the thread like the end of the input.
ReadChunk ==
  /\ PerRecord /\ ppc = "read"
  /\ spent' = IF spent = 0 THEN 0 ELSE spent - 1
  /\ \/ /\ Errors \/ AllDone
        /\ Stop
     \/ \E f \in DOMAIN files :
          /\ Begun(f)
          /\ hand' = << Head(files[f]) >>
          /\ files' = [files EXCEPT ![f] = Tail(@)]
          /\ ppc' = "try"
          /\ UNCHANGED <<failures, nworkers, lost>>
  /\ UNCHANGED <<strategy, channel, tokens, rvars>>

NextOffer ==
  /\ ~PerRecord /\ ppc = "read"
  /\ \/ /\ files = << >> /\ Stop
     \/ /\ files # << >>
        /\ hand' = Head(files) /\ files' = Tail(files) /\ ppc' = "send"
        /\ UNCHANGED <<failures, nworkers, lost>>
  /\ UNCHANGED <<strategy, channel, spent, tokens, rvars>>

Put ==
  /\ channel' = Append(channel, hand) /\ hand' = << >> /\ ppc' = "read"
  /\ UNCHANGED <<files, nworkers, tokens, lost>>

Threshold == 2 ^ (nworkers + 1)

\* Mutant: n_failures starts again only when a token was sent.
TryFull_NoReset ==
  /\ Connected /\ ~HasRoom
  /\ ppc' = "send"
  /\ LET offered == failures + 1 = Threshold /\ tokens < ChanSize
     IN /\ failures' = IF offered THEN 0 ELSE failures + 1
        /\ tokens' = IF offered THEN tokens + 1 ELSE tokens
        /\ nworkers' = IF offered THEN nworkers + 1 ELSE nworkers
  /\ UNCHANGED <<files, hand, channel, lost>>

\* try_send finds the channel full; every so often that is a reason to start
\* another reader.
TryFull ==
  /\ Connected /\ ~HasRoom
  /\ ppc' = "send"
  /\ LET enough == failures + 1 = Threshold
         offered == enough /\ tokens < ChanSize
     IN /\ failures' = IF enough THEN 0 ELSE failures + 1
        /\ tokens' = IF offered THEN tokens + 1 ELSE tokens
        /\ nworkers' = IF offered THEN nworkers + 1 ELSE nworkers
  /\ UNCHANGED <<files, hand, channel, lost>>

\* Mutant: the chunk that came back with Full is not sent again.
TrySend_Drops ==
  /\ ppc = "try"
  /\ \/ ~Connected /\ Stop /\ UNCHANGED <<channel, tokens>>
     \/ Connected /\ HasRoom /\ Put /\ failures' = 0
     \/ /\ Connected /\ ~HasRoom
        /\ ppc' = "read" /\ hand' = << >> /\ failures' = failures + 1
        /\ UNCHANGED <<files, nworkers, channel, tokens, lost>>
  /\ UNCHANGED <<strategy, spent, rvars>>

TrySend ==
  /\ ppc = "try"
  /\ \/ ~Connected /\ Stop /\ UNCHANGED <<channel, tokens>>
     \/ Connected /\ HasRoom /\ Put /\ failures' = 0
     \/ TryFull
  /\ UNCHANGED <<strategy, spent, rvars>>

Send ==
  /\ ppc = "send"
  /\ \/ ~Connected /\ Stop /\ UNCHANGED <<channel, tokens>>
     \/ Connected /\ HasRoom /\ Put /\ UNCHANGED failures
  /\ UNCHANGED <<strategy, spent, rvars>>

------------------------------------------------------------------------------
(* The readers. *)

\* c is dropped with all it has; the last receiver takes along what the channel
\* is left with.
QuitWith(c, remaining, taken) ==
  LET last == \A d \in Readers \ {c} : rpc[d] = "gone" IN
  /\ rpc' = [rpc EXCEPT ![c] = "gone"]
  /\ cur' = [cur EXCEPT ![c] = << >>]
  /\ channel' = IF last THEN << >> ELSE remaining
  /\ lost' = lost \cup taken \cup Elems(cur[c])
                  \cup (IF last THEN AllElems(remaining) ELSE {})
  /\ UNCHANGED <<strategy, pvars, spent, tokens, got>>
Quit(c) == QuitWith(c, channel, {})

\* A ShardedChunkProducer does not wait.
Wait(c) ==
  /\ rpc[c] = "wait" /\ (PerRecord => tokens > 0)
  /\ rpc' = [rpc EXCEPT ![c] = "read"]
  /\ tokens' = IF PerRecord THEN tokens - 1 ELSE tokens
  /\ UNCHANGED <<strategy, pvars, channel, spent, cur, got, lost>>

\* Two seconds are over, or there is no producer any more.
Timeout(c) ==
  /\ PerRecord /\ rpc[c] = "wait" /\ tokens = 0
  /\ Quit(c)

\* c receives the first chunk of s and has the rest of it to read.
Deliver(c, s) ==
  IF s = << >>
  THEN cur' = [cur EXCEPT ![c] = << >>] /\ got' = got
  ELSE cur' = [cur EXCEPT ![c] = Tail(s)] /\ got' = [got EXCEPT ![c] = Append(@, Head(s))]

\* get_chunk in the middle of a file.
NextChunk(c) ==
  /\ rpc[c] = "read" /\ cur[c] # << >>
  /\ Deliver(c, cur[c])
  /\ UNCHANGED <<strategy, pvars, channel, spent, tokens, rpc, lost>>

\* Mutant: each reader has a view of the channel of its own.
Receive_Keeps(c) ==
  /\ rpc[c] = "read" /\ cur[c] = << >> /\ channel # << >>
  /\ Deliver(c, Head(channel))
  /\ channel' \in {channel, Tail(channel)}
  /\ spent' = IF PerRecord /\ ppc # "gone" /\ spent < ChanSize THEN spent + 1 ELSE spent
  /\ UNCHANGED <<strategy, pvars, tokens, rpc, lost>>

\* get_chunk that takes from the channel (refresh_producer).  The chunk that c
\* has used goes back to the producer if there is one and has room for it.
Receive(c) ==
  /\ rpc[c] = "read" /\ cur[c] = << >> /\ channel # << >>
  /\ Deliver(c, Head(channel))
  /\ channel' = Tail(channel)
  /\ spent' = IF PerRecord /\ ppc # "gone" /\ spent < ChanSize THEN spent + 1 ELSE spent
  /\ UNCHANGED <<strategy, pvars, tokens, rpc, lost>>

EndOfInput(c) ==
  /\ rpc[c] = "read" /\ cur[c] = << >> /\ channel = << >> /\ ppc = "gone"
  /\ Quit(c)

\* With `file' it is the reader that finds a file unreadable.
ReadFails(c) ==
  /\ Errors /\ ~PerRecord /\ rpc[c] = "read"
  /\ \/ cur[c] # << >> /\ Quit(c)
     \/ /\ cur[c] = << >> /\ channel # << >>
        /\ QuitWith(c, Tail(channel), Elems(Head(channel)))

\* nextfile, which is an error with `record'.
NextFile(c) ==
  /\ rpc[c] = "read" /\ got[c] # << >>
  /\ IF PerRecord
     THEN Quit(c)
     ELSE /\ lost' = lost \cup Elems(cur[c])
          /\ cur' = [cur EXCEPT ![c] = << >>]
          /\ UNCHANGED <<strategy, pvars, channel, spent, tokens, rpc, got>>

\* The thread of c ends because of exit or an error of the script.
Leave(c) ==
  /\ c \in Leaving /\ rpc[c] = "read"
  /\ Quit(c)

Finished == ppc = "gone" /\ ~Connected

Thread == ReadChunk \/ NextOffer \/ TrySend \/ Send
Read(c) == Wait(c) \/ Timeout(c) \/ NextChunk(c) \/ Receive(c) \/ EndOfInput(c)

Next ==
  \/ Thread
  \/ \E c \in Readers : Read(c) \/ ReadFails(c) \/ Leave(c)
  \/ \E c \in Leaving : NextFile(c)
  \/ Finished /\ UNCHANGED vars

Spec == Init /\ [][Next]_vars

\* The threads are scheduled and go on reading; errors, skips and exits need
\* not happen.
FairSpec == Spec /\ WF_vars(Thread) /\ \A c \in Readers : WF_vars(Read(c))

------------------------------------------------------------------------------
TypeOK ==
  /\ strategy \in Strategies
  /\ ppc \in {"read", "try", "send", "gone"}
  /\ files \in Seq(Seq(Chunks)) /\ hand \in Seq(Chunks)
  /\ failures \in Nat /\ nworkers \in Nat
  /\ channel \in Seq(Seq(Chunks)) /\ Len(channel) <= ChanSize
  /\ spent \in 0 .. ChanSize /\ tokens \in 0 .. ChanSize
  /\ rpc \in [Readers -> {"wait", "read", "gone"}]
  /\ cur \in [Readers -> Seq(Chunks)] /\ got \in [Readers -> Seq(Chunks)]
  /\ lost \subseteq Chunks

\* Everywhere that chunk k is.
Places(k) ==
  {<<"files", f>> : f \in {f \in DOMAIN files : k \in Elems(files[f])}}
    \cup {<<"channel", i>> : i \in {i \in DOMAIN channel : k \in Elems(channel[i])}}
    \cup {<<"cur", c>> : c \in {c \in Readers : k \in Elems(cur[c])}}
    \cup {<<"got", c>> : c \in {c \in Readers : k \in Elems(got[c])}}
    \cup {<<p>> : p \in {p \in {"hand"} : k \in Elems(hand)}}
    \cup {<<p>> : p \in {p \in {"lost"} : k \in lost}}

\* Each chunk is in exactly one place: none disappears when the channel is full
\* or a thread ends, and none is delivered twice.
ExactlyOnePlace == \A k \in Chunks : Cardinality(Places(k)) = 1

Before(k, l) == k[1] < l[1] \/ (k[1] = l[1] /\ k[2] < l[2])

\* A reader never goes back: it sees files, and the chunks of a file, in the order
\* of the input: FNR starts again and FILENAME changes where the file does.
InOrder ==
  \A c \in Readers : \A i \in 1 .. Len(got[c]) - 1 : Before(got[c][i], got[c][i + 1])

\* With `file' all of a file is read by one thread (info/parallelism.md).
FileToOneReader ==
  ~PerRecord => \A c, d \in Readers :
    c # d => \A k \in Elems(got[c]), l \in Elems(got[d]) : k[1] # l[1]

\* There are never more readers at work or called than the producer knows of, and
\* it has not overshot the number of failures at which it calls the next.
HeuristicInStep ==
  /\ failures < Threshold
  /\ PerRecord =>
       Cardinality({c \in Extra : rpc[c] = "read"}) + tokens <= nworkers

\* Everyone ends, with every chunk delivered or given up for a reason: the
\* producer does not stay behind in a full channel whose readers have left, and
\* the readers do not wait for a producer that has returned.
Ends == <>(Finished /\ Chunks = lost \cup UNION {Elems(got[c]) : c \in Readers})
=============================================================================
