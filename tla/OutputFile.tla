----------------------------- MODULE OutputFile -----------------------------
(***************************************************************************)
(* What frawk promises of one output file, whatever batches, threads and   *)
(* buffers lie between a print statement and the disk: the units of each   *)
(* thread reach the file in the order they were printed and once each,     *)
(* nothing is written after an error, and a flush that succeeds returns    *)
(* only when everything its thread printed before is in the file.          *)
(***************************************************************************)
EXTENDS Naturals, Sequences

CONSTANT Clients

VARIABLES
  made,     \* units each thread has printed
  log,      \* units written to the file, as pairs <<thread, k>>
  failed,   \* the file has met an IO error
  durable   \* units a successful flush has vouched for

vars == <<made, log, failed, durable>>

\* The numbers of the units of thread c among the first n of us.
Units(c, us, n) == {us[i][2] : i \in {j \in 1 .. n : us[j][1] = c}}

\* Thread c has its first units in the file, in order, once each: every unit of
\* it comes after exactly those it printed before.
InOrder(c, us, limit) ==
  /\ Units(c, us, Len(us)) \subseteq 1 .. limit
  /\ \A i \in 1 .. Len(us) :
       us[i][1] = c => Units(c, us, i - 1) = 1 .. us[i][2] - 1

Init ==
  /\ made = [c \in Clients |-> 0]
  /\ log = <<>>
  /\ failed = FALSE
  /\ durable = [c \in Clients |-> 0]

PrintUnits(c) ==
  /\ made'[c] > made[c]
  /\ \A d \in Clients \ {c} : made'[d] = made[d]
  /\ UNCHANGED <<log, failed, durable>>

\* Some units are written; the write may be the one that fails.
Commit ==
  /\ ~failed
  /\ log = SubSeq(log', 1, Len(log))
  /\ \A c \in Clients : InOrder(c, log', made[c])
  /\ UNCHANGED <<made, durable>>

\* A flush returns Ok.
Flushed(c) ==
  /\ Units(c, log, Len(log)) = 1 .. made[c]
  /\ durable' = [durable EXCEPT ![c] = made[c]]
  /\ UNCHANGED <<made, log, failed>>

Next == Commit \/ \E c \in Clients : PrintUnits(c) \/ Flushed(c)

Spec == Init /\ [][Next]_vars
=============================================================================
