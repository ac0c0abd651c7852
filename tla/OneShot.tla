------------------------------- MODULE OneShot -------------------------------
(***************************************************************************)
(* What Notification of common.rs promises: an event that happens once, and *)
(* calls that return after it and, once it has happened, do return.         *)
(***************************************************************************)
CONSTANT Waiters

VARIABLES
  happened,   \* the event has happened
  inside      \* the threads that are waiting for it

vars == <<happened, inside>>

Init == happened = FALSE /\ inside = {}

Happen == ~happened /\ happened' = TRUE /\ UNCHANGED inside

Enter(w) ==
  w \notin inside /\ inside' = inside \union {w} /\ UNCHANGED happened

Return(w) ==
  happened /\ w \in inside /\ inside' = inside \ {w} /\ UNCHANGED happened

Next == Happen \/ \E w \in Waiters : Enter(w) \/ Return(w)

Spec == Init /\ [][Next]_vars

FairSpec == Spec /\ \A w \in Waiters : WF_vars(Return(w))
=============================================================================
