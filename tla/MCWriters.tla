----------------------------- MODULE MCWriters -----------------------------
(* Writers on a small instance: two threads and one file. *)
EXTENDS Writers, TLC

CONSTANTS c1, c2, a1, a2, a3, a4, a5, a6, a7, a8

MCClients == {c1, c2}
MCAddrs == {a1, a2, a3, a4, a5, a6, a7, a8}
MCOldFile == <<"x", "y">>
MCEmptyFile == <<>>
MCOps11 == [c \in MCClients |-> 1]
MCOps21 == c1 :> 2 @@ c2 :> 1
MCOps40 == c1 :> 4 @@ c2 :> 0
MCTrunc == {"Trunc"}
MCAppend == {"Append"}
=============================================================================
