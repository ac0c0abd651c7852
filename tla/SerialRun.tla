----------------------------- MODULE SerialRun -----------------------------
(***************************************************************************)
(* What a run of a script in three stages promises: BEGIN, then every      *)
(* record of the input once, then END, which finds each record counted     *)
(* once in the variables that the main loop adds it to.  The script may    *)
(* leave at any point; a run never skips a stage before it does, and ends. *)
(***************************************************************************)
EXTENDS Naturals

CONSTANTS
  Records,   \* the input
  Counters   \* variables that only the main loop and END mention

VARIABLES
  stage,     \* the stage that runs
  read,      \* records the main loop has processed
  found      \* the counters, as END finds them

vars == <<stage, read, found>>

Init == stage = "begin" /\ read = {} /\ found = << >>

Begin ==
  /\ stage = "begin" /\ stage' = "loop"
  /\ UNCHANGED <<read, found>>

Record(r) ==
  /\ stage = "loop" /\ r \notin read
  /\ read' = read \cup {r}
  /\ UNCHANGED <<stage, found>>

End ==
  /\ stage = "loop" /\ read = Records /\ stage' = "end"
  /\ found' = [v \in Counters |-> [r \in Records |-> 1]]
  /\ UNCHANGED read

\* The script called exit(0): what runs until the end is not promised.
Leave ==
  /\ stage \notin {"left", "over"} /\ stage' = "left"
  /\ read' = {} /\ found' = << >>

\* The script is done, or it failed with a code, or an instruction failed.
Stop ==
  /\ stage # "over" /\ stage' = "over"
  /\ read' = {} /\ found' = << >>

Next == Begin \/ End \/ Leave \/ Stop \/ \E r \in Records : Record(r)

Spec == Init /\ [][Next]_vars /\ WF_vars(Next)
=============================================================================
