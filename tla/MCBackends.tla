----------------------------- MODULE MCBackends -----------------------------
(* Every builtin function, with every mixture of argument types a program can
   give it: scalars in any position, every map where the function decides by
   the type of the map.  *)
EXTENDS Backends

MCEscapers == {"Identity", "CSV"}

ScalarOrNull == Scalars \union {"Null"}
AnyType == ScalarOrNull \union Maps

RECURSIVE Product(_)
Product(sets) ==
  IF sets = <<>> THEN {<<>>}
  ELSE {<<x>> \o rest : x \in Head(sets), rest \in Product(Tail(sets))}

Positions(f) ==
  CASE f \in DOMAIN FixedSig ->
         [k \in DOMAIN FixedSig[f].in |->
            IF FixedSig[f].in[k] \in Maps THEN {FixedSig[f].in[k]}
            ELSE ScalarOrNull]
    [] f \in OnScalars -> [k \in 1 .. Arity[f] |-> ScalarOrNull]
    [] f \in {"Contains", "Delete"} -> <<Maps, ScalarOrNull>>
    [] f = "IncMap" -> <<Maps, ScalarOrNull, ScalarOrNull>>
    [] f = "Split" -> <<ScalarOrNull, {"MapIntStr", "MapStrStr"}, ScalarOrNull>>
    [] f = "Eval" -> <<ScalarOrNull, AnyType>>
    [] f = "Asort" -> <<AnyType, AnyType>>
    [] f = "IntMapJoin" -> <<AnyType, ScalarOrNull>>
    [] OTHER -> <<AnyType>>

\* The shorter calls cfg.rs completes, and some it does not.
Shorter(f) ==
  {n \in 0 .. 4 : \/ <<f, n>> \in DOMAIN Filled
                  \/ f = "Seq" /\ n \in {1, 2}
                  \/ f = "Srand" /\ n = 0
                  \/ f = "Substr" /\ n = 1}

CallsOf(f) ==
  LET full == Product(Positions(f))
  IN  full \union {SubSeq(a, 1, n) : a \in full, n \in Shorter(f)}

Subscripts == {[f |-> "Index", args |-> <<m, k>>] : m \in Maps, k \in ScalarOrNull}

MCCalls == UNION {{[f |-> f, args |-> a] : a \in CallsOf(f)} : f \in DOMAIN Arity}
             \union Subscripts

MCTexts == UNION {[1 .. n -> {"a", "b"}] : n \in 0 .. 3}
MCConstants ==
  {<<Start, Verbatim("a")>>, <<Start, Verbatim("a"), Verbatim("b")>>,
   <<Start, Verbatim("b"), End>>, <<Start, Hex("a"), Verbatim("b")>>,
   <<Start, AnyChar>>, <<Start, AnyChar, Verbatim("a")>>,
   <<Verbatim("a"), Verbatim("b")>>, <<AnyChar, Verbatim("a"), End>>}
=============================================================================
