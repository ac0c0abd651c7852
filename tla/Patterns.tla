------------------------------ MODULE Patterns ------------------------------
(* Regular expressions known at compile time (compile.rs, run_analyses and
   extract_anchored_literal).  A pattern is a sequence of items of width one
   between optional anchors; that is enough to tell a prefix from a pattern.  *)
EXTENDS Naturals, Sequences, FiniteSetsExt

Start == <<"start">>
End == <<"end">>
AnyChar == <<"any">>
Verbatim(c) == <<"char", c>>    \* written as it is
Hex(c) == <<"hex", c>>          \* written as \xNN
NoLiteral == <<>>
IsLiteral(item) == item[1] \in {"char", "hex"}

\* What a regular expression matches: some stretch of the text.
Matches(p, text) ==
  LET body == SelectSeq(p, LAMBDA item : item \notin {Start, End})
  IN  \E before \in 0 .. Len(text) - Len(body) :
        /\ p # <<>> /\ p[1] = Start => before = 0
        /\ p # <<>> /\ p[Len(p)] = End => before = Len(text) - Len(body)
        /\ \A k \in DOMAIN body : IsLiteral(body[k])
                                    => body[k][2] = text[before + k]

\* Mutant: the first item is not required to be an anchor.
X_AnchoredLiteral(p) ==
  LET ends == {n \in 2 .. Len(p) : p[n][1] = "char"}
      taken == SelectSeq(SubSeq(p, 2, Min(ends)), IsLiteral)
  IN  IF Len(p) < 2 \/ ends = {} THEN NoLiteral
      ELSE [k \in DOMAIN taken |-> taken[k][2]]

\* extract_anchored_literal: behind an anchor, bytes written in hex are
\* collected and the first character written as it is ends the search; items
\* that are no literals are passed over.
AnchoredLiteral(p) ==
  LET ends == {n \in 2 .. Len(p) : p[n][1] = "char"}
      taken == SelectSeq(SubSeq(p, 2, Min(ends)), IsLiteral)
  IN  IF Len(p) < 2 \/ p[1] # Start \/ ends = {} THEN NoLiteral
      ELSE [k \in DOMAIN taken |-> taken[k][2]]

StartsWith(text, lit) ==
  Len(lit) <= Len(text) /\ SubSeq(text, 1, Len(lit)) = lit

\* The instruction a match with a constant pattern is folded to.
FoldedOp(op, p) == CASE op = "Match" -> "MatchConst"
                     [] AnchoredLiteral(p) = NoLiteral -> "IsMatchConst"
                     [] OTHER -> "StartsWithConst"

\* What the folded instruction answers.
FoldedMatches(op, p, text) ==
  IF FoldedOp(op, p) = "StartsWithConst"
  THEN StartsWith(text, AnchoredLiteral(p))
  ELSE Matches(p, text)
=============================================================================
