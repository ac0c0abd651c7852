---------------------------- MODULE MCCompile ----------------------------
EXTENDS Compile

MCBuiltins == {"NR", "FNR", "SUBSEP", "OFS", "ORS"}
MCItems == <<5, 6>>

N(n) == <<"lit", n>>
V(x) == <<"var", x>>
Bin(op, a, b) == <<"bin", op, a, b>>
Inc(x) == <<"inc", TRUE, 1, x>>
Do(e) == <<"expr", e>>
Block(ss) == <<"block", ss>>
If(c, s) == <<"if", c, s>>
Write(es) == <<"print", es, FALSE>>
Escaped(es) == <<"print", es, TRUE>>
Below(e, n) == Bin("lt", e, N(n))

\* Statements without a jump, and with one.
Plain == {
  Do(Inc("x")),
  Do(<<"addto", "y", V("x")>>),
  Do(<<"assign", "z", <<"ite", Below(V("x"), 2), V("y"), N(7)>>>>),
  Write(<<V("x"), <<"or", V("y"), <<"and", V("x"), V("z")>>>>>>),
  Escaped(<<V("y"), <<"not", V("z")>>>>),
  Escaped(<< <<"ite", V("x"), N(3), N(4)>> >>),
  <<"ifelse", Bin("eq", V("x"), N(1)), Do(<<"assign", "y", N(3)>>),
    Do(Inc("z"))>>,
  Do(<<"getline">>),
  <<"while", FALSE, Below(Inc("y"), 2), Write(<<V("y")>>)>>,
  <<"for", Do(<<"assign", "z", N(0)>>), Below(V("z"), 2), Do(Inc("z")),
    Block(<<If(Bin("eq", V("z"), V("x")), <<"break">>), Write(<<V("z")>>)>>)>>,
  <<"foreach", "z", Block(<<If(V("y"), <<"continue">>), Do(Inc("y"))>>)>>}
Leaving == {
  If(Bin("eq", V("x"), N(1)), <<"break">>),
  <<"ifelse", V("y"), <<"continue">>, Do(Inc("y"))>>,
  If(V("y"), <<"next">>),
  If(Bin("gt", V("x"), N(1)), <<"return", V("y")>>),
  <<"break">>,
  Block(<< <<"continue">>, If(V("y"), <<"break">>)>>)}
Bodies1 == {Block(<<s>>) : s \in Plain \union Leaving}
Bodies2 == {Block(<<s, t>>) : s, t \in Plain \union Leaving}

LoopsOver(body) == {
  <<"while", FALSE, Below(Inc("x"), 2), body>>,
  <<"do", Below(Inc("x"), 2), body>>,
  <<"for", Do(<<"assign", "x", N(0)>>), Below(V("x"), 2), Do(Inc("x")), body>>,
  <<"foreach", "x", body>>}

Show == Write(<<V("x"), V("y"), V("z")>>)
Main(begin, pats, end, globals) ==
  [begin |-> begin, pats |-> pats, end |-> end,
   globals |-> {Low(x, 0) : x \in globals}]

InBegin == {Main(<<l, Show>>, <<>>, <<>>, {}) :
              l \in UNION {LoopsOver(b) : b \in Bodies1 \union Bodies2}}
\* The separators have values of their own here.
Separators == <<Do(<<"assign", "OFS", N(8)>>), Do(<<"assign", "ORS", N(9)>>)>>
InEnd == {Main(Separators, <<>>, <<l, Show>>, {"y"}) :
            l \in UNION {LoopsOver(b) : b \in Bodies1}}
Patterns == {
  <<"always", Do(Inc("x"))>>,
  <<"always", If(<<"pat", 1>>, <<"next">>)>>,
  <<"when", <<"and", <<"pat", 1>>, Below(V("x"), 2)>>, Write(<<>>)>>,
  <<"range", <<"pat", 1>>, <<"pat", 2>>, Write(<< <<"line">>, V("NR")>>)>>,
  <<"range", <<"pat", 2>>, <<"pat", 2>>, Do(Inc("y"))>>,
  <<"always", <<"while", FALSE, <<"pat", 1>>, Do(Inc("x"))>>>>}
InMain == {Main(<<>>, <<p, q>>, <<Show>>, g) : p, q \in Patterns,
                                            g \in {{}, {"x"}}}
  \union {Main(<<>>, <<<<"always", s>>, p>>, <<Show>>, {}) :
            s \in Plain \union Leaving, p \in Patterns}

MCPrograms == InBegin \union InEnd \union InMain
MCTapes == {<<1, 3, 2>>, <<2, 1>>}

\* The graphs of four nodes, all within reach of the first, no edge into it.
AllEdges == FlattenSeq([a \in 1 .. 4 |-> [b \in 1 .. 3 |->
              [from |-> a, to |-> b + 1, cond |-> NullEdge]]])
MCGraphs == {<<4, es>> : es \in
  {es \in {SelectSeq(AllEdges, LAMBDA e : e \in s) : s \in SUBSET ToSet(AllEdges)} :
     Reachable(es) = 1 .. 4}}

\* Known constants, and any string.
MCValues == {"none", "a", "b", "unknown"}
MCJoin(v, w) == IF v \in {"none", w} THEN w ELSE IF w = "none" THEN v
                ELSE "unknown"
=============================================================================
