SPECIFICATION CompileSpec
CONSTANTS
  Programs <- MCPrograms
  Tapes <- MCTapes
  Graphs <- MCGraphs
  MaxSteps = 60
  Builtins <- MCBuiltins
  AString = 9
  Items <- MCItems
  Frames = {"main", "f", "g"}
  Globals = {"x", "y"}
  MaxCalls = 4
  MaxMentions = 2
  Keys = {"k1", "k2", "k3"}
  Sentinel = "sentinel"
  Values <- MCValues
  Bottom = "none"
  Join <- MCJoin
  MaxFacts = 4
INVARIANTS
  DominatorsAgree
  PhisAreIterated
  SsaIsSound
  RefusalsAreKnown
  RunsAsWritten
  GlobalsReachCallers
  AnswersAreExact
PROPERTY WorklistsEnd
CHECK_DEADLOCK FALSE
