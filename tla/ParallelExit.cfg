SPECIFICATION FairSpec
CONSTANTS
  r1 = r1
  r2 = r2
  r3 = r3
  w1 = w1
  w2 = w2
  Main = Main
  First = First
  Workers = {w1, w2}
  Chunks <- TwoChunks
  Vars <- MCVars
  Refs <- MCRefs
  Builds = {"interp", "jit"}
  Codes = {0, 3}
  Errors = TRUE
INVARIANT TypeOK
INVARIANT Aggregated
INVARIANT BeginReachesLoop
INVARIANT OutputInStageOrder
INVARIANT NothingUnflushed
INVARIANT FailureIsReported
INVARIANT NoPanic
PROPERTY InputCutOff
PROPERTY FailureIsFinal
PROPERTY LikeSerial
