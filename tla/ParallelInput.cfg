SPECIFICATION FairSpec
CONSTANTS
  Strategies = {"record", "file"}
  Main = m
  Extra = {w1, w2}
  Files <- MCFiles
  ChanSize = 1
  Errors = TRUE
  Leaving = {m, w1, w2}
INVARIANTS TypeOK ExactlyOnePlace InOrder FileToOneReader HeuristicInStep
PROPERTY Ends
