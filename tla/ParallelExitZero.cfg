SPECIFICATION FairSpec
CONSTANTS
  r1 = r1
  r2 = r2
  r3 = r3
  w1 = w1
  w2 = w2
  Main = Main
  First = First
  Workers = {w1, w2}
  Chunks <- TwoChunks
  Vars <- MCVars
  Refs <- MCRefs
  Builds = {"interp"}
  Codes = {0}
  Errors = FALSE
PROPERTY ExitIsFinal
