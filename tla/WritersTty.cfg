SPECIFICATION Spec
CONSTANTS
  c1 = c1
  c2 = c2
  a1 = a1
  a2 = a2
  a3 = a3
  a4 = a4
  a5 = a5
  a6 = a6
  a7 = a7
  a8 = a8
  NoAddr = NoAddr
  Clients <- MCClients
  Addrs <- MCAddrs
  ChanSize = 1
  BufferSize = 1
  MaxBatch = 2
  MaxBytes = 4
  IsStdout = TRUE
  LineBuffer = TRUE
  Specs <- MCTrunc
  OldFile <- MCOldFile
  IoErrors = FALSE
  MaxWrite = 2
  MaxOps <- MCOps21
INVARIANT DropAssertion
PROPERTY KeepsPromise
