SPECIFICATION Spec
CONSTANTS
  Wallets = {w1}
  Handlers = {h1, h2}
  NoReport = NoReport
  Counters <- TokensAndRequests
  Overlap = TRUE
  TokenLimit = 9
  MaxEpoch = 2
  MaxClock = 2
  MaxStep = 1
  ProofLists <- OneOrTwo
  MaxProven = 0
  MaxFaults <- CrashAndSilence
SYMMETRY HandlerSymmetry
INVARIANTS
  OneResetOrder
CHECK_DEADLOCK FALSE
