SPECIFICATION Spec
CONSTANTS
  Wallets = {w1}
  Handlers = {h1, h2}
  NoReport = NoReport
  Counters <- TokensOnly
  Overlap = TRUE
  TokenLimit = 9
  MaxEpoch = 2
  MaxClock = 2
  MaxStep = 1
  ProofLists <- OneOrTwo
  MaxProven = 0
  MaxFaults <- Faultless
SYMMETRY HandlerSymmetry
INVARIANTS
  NoOverCredit
CHECK_DEADLOCK FALSE
