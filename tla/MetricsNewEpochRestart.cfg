SPECIFICATION Spec
CONSTANTS
  Wallets = {w1}
  Handlers = {h1}
  NoReport = NoReport
  Counters <- TokensOnly
  Overlap = FALSE
  TokenLimit = 9
  MaxEpoch = 2
  MaxClock = 2
  MaxStep = 1
  ProofLists <- OneOrTwo
  MaxProven = 0
  MaxFaults <- RestartOnly
INVARIANTS
  NoDoubleCountAcrossRestart
CHECK_DEADLOCK FALSE
