SPECIFICATION FairSpec
CONSTANTS
  Wallets = {w1}
  Handlers = {h1}
  NoReport = NoReport
  Counters <- TokensOnly
  Overlap = FALSE
  TokenLimit = 9
  MaxEpoch = 2
  MaxClock = 3
  MaxStep = 1
  ProofLists <- OneOrTwo
  MaxProven = 0
  MaxFaults <- CrashesOnly
INVARIANTS
  BookedIsCovered
  BaselineSurvivesRestart
PROPERTIES
  EventuallyBooked
CHECK_DEADLOCK FALSE
