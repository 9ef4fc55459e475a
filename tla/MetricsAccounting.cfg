SPECIFICATION Spec
CONSTANTS
  Wallets = {w1}
  Handlers = {h1}
  NoReport = NoReport
  Counters <- TokensOnly
  Overlap = FALSE
  TokenLimit = 2
  MaxEpoch = 2
  MaxClock = 3
  MaxStep = 1
  ProofLists <- OneOrTwo
  MaxProven = 1
  MaxFaults <- EveryFault
INVARIANTS
  TypeOK
  NoOverCredit
  IInv
  ProofsSound
PROPERTIES
  ImplementsLedger
  RowsOnlyGrow
CHECK_DEADLOCK FALSE
