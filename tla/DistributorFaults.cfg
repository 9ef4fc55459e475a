SPECIFICATION FairSpec
CONSTANTS
  Jobs = {j1, j2}
  MaxEpoch = 3
  MaxFaults <- EachOnce
INVARIANTS
  TypeOK
  SyncedBeforeDistributed
  RowsTruthful
  OnlyOutrunSkipped
PROPERTIES
  DistributionsAscend
  LastEpochSettled
