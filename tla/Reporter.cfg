SPECIFICATION FairSpec
CONSTANTS
  a1 = a1
  a2 = a2
  Agents <- TwoAgents
  Processors <- OneProcessor
  Nobody = Nobody
  Listed <- BothOfOne
  MaxTasks = 2
  MaxJobs = 2
  ReportBlocks = 1
  MaxElapsed = 1
  MaxEvents = 3
  MaxEpoch = 2
  MaxFaults = 1
INVARIANTS
  TypeOK
  SettledNeverResent
  RowsAreConfirmed
  LossIsExplained
PROPERTIES
  ReportsGrow
  NoTaskWaitsForever
  IdleAgentsFade
