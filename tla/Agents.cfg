CONSTANTS
  a1 = a1
  h1 = h1
  h2 = h2
  Agents <- OneAgent
  Handlers <- TwoHandlers
  Oracle = Oracle
  Nobody = Nobody
  MaxEvents = 3
  MaxFaults = 1
SPECIFICATION FairSpec
INVARIANTS TypeOK MissingIsExplained HandledHeartbeatShown
PROPERTIES WatcherRecovers RegistryShown
