CONSTANTS
  n1 = n1
  h1 = h1
  h2 = h2
  round = round
  Nobody = Nobody
  RegistryConfigured = TRUE
  Nodes <- OneNode
  Requests <- TwoRequests
  Scorer = round
  MaxSent = 2
  MaxFaults = 1
SPECIFICATION FairSpec
INVARIANTS TypeOK RowsOnlyForAgents RegistrationKept
PROPERTIES SilentGoesInactive TimedOutComesBack
