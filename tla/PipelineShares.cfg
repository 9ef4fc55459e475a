SPECIFICATION Spec
CONSTANTS
  Nodes = {n1, n2, n3, n4}
  Requests = {h1}
  Cleaner = Cleaner
  NoMessage = NoMessage
  Layers = 32
  Weights = {1, 24}
  MaxSent = 4
  MaxFaults <- NoFaults
SYMMETRY
  PipelineSymmetry
INVARIANTS
  SharesAreRanges
CHECK_DEADLOCK FALSE
