SPECIFICATION Spec
CONSTANTS
  Nodes = {n1, n2}
  Requests = {h1, h2}
  Cleaner = Cleaner
  NoMessage = NoMessage
  Layers = 3
  Weights = {1}
  MaxSent = 3
  MaxFaults <- EachOnce
INVARIANTS
  TypeOK
  LayersCovered
  ReadyLastsAlone
SYMMETRY
  PipelineSymmetry
CHECK_DEADLOCK FALSE
