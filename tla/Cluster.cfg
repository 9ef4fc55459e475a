SPECIFICATION FairSpec
CONSTANTS
  n1 = n1
  n2 = n2
  n3 = n3
  Nodes = {n1, n2, n3}
  Jobs = {j1, j2}
  Operations = {o1}
  Speed <- Uneven
  Capacity <- Even
  Orders <- ByAge
  Layers = 5
  Required = 16
  NodeMemory = 8
  MinAge = 1
  Grace = 1
  Never = Never
  NoCluster = NoCluster
  Budgets <- OnceEach
INVARIANTS
  TypeOK
  SharesFit
  RememberedIsWhole
PROPERTIES
  ReplacedInTheEnd
