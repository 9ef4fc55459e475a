------------------------- MODULE MCPipelineService -------------------------
(***************************************************************************)
(* Small instances of PipelineService for TLC.                             *)
(***************************************************************************)
EXTENDS PipelineService, TLC

\* A node falls silent, and one call fails or the process restarts.
EachOnce == [k \in FaultKinds |-> 1]

NoFaults == [k \in FaultKinds |-> 0]

PipelineSymmetry == Permutations(Nodes) \cup Permutations(Requests)
=============================================================================
