--------------------------- MODULE MCNodesService ---------------------------
(* The instance of NodesService that TLC checks. *)
EXTENDS NodesService

CONSTANTS n1, h1, h2, round

OneNode == {n1}
TwoRequests == {h1, h2}
=============================================================================
