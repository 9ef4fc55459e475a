-------------------------- MODULE MCClusterService --------------------------
(* The instance of ClusterService that TLC checks. *)
EXTENDS ClusterService, TLC

CONSTANTS n1, n2, n3

\* A fast node, a slow one and one without a benchmark.
Uneven == n1 :> 9 @@ n2 :> 1 @@ n3 :> 0

\* What assignLayers makes of rows that ClusterService has inserted: no RAM, no VRAM.
Even == [n \in {n1, n2, n3} |-> 1]

\* The rows were created in the order of their numbers: one is recent, or two, or all.
ByAge == {<<n2>>, <<n1, n2>>, <<n1, n2, n3>>}

\* Each fault once while PipelineService does nothing, and an operation of it with any
\* one of them.
Once(kinds) == [k \in FaultKinds |-> IF k \in kinds THEN 1 ELSE 0]
Others      == FaultKinds \ {"pipeline"}
OnceEach    == {Once(Others)} \cup {Once({"pipeline", k}) : k \in Others}
=============================================================================
