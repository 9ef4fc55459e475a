----------------------- MODULE MCContributionReporter -----------------------
(* The instance of ContributionReporter that TLC checks. *)
EXTENDS ContributionReporter

CONSTANTS a1, a2

TwoAgents == {a1, a2}

\* An agent the registry or the node table or both know, and one neither does.
BothOfOne == {SolverKey(a1), NodeKey(a1)}

\* The other one only solves challenges.
OneProcessor == {a1}
=============================================================================
