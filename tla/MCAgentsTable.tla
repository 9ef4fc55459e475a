---------------------------- MODULE MCAgentsTable ----------------------------
(* The instance of AgentsTable that TLC checks. *)
EXTENDS AgentsTable

CONSTANTS a1, h1, h2

OneAgent == {a1}
TwoHandlers == {h1, h2}
=============================================================================
