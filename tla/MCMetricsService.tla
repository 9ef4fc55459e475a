-------------------------- MODULE MCMetricsService --------------------------
(***************************************************************************)
(* Small instances of MetricsService for TLC.                              *)
(***************************************************************************)
EXTENDS MetricsInvariant, TLC

TokensOnly == {"tokens"}
TokensAndRequests == {"tokens", "requests"}

\* Two proofs, of which one claims more than a first report may bring; or a dummy.
OneOrTwo == {<<[tokens |-> 2, dummy |-> FALSE], [tokens |-> 1, dummy |-> FALSE]>>,
             <<[tokens |-> 1, dummy |-> TRUE]>>}

Faultless == [k \in FaultKinds |-> 0]

\* Each kind of fault once, silence aside.
EveryFault == [Faultless EXCEPT !["restart"] = 1, !["read"] = 1,
                                !["write"] = 1, !["reset"] = 1]
\* No reset and no failed save.
CrashesOnly == [Faultless EXCEPT !["restart"] = 2, !["read"] = 1]
RestartOnly == [Faultless EXCEPT !["restart"] = 1]
\* A crash and a spell of silence.
CrashAndSilence == [RestartOnly EXCEPT !["silence"] = 1]

HandlerSymmetry == Permutations(Handlers)
=============================================================================
