--------------------------- MODULE MCDistributor ---------------------------
(***************************************************************************)
(* Small instances of Distributor for TLC.                                 *)
(***************************************************************************)
EXTENDS Distributor

\* Every fault may strike once
EachOnce == [k \in FaultKinds |-> 1]
=============================================================================
