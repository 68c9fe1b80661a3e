------------------------------ MODULE MC_Topology ------------------------------
EXTENDS Topology

(* Bound on the history of returned topologies.                            *)
MaxReturns == 4

ReturnsBound == Len(returned) <= MaxReturns
=============================================================================
