------------------------- MODULE MCAuthConnections -------------------------
(* Instances of AuthConnections for TLC. *)
EXTENDS AuthConnections, TLC

NodeSymmetry == Permutations(Nodes) \cup Permutations(Requests)
=============================================================================
