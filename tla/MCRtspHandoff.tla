--------------------------- MODULE MCRtspHandoff ---------------------------
(* RtspHandoff for TLC *)
EXTENDS RtspHandoff, TLC

RequestSymmetry == Permutations(Requests)
=============================================================================
