--------------------------- MODULE MCRequestLoop ---------------------------
(* Instances of RequestLoop for TLC.  The structures are interchangeable,   *)
(* so safety runs use them up to permutation; liveness runs do not.         *)
EXTENDS RequestLoop, TLC

SlotSymmetry == Permutations(Slots)
=============================================================================
