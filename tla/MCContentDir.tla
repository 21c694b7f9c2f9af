---------------------------- MODULE MCContentDir ----------------------------
(* Instances of ContentDir for TLC.                                         *)
EXTENDS ContentDir, TLC

CONSTANTS r1, r2, k1, k2, v1, v2, v3

DataSymmetry == Permutations(Data)
=============================================================================
