------------------------------ MODULE MCCache ------------------------------
(* An instance of Cache for TLC.                                            *)
EXTENDS Cache, TLC

CONSTANTS k1, k2, k3, v1, v2, v3

CacheSymmetry == Permutations(Key) \cup Permutations(Data)
=============================================================================
