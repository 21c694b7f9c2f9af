---------------------------- MODULE MCDeviceList ----------------------------
(* Instances of DeviceList for TLC.                                         *)
EXTENDS DeviceList, TLC

CONSTANTS d1, d2, d3, n1, n2, n3, n4, w1, w2, r1

OneBase == {<<"tv">>}
TvBases == {<<"tv">>, <<"tv", 2>>}

NodeSymmetry == Permutations(Node) \cup Permutations(Worker)
=============================================================================
