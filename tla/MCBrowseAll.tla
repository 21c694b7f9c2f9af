---------------------------- MODULE MCBrowseAll ----------------------------
(* Instances of BrowseAll for TLC.                                          *)
EXTENDS BrowseAll

CONSTANTS o1, o2, o3, o4, o5
=============================================================================
