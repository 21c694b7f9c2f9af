----------------------------- MODULE MCFileGet -----------------------------
(* Instances of FileGet for TLC.                                            *)
EXTENDS FileGet
=============================================================================
