--------------------------- MODULE MCControlPoint ---------------------------
EXTENDS ControlPoint

CONSTANTS r1, e1, s1
=============================================================================
