---------------------------- MODULE MCSpeculate ----------------------------
EXTENDS Speculate

CONSTANTS s1, s2

MCSessions == {s1, s2}
=============================================================================
