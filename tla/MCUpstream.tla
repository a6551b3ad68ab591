----------------------------- MODULE MCUpstream ------------------------------
EXTENDS Upstream

CONSTANTS c1, c2, p1, p2, i1, i2
=============================================================================
