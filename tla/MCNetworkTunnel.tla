--------------------------- MODULE MCNetworkTunnel --------------------------
EXTENDS NetworkTunnel

CONSTANTS k1, k2, c1, c2
=============================================================================
