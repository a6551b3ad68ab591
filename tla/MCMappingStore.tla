--------------------------- MODULE MCMappingStore ---------------------------
EXTENDS MappingStore

CONSTANTS h1, h2, w1, w2, i1, i2
=============================================================================
