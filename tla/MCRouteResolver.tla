--------------------------- MODULE MCRouteResolver --------------------------
EXTENDS RouteResolver

CONSTANTS h1, s1, r1, r2, r3, a1
=============================================================================
