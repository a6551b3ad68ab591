----------------------------- MODULE MCActivity -----------------------------
EXTENDS Activity

CONSTANTS h1, h2, q1, q2, n1, n2, n3

Symmetry == Permutations(Hosts) \cup Permutations(Requests) \cup Permutations(Notes)
=============================================================================
