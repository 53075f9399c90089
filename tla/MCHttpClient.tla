---------------------------- MODULE MCHttpClient ----------------------------
EXTENDS HttpClient, TLC

CONSTANTS r1, r2, r3, e1, e2

MCRequests  == {r1, r2, r3}
MCEndpoints == {e1, e2}
Symmetry    == Permutations(MCRequests) \cup Permutations(MCEndpoints)
=============================================================================
