----------------------- MODULE MCLoadBalancerHistory -----------------------
EXTENDS LoadBalancerHistory, TLC

CONSTANTS c1, c2

MCCallers == {c1, c2}
Symmetry  == Permutations(MCCallers)
=============================================================================
