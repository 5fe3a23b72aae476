---------------------------- MODULE MCReplayGuard ----------------------------
EXTENDS ReplayGuard, TLC

CONSTANTS n1, n2, n3, a, b, r1, r2  \* nonces other than the empty one, nodes, requests

MCNonce == {EmptyNonce, n1, n2, n3}
MCNode == {a, b}
MCRequest == {r1, r2}

Symmetry ==
  Permutations({n1, n2, n3}) \union Permutations(MCNode) \union Permutations(MCRequest)

=============================================================================
