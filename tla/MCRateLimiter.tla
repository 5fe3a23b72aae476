---------------------------- MODULE MCRateLimiter ----------------------------
EXTENDS RateLimiter, TLC

CONSTANTS a, b  \* addresses

MCClient == {a, b}
MCTier == {"AUTHENTICATED", "SENSITIVE"}

\* Different limits and windows, so that tiers cannot be mistaken.
MCConfig ==
  [AUTHENTICATED |-> [maxRequests |-> 1, burstAllowance |-> 1, windowMs |-> 3],
   SENSITIVE |-> [maxRequests |-> 1, burstAllowance |-> 0, windowMs |-> 2]]

ClientSymmetry == Permutations(MCClient)

=============================================================================
