SPECIFICATION LimiterSpec
CONSTANTS
  a = a
  b = b
  Client <- MCClient
  Tier <- MCTier
  Config <- MCConfig
  Capacity = 3
  Second = 2
  MaxTime = 6
SYMMETRY ClientSymmetry
INVARIANT LimiterTypeOK
INVARIANT RetryAfterSuffices
PROPERTY WindowsAreQuotas
