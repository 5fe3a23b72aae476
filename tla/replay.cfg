SPECIFICATION Spec
CONSTANTS
  n1 = n1
  n2 = n2
  n3 = n3
  EmptyNonce = EmptyNonce
  a = a
  b = b
  r1 = r1
  r2 = r2
  Nonce <- MCNonce
  Node <- MCNode
  Memory = Memory
  Request <- MCRequest
  TTL = 2
  MaxEntries = 2
  MaxTime = 3
  MaxGrants = 2
SYMMETRY Symmetry
PROPERTY ClusterGrantsOncePerLifetime
PROPERTY MemoryGrantsOncePerLifetime
PROPERTY ForgetsOnlyWhenFull
PROPERTY AuthenticatedOnlyByGrant
PROPERTY OutgrownOnlyBehindEmptyNonce
