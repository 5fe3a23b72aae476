SPECIFICATION Spec
CONSTANTS
  p1 = p1
  p2 = p2
  Payload <- MCPayload
  InMemoryWriters = TRUE
  WriteFaults <- AllFaults
  Damage = TRUE
  LazyStart = TRUE
  MaxRecords = 3
SYMMETRY PayloadSymmetry
INVARIANT NoSilentLoss
INVARIANT OpenLedgerVerifies
PROPERTY ImplementsTamperEvidentLog
