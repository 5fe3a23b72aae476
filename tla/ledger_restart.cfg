SPECIFICATION Spec
CONSTANTS
  p1 = p1
  p2 = p2
  Payload <- MCPayload
  InMemoryWriters = TRUE
  WriteFaults <- NoFaults
  Damage = FALSE
  LazyStart = FALSE
  MaxRecords = 3
INVARIANT RestartAccepts
