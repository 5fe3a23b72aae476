SPECIFICATION Spec
CONSTANTS
  p1 = p1
  p2 = p2
  Payload <- MCPayload
  InMemoryWriters = FALSE
  WriteFaults <- OnlyTorn
  Damage = FALSE
  LazyStart = FALSE
  MaxRecords = 3
INVARIANT NotReadyWhenCompromised
