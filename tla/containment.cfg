SPECIFICATION Spec
CONSTANTS
  Target = {x, y}
  Request = {r1, r2}
  TtlRequest = {0, 1, 3}
  DefaultTtl = 1
  MaxTtl = 2
  LedgerMayFail = TRUE
  MaxQuarantines = 2
  MaxTime = 4
INVARIANT ReleasedOnce
INVARIANT GaugeNeverUnderstates
PROPERTY QuarantinesAreLeases
PROPERTY ReleasedOnlyWhenAllowed
PROPERTY LockoutEnds
