SPECIFICATION Spec
CONSTANTS
  Event <- MCEvent
  WindowMs = 2
  Threshold = 2
  MaxHistorySize = 3
  PostedAlert <- MCPostedAlert
  AskedStatus <- MCAskedStatus
  MaxRecent = 2
  LedgerMayFail = TRUE
  MaxIngests = 4
  MaxCommands = 2
INVARIANT TypeOK
INVARIANT TraceTellsTheIncident
INVARIANT RecentAreTheLatest
PROPERTY BruteForceIsRaised
