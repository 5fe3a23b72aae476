SPECIFICATION AiSpec
CONSTANTS
  ToolCall <- MCToolCall
  HighImpactTools = {"transfer_funds"}
  QuotaWindowMs = 2
  MaxCallsPerMinute = 3
  MaxCallsPerSession = 4
  MaxConsecutiveIdenticalCalls = 3
  MaxTime = 3
  MaxEvaluations = 6
  PromptAsked <- MCPrompt
  Output <- MCOutput
  Word = {"a", "b", "canary", "private key", "api key", "database uri", "ssn", "card",
          "[REDACTED]", "[BLOCKED]"}
  Canary = {"canary"}
  Fingerprint <- MCFingerprint
  BlockOnPii = FALSE
  MaxFingerprints = 2
  MaxInspections = 2
  Agent <- MCAgent
  ToolPolicy <- MCToolPolicy
  Ask = {"first", "second"}
  AiRequest <- MCAiRequest
  ModelOutput <- MCModelOutput
INVARIANT AiTypeOK
INVARIANT EveryDetectionBlocks
PROPERTY AnswersFollowThePast
PROPERTY NothingRegisteredLeaves
PROPERTY CompletedUnderPoliciesInForce
