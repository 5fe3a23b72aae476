SPECIFICATION Spec
CONSTANTS
  c1 = c1
  c2 = c2
  Call <- MCCall
  Agent <- MCAgent
  ToolPolicy <- MCToolPolicy
  ToolRequest <- MCToolRequest
  ExecutiveAction <- MCExecutiveAction
  Production = TRUE
  Input <- MCInput
  CustomRule <- MCCustomRule
  MaxRules = 2
SYMMETRY CallSymmetry
INVARIANT TypeOK
INVARIANT HighestPriorityDecides
INVARIANT DecidedBeforeExecuted
INVARIANT ToolTrailTellsWhatHappened
PROPERTY StartsUnderRulesInForce
