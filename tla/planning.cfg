CONSTANTS
  Inputs <- MCInputs
  Types <- MCTypes
  MaxFiles = 3
SPECIFICATION FlowSpec
INVARIANTS
  BreakingBacked
  NothingSensitive
  HonestHistory
  HistoryFits
  MatchedIsUnique
PROPERTY PlanOrNothing
