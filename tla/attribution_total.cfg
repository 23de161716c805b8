CONSTANTS
  Inputs <- MCInputs
  Types <- MCTypes
  MaxFiles = 3
SPECIFICATION FlowSpec
INVARIANT PlansWithoutHistory
