CONSTANTS
  MaxCalls = 4
  Budget = 2
SPECIFICATION Spec
INVARIANTS
  OwnAnswer
  NoOrphan
  CleanCycle
PROPERTY Returns
