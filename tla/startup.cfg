\* One to three invocations of a user, see the scenarios of MCStartup.
CONSTANTS
  Process = {1, 2, 3}
  Scenarios <- MCScenarios
  Drafts <- MCDrafts
  RunCodes <- MCRunCodes
  LastDay = 1
SPECIFICATION Spec
INVARIANTS RepoCannotWeaken OneGetPerDay RunDecides OneDocument
PROPERTIES Footprint TextKept
CHECK_DEADLOCK FALSE
