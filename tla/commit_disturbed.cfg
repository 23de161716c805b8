\* Execute with an editor, hooks, other Git clients, failing commands and Ctrl-C.
CONSTANTS
  p1 = p1  p2 = p2  p3 = p3  x = x  y = y
  Path = {p1, p2, p3}
  Content = {x, y}
  Absent = Absent
  None = None
  Sensitive = {p3}
  Starts <- SomeStarts
  AnyPlan = FALSE
  MaxCommits = 2
  Budget = 2
  Kinds = {"edit", "stage", "commit", "cancel", "fault", "reject"}
  StageAt = {"hook", "head"}
  CommitAt = {"commit", "verify", "add", "parent", "start", "hook", "head"}
SPECIFICATION FairSpec
INVARIANTS IndexAtRest OwnCommitsReported
PROPERTIES KeepsPromise OnlyRacedContent Returns
CHECK_DEADLOCK FALSE
