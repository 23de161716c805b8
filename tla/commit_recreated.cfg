\* The old path of a staged rename exists again: the file set is wrong.
CONSTANTS
  p1 = p1  p2 = p2  p3 = p3  x = x  y = y
  Path = {p1, p2, p3}
  Content = {x, y}
  Absent = Absent
  None = None
  Sensitive = {}
  Starts <- RecreatedStarts
  AnyPlan = FALSE
  MaxCommits = 2
  Budget = 0
  Kinds = {}
  StageAt = {}
  CommitAt = {}
SPECIFICATION Spec
INVARIANTS QuietCommitsExact
CHECK_DEADLOCK FALSE
