\* Execute alone, with any plan, from every start without a recreated rename
\* source.
CONSTANTS
  p1 = p1  p2 = p2  p3 = p3  x = x  y = y
  Path = {p1, p2, p3}
  Content = {x, y}
  Absent = Absent
  None = None
  Sensitive = {p3}
  Starts <- PlainStarts
  AnyPlan = TRUE
  MaxCommits = 2
  Budget = 0
  Kinds = {}
  StageAt = {}
  CommitAt = {}
SPECIFICATION Spec
INVARIANT QuietSucceeds
CHECK_DEADLOCK FALSE
