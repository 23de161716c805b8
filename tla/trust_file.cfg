\* Three processes, one after the other or at the same time.
CONSTANTS
  Process = {p1, p2, p3}
  Repo = {r1, r2}
  Hash = {h1, h2}
  None = None
  Overlaps = {TRUE, FALSE}
SPECIFICATION Spec
INVARIANTS OnlyApproved
PROPERTIES RevokedStaysRevoked
CHECK_DEADLOCK FALSE
