\* Four runs, crashes and removed stale locks.
CONSTANTS
  Run = {r1, r2, r3, r4}
  Nobody = Nobody
  MaxCollects = 3
SPECIFICATION LockSpec
INVARIANTS CollectExclusive NoLeak
CHECK_DEADLOCK FALSE
