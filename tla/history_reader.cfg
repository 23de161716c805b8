\* Two workers, two turns, a channel of one place.
CONSTANTS
  Worker = {w1, w2}
  MaxTurns = 2
  Capacity = 1
  StallPolls = 2
SPECIFICATION FairSpec
INVARIANTS CompleteIsWhole StalledContributesNothing SlotsAccounted
PROPERTIES Finishes
CHECK_DEADLOCK FALSE
