\* Two disturbances of any kind, up to two cycles.
CONSTANTS
  a = a  b = b
  Path = {a, b}
  Orders <- SomeOrders
  Modes <- SomeModes
  Commands = 1
  MaxCycles = 2
  Budget = 2
  Kinds = {"edit", "stage", "commit", "script", "cancel", "mutate", "fault"}
SPECIFICATION FairSpec
INVARIANTS PushGuarded ExitTruth IndexKept
PROPERTIES OneState OnlyTrustedDefinitions StopsWhenInterrupted
CHECK_DEADLOCK FALSE
