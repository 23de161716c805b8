\* Three installations, one after the other or overlapping, that fail or die.
CONSTANTS
  config = config  weights = weights
  Process = {a, b, c}
  File = {config, weights}
  Config = config
  NoDir = NoDir
  Found <- SomeFound
  Overlaps = {TRUE, FALSE}
SPECIFICATION Spec
INVARIANTS ReadyIsVerified UndisturbedSucceeds CopyKept
PROPERTIES ReadyStaysReady
CHECK_DEADLOCK FALSE
