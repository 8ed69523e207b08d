SPECIFICATION Spec
CONSTANTS
  ann = ann
  bob = bob
  NULL = NULL
  Sessions <- MCSessions
  MaxTexts = 2
  MaxEvents = 2
  MaxThreads = 2
INVARIANTS
  OneOrderPerMessage
CHECK_DEADLOCK FALSE
