SPECIFICATION Spec
CONSTANTS
  ann = ann
  bob = bob
  NULL = NULL
  Sessions <- MCSessions
  MaxTexts = 2
  MaxEvents = 2
  MaxThreads = 2
PROPERTIES
  LinesComeWithTheirMessage
CHECK_DEADLOCK FALSE
