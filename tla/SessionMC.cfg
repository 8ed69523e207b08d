SPECIFICATION FairSpec
CONSTANTS
  ann = ann
  bob = bob
  NULL = NULL
  Sessions <- MCSessions
  MaxTexts = 2
  MaxEvents = 2
  MaxThreads = 2
INVARIANTS
  TypeOK
  AddedOnce
  ReplyMatchesCart
  ThreadsKeepApart
  
PROPERTIES
  ImplementsPromise
  EveryMessageEnds
CHECK_DEADLOCK FALSE
