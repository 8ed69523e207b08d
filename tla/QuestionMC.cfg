SPECIFICATION FairSpec
CONSTANTS
  NULL = NULL
  Lookups <- MCLookups
  RecursionLimit = 7
  MaxCalls = 2
  MaxTurns = 4
  MaxAsked = 2
INVARIANTS
  TypeOK
  PromptIsConversation
  CallsAreAnswered
  TicketsAreKnown
  ShowsOwnWords
  AnswerIsTheModels
PROPERTIES
  ImplementsNode
  QuestionEnds
CHECK_DEADLOCK FALSE
