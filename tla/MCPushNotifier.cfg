SPECIFICATION Spec
CONSTANTS
  Unset = Unset
  Garbage <- MCGarbage
  NoToken = NoToken
  Lifetimes = {1}
  DefaultLifetime = 1
  StartTime = 2
  MaxTime = 5
  Fast = 1
  MaxActions = 3
  NoMessage = NoMessage
  ResponseLimit = 2
  AnswerSize = 3
INVARIANTS
  TypeOK
  ResponseIsLatest
  StartKept
PROPERTIES
  ImplementsActionFeed
  RenewalTakesOwnGrant
  EveryActionTried
  
  HandlerReturnsUnlessAbandoned
CHECK_DEADLOCK FALSE
