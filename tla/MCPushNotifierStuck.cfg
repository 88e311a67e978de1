SPECIFICATION Spec
CONSTANTS
  Unset = Unset
  Garbage <- MCGarbage
  NoToken = NoToken
  Lifetimes = {1}
  DefaultLifetime = 1
  StartTime = 2
  MaxTime = 3
  Fast = 0
  MaxActions = 1
  NoMessage = NoMessage
  ResponseLimit = 2
  AnswerSize = 3
PROPERTY
  HandlerReturns
CHECK_DEADLOCK FALSE
