SPECIFICATION ProgramSpec
CONSTANTS
  Base = 2
  NoPayload = NoPayload
  NoFrame = NoFrame
  NoIv = NoIv
  Frames <- MCFrames
  MaxLog = 3
  Unset = Unset
  Garbage <- MCGarbage
  NoToken = NoToken
  Lifetimes = {1}
  DefaultLifetime = 1
  StartTime = 2
  MaxTime = 3
  Fast = 0
  MaxActions = 2
  NoMessage = NoMessage
  ResponseLimit = 2
  AnswerSize = 3
  MaxRestarts = 1
INVARIANTS
  ReportedInOrder
  WarningsJustified
PROPERTIES
  NotifiedInMessageOrder
  ListensAgain
CHECK_DEADLOCK FALSE
