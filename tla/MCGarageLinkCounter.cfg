SPECIFICATION Spec
CONSTANTS
  Base = 2
  NoPayload = NoPayload
  NoFrame = NoFrame
  NoIv = NoIv
  Tops <- MCTop
  Heartbeat = 0
  MaxClock = 1
  Foreign <- MCForeign
  MaxLog = 1
  MaxSent = 6
PROPERTY
  NewMessageReported
