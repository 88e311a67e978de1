SPECIFICATION Spec
CONSTANTS
  Base = 2
  NoPayload = NoPayload
  NoFrame = NoFrame
  NoIv = NoIv
  Tops <- MCTops
  Heartbeat = 0
  MaxClock = 1
  Foreign <- MCForeign
  MaxLog = 2
  MaxSent = 3
INVARIANTS
  IvUsedOnce
  ReportedWasSent
PROPERTIES
  ImplementsDoorReports
  EarlyMessageReported
