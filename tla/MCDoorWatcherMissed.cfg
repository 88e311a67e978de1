SPECIFICATION Spec
CONSTANTS
  Base = 2
  NoPayload = NoPayload
  NoFrame = NoFrame
  Tops <- MCTops
  Heartbeat = 1
  MaxClock = 2
INVARIANT
  SleepsInformed
