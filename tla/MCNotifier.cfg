SPECIFICATION Spec
CONSTANTS
  MaxLines = 4
  BufferLimit = 2
  Other = Other
PROPERTIES
  ImplementsActionFeed
  KeepsReading
CHECK_DEADLOCK FALSE
