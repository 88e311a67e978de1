SPECIFICATION AppSpec
CONSTANTS
  Threads = {service_thread, main_thread}
  Service = service_thread
  Main = main_thread
  null = null
  MaxDatabases = 2
  Workers = {w1, w2, w3}
  MaxEvents = 2
  ClockSteps <- MCClockSteps
  MaxDeletions = 1
  MaxKills = 1
  Unusable = Unusable
  Nobody = Nobody
  DeleteAll = DeleteAll
INVARIANTS
  KeepsTrack
  OneDatabase
PROPERTIES
  ReceivedIsStored
  CallsReturn
CHECK_DEADLOCK FALSE
