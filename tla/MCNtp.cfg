SPECIFICATION NtpSpec
CONSTANTS
  NTP_RESEND_TIME = 3
  NTP_POLL_TIME = 5
  MaxAlarms = 3
  NoTime = NoTime
  NoAlarm = NoAlarm
  MaxOpen = 2
  MaxStrays = 2
INVARIANTS
  NtpTypeOK
  CancelsOwnAlarm
  OrphansGoOff
PROPERTY
  AsksForEver
