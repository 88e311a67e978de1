SPECIFICATION LifeSpec
CONSTANTS
  SecondsPerMinute = 2
  MinutesPerHour = 2
  HoursPerDay = 2
  FirstDates <- MCFirstDates
  Years <- MCYears
  NtpRange = 2000000
  NtpOffset = 1987830
  Char <- MCChar
  Answers <- MCAnswers
  Requests <- MCRequests
  Nothing = Nothing
  NoToken = NoToken
  MaxLife = 37
INVARIANTS
  RenewalOnTime
  PartNeverMisread
  WholeIsRead
  WrittenIsRead
  AnswerGivesTime
PROPERTIES
  CountsSeconds
  ReadingEnds
CHECK_DEADLOCK FALSE
