------------------------------ MODULE Calendar ------------------------------
(***************************************************************************)
(* The arithmetic of time (watchdog/dateutils.cpp, and the conversion of   *)
(* an NTP answer in watchdog/ntp.cpp).  NTP's seconds become seconds since *)
(* 1970, gmtime breaks them down into a date for the RTC, and to_epoch     *)
(* makes seconds of the date again.                                        *)
(*                                                                         *)
(* The date advances second by second as gmtime gives it (external: the    *)
(* Gregorian calendar), and the arithmetic is to count the seconds.  How   *)
(* many seconds a minute has, and so on, are constants; so are the width   *)
(* of NTP's counter and where it starts, so that its wrap is near.         *)
(* Seconds are counted from 2000: the code's constant                      *)
(* TIMEUTILS_SECONDS_1970_TO_2000 is added on both sides.                  *)
(***************************************************************************)
EXTENDS Integers

CONSTANTS
  SecondsPerMinute, MinutesPerHour, HoursPerDay,   \* 60, 60, 24
  FirstDates,   \* dates from which the seconds are counted
  Years,        \* bound: the years the date passes through
  NtpRange,     \* 2^32: NTP's seconds are counted modulo this
  NtpOffset     \* seconds_between_1_jan_1900_to_1970

Date ==
  [year : Nat, month : 1 .. 12, day : 1 .. 31,
   hour : 0 .. HoursPerDay - 1, min : 0 .. MinutesPerHour - 1,
   sec : 0 .. SecondsPerMinute - 1]

(* The calendar, as gmtime knows it. *)
Divides(n, year) == n * (year \div n) = year

Leap(year) ==
  Divides(4, year) /\ (Divides(100, year) => Divides(400, year))

DaysIn(year, month) ==
  IF month = 2 THEN (IF Leap(year) THEN 29 ELSE 28)
  ELSE IF month \in {4, 6, 9, 11} THEN 30 ELSE 31

ASSUME CalendarAssumption ==
  /\ SecondsPerMinute \in Nat \ {0}
  /\ MinutesPerHour \in Nat \ {0}
  /\ HoursPerDay \in Nat \ {0}
  /\ \A y \in Years : y \in Nat /\ y >= 2000
  /\ \A d \in FirstDates :
       d \in Date /\ d.year \in Years /\ d.day <= DaysIn(d.year, d.month)
  /\ NtpRange \in Nat /\ NtpOffset \in 0 .. NtpRange - 1

VARIABLE t   \* datetime_t

-----------------------------------------------------------------------------
days_since_jan1 == <<0, 31, 59, 90, 120, 151, 181, 212, 243, 273, 304, 334, 365>>

timeutils_is_leap_year(year) ==
  \/ year % 4 = 0 /\ year % 100 # 0
  \/ year % 400 = 0

\* Mutant: the leap day is counted from February on.
timeutils_year_day_early(year, month, date) ==
  days_since_jan1[month] + date
    + (IF month >= 2 /\ timeutils_is_leap_year(year) THEN 1 ELSE 0)

timeutils_year_day(year, month, date) ==
  days_since_jan1[month] + date
    + (IF month >= 3 /\ timeutils_is_leap_year(year) THEN 1 ELSE 0)

SecondsPerDay == SecondsPerMinute * MinutesPerHour * HoursPerDay

(* Leap days of the years from 2000 on, before the given one. *)
LeapDays(year) ==
  (year - 2000 + 3) \div 4 - (year - 2000 + 99) \div 100
    + (year - 2000 + 399) \div 400

timeutils_seconds_since_2000(year, month, date, hour, minute, second) ==
  second + minute * SecondsPerMinute + hour * (SecondsPerMinute * MinutesPerHour)
    + (timeutils_year_day(year, month, date) - 1 + LeapDays(year)) * SecondsPerDay
    + (year - 2000) * (365 * SecondsPerDay)

to_epoch(d) ==
  timeutils_seconds_since_2000(d.year, d.month, d.day, d.hour, d.min, d.sec)

(* What the receiver of an answer makes of NTP's 32 bits: a difference of   *)
(* unsigned numbers.                                                        *)
\* Mutant: a difference below zero counts as nothing.
seconds_saturated(seconds_since_1900) ==
  IF seconds_since_1900 < NtpOffset THEN 0 ELSE seconds_since_1900 - NtpOffset

seconds_since_1970(seconds_since_1900) ==
  (seconds_since_1900 - NtpOffset) % NtpRange

-----------------------------------------------------------------------------
Init == t \in FirstDates

Clock(h, m, s) ==
  [year |-> t.year, month |-> t.month, day |-> t.day,
   hour |-> h, min |-> m, sec |-> s]

Midnight(y, m, d) ==
  [year |-> y, month |-> m, day |-> d, hour |-> 0, min |-> 0, sec |-> 0]

NextSecond ==
  \/ /\ t.sec < SecondsPerMinute - 1
     /\ t' = Clock(t.hour, t.min, t.sec + 1)
  \/ /\ t.sec = SecondsPerMinute - 1
     /\ t.min < MinutesPerHour - 1
     /\ t' = Clock(t.hour, t.min + 1, 0)
  \/ /\ t.sec = SecondsPerMinute - 1
     /\ t.min = MinutesPerHour - 1
     /\ t.hour < HoursPerDay - 1
     /\ t' = Clock(t.hour + 1, 0, 0)

LastSecond ==
  /\ t.sec = SecondsPerMinute - 1
  /\ t.min = MinutesPerHour - 1
  /\ t.hour = HoursPerDay - 1

NextDay ==
  /\ LastSecond
  /\ t.day < DaysIn(t.year, t.month)
  /\ t' = Midnight(t.year, t.month, t.day + 1)

NextMonth ==
  /\ LastSecond
  /\ t.day = DaysIn(t.year, t.month)
  /\ t.month < 12
  /\ t' = Midnight(t.year, t.month + 1, 1)

NextYear ==
  /\ LastSecond
  /\ t.day = DaysIn(t.year, t.month)
  /\ t.month = 12
  /\ t.year + 1 \in Years
  /\ t' = Midnight(t.year + 1, 1, 1)

Next == NextSecond \/ NextDay \/ NextMonth \/ NextYear

Spec == Init /\ [][Next]_t

-----------------------------------------------------------------------------
TypeOK ==
  t \in Date /\ t.year \in Years /\ t.day <= DaysIn(t.year, t.month)

(***************************************************************************)
(* Over minutes, months, leap days and years without them, to_epoch counts *)
(* one second for each second (dateutils.cpp:20-40): a difference of two   *)
(* times, by which the token is renewed, is the time that passed.          *)
(***************************************************************************)
CountsSeconds == [][to_epoch(t') = to_epoch(t) + 1]_t

(***************************************************************************)
(* An NTP answer gives the time also after its counter has wrapped, which  *)
(* it does in 2036 (ntp.cpp:69-74).                                        *)
(***************************************************************************)
AnswerGivesTime ==
  to_epoch(t) < NtpRange =>
    seconds_since_1970((to_epoch(t) + NtpOffset) % NtpRange) = to_epoch(t)
=============================================================================
