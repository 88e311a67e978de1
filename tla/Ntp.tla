-------------------------------- MODULE Ntp ---------------------------------
(***************************************************************************)
(* The NTP client of variant B (watchdog/ntp.cpp).  main calls loop() at   *)
(* the start and then in every turn of its own loop; it asks when          *)
(* test_time has passed.  Answers come from lwIP's background interrupt    *)
(* and alarms from the timer's, between any two steps of the loop.         *)
(*                                                                         *)
(* Times are what is left of them, in units of the half second a poll      *)
(* sleeps.  The alarm pool and the network are external.  A lookup polls   *)
(* at least once, so it takes at least one unit; what it answers is the    *)
(* subject of Dns.                                                         *)
(***************************************************************************)
EXTENDS Integers, FiniteSets

CONSTANTS
  NTP_RESEND_TIME, NTP_POLL_TIME,   \* 30 s and 64 s
  MaxAlarms,     \* alarms the pool has room for
  NoTime,        \* std::nullopt of test_time
  NoAlarm,       \* an alarm slot is free
  MaxOpen,       \* bound on the requests unanswered at a time
  MaxStrays      \* bound on the packets that are no answers

ASSUME NtpAssumption ==
  /\ NTP_RESEND_TIME \in Nat \ {0}
  /\ NTP_POLL_TIME \in Nat
  /\ NTP_RESEND_TIME < NTP_POLL_TIME
  /\ MaxAlarms \in Nat \ {0}
  /\ NoTime \notin Int /\ NoAlarm \notin Int
  /\ MaxOpen \in Nat /\ MaxStrays \in Nat

VARIABLES
  loop_pc,       \* "idle" outside of loop(), else where it is
  test_time,
  resend_alarm,  \* an alarm id; 0, or -1 when the pool had no room
  alarms,        \* alarms[id]: time left to the alarm
  added,         \* loop() has come to add an alarm (history)
  orphans,       \* alarms pending since before the last result (history)
  open,          \* requests an answer will come for
  strays         \* packets received that were no answers

ntpVars == <<loop_pc, test_time, resend_alarm, alarms, added, orphans, open,
             strays>>

Ids == 1 .. MaxAlarms

(* resend_alarm is not initialized: it may look like an id of somebody's    *)
(* (one below 0 is treated as 0 is).                                        *)
Foreign == MaxAlarms + 1

Pending == {id \in Ids : alarms[id] # NoAlarm}

NtpTypeOK ==
  /\ loop_pc \in {"idle", "lookup", "polled", "add_alarm"}
  /\ test_time \in -1 .. NTP_POLL_TIME \cup {NoTime}
  /\ resend_alarm \in -1 .. Foreign
  /\ alarms \in [Ids -> 0 .. NTP_RESEND_TIME \cup {NoAlarm}]
  /\ added \in BOOLEAN
  /\ orphans \in SUBSET Ids
  /\ open \in 0 .. MaxOpen
  /\ strays \in 0 .. MaxStrays

NtpInit ==
  /\ loop_pc = "idle"
  /\ test_time = NoTime
  /\ resend_alarm \in {0, Foreign}
  /\ alarms = [id \in Ids |-> NoAlarm]
  /\ added = FALSE
  /\ orphans = {}
  /\ open = 0
  /\ strays = 0

-----------------------------------------------------------------------------
\* Mutant: it asks at the first call only.
DueOnce == test_time = NoTime

Due == test_time = NoTime \/ test_time = -1

(* A call that finds nothing due changes nothing. *)
loop ==
  /\ loop_pc = "idle"
  /\ Due
  /\ loop_pc' = "lookup"
  /\ test_time' = IF test_time = NoTime THEN NTP_RESEND_TIME ELSE test_time
  /\ UNCHANGED <<resend_alarm, alarms, added, orphans, open, strays>>

lookup_failed ==
  /\ loop_pc = "polled"
  /\ loop_pc' = "add_alarm"
  /\ UNCHANGED <<test_time, resend_alarm, alarms, added, orphans, open, strays>>

(* The request or its answer is lost, or an answer comes some day. *)
ntp_request ==
  /\ loop_pc = "polled"
  /\ loop_pc' = "add_alarm"
  /\ \/ open < MaxOpen /\ open' = open + 1
     \/ UNCHANGED open
  /\ UNCHANGED <<test_time, resend_alarm, alarms, added, orphans, strays>>

(* Any id the pool has free will do, the lowest is given out again soonest. *)
(* An answer between this call and the assignment finds the old             *)
(* resend_alarm, as one just before this step does.                         *)
add_alarm_in_ms ==
  /\ loop_pc = "add_alarm"
  /\ loop_pc' = "idle"
  /\ added' = TRUE
  /\ \/ /\ Pending # Ids
        /\ \E id \in Ids \ Pending :
             /\ \A free \in Ids \ Pending : id <= free
             /\ alarms' = [alarms EXCEPT ![id] = NTP_RESEND_TIME]
             /\ resend_alarm' = id
     \/ /\ Pending = Ids
        /\ resend_alarm' = -1
        /\ UNCHANGED alarms
  /\ UNCHANGED <<test_time, orphans, open, strays>>

-----------------------------------------------------------------------------
\* Mutant: the id is kept.
cancelled_but_kept == resend_alarm

cancelled == IF resend_alarm > 0 THEN 0 ELSE resend_alarm

\* Mutant: 64 for 64 * 1000.
PollTimeTooShort == 0

PollTime == NTP_POLL_TIME

(* handle_result; left holds the alarms but the one that is calling. *)
handle_result(left) ==
  LET kept == [id \in Ids |-> IF id = resend_alarm THEN NoAlarm ELSE left[id]]
  IN  /\ alarms' = kept
      /\ orphans' = {id \in Ids : kept[id] # NoAlarm}
      /\ resend_alarm' = cancelled
      /\ test_time' = PollTime

(* The callback of udp_recv: the answer of the server, which also sets the  *)
(* RTC, and any other packet for the port.                                  *)
valid_response ==
  /\ open > 0
  /\ open' = open - 1
  /\ handle_result(alarms)
  /\ UNCHANGED <<loop_pc, added, strays>>

invalid_response ==
  /\ strays < MaxStrays
  /\ strays' = strays + 1
  /\ handle_result(alarms)
  /\ UNCHANGED <<loop_pc, added, open>>

\* Mutant: the callback returns NTP_POLL_TIME, which starts it again.
rest_rescheduled_long(id) == [alarms EXCEPT ![id] = NTP_POLL_TIME]

(* It returns 0: the alarm is over. *)
rest(id) == [alarms EXCEPT ![id] = NoAlarm]

alarm(id) ==
  /\ alarms[id] = 0
  /\ handle_result(rest(id))
  /\ UNCHANGED <<loop_pc, added, open, strays>>

(* Half a second passes; alarms fire when they are due. *)
Tick ==
  /\ \A id \in Ids : alarms[id] # 0
  /\ loop_pc \in {"idle", "lookup", "polled"}
  /\ loop_pc' = IF loop_pc = "lookup" THEN "polled" ELSE loop_pc
  /\ test_time' =
       IF test_time \in Nat THEN test_time - 1 ELSE test_time
  /\ alarms' = [id \in Ids |->
                  IF alarms[id] = NoAlarm THEN NoAlarm ELSE alarms[id] - 1]
  /\ UNCHANGED <<resend_alarm, added, orphans, open, strays>>

Loop == loop \/ lookup_failed \/ ntp_request \/ add_alarm_in_ms

NtpNext ==
  \/ Loop
  \/ valid_response \/ invalid_response
  \/ \E id \in Ids : alarm(id)
  \/ Tick

(* main's loop and the clock go on, and alarms fire. *)
NtpSpec ==
  /\ NtpInit /\ [][NtpNext]_ntpVars
  /\ WF_ntpVars(Loop) /\ WF_ntpVars(Tick)
  /\ \A id \in Ids : WF_ntpVars(alarm(id))

-----------------------------------------------------------------------------
(***************************************************************************)
(* From the first alarm on that loop() adds, or fails to, what             *)
(* handle_result would cancel is an alarm of the client that has not gone  *)
(* off: an id that has come free, and been given to another user of the    *)
(* pool, is not kept (ntp.cpp:107-115, 140-143).  Before, the member holds *)
(* what its memory held: an answer or a stray packet in the first lookup   *)
(* may cancel the alarm of another (ntp.cpp:41).                           *)
(***************************************************************************)
CancelsOwnAlarm == added /\ resend_alarm > 0 => resend_alarm \in Pending

(***************************************************************************)
(* Alarms that loop() has lost track of (it asks again while one is        *)
(* pending, or an answer comes before the alarm is set) do not pile up:    *)
(* when it asks again after a result, all those from before that result    *)
(* have gone off (ntp.cpp:107-115, 145).                                   *)
(***************************************************************************)
OrphansGoOff == test_time = -1 => orphans \cap Pending = {}

(***************************************************************************)
(* The client asks for ever, whatever is lost or late, and unless packets  *)
(* that are no answers keep coming: each of them puts the next request off *)
(* (ntp.cpp:77-80, 93-96, 145).                                            *)
(***************************************************************************)
AsksForEver == []<>(loop_pc = "lookup")

(***************************************************************************)
(* Why: every orphan is still pending, since an alarm that goes off ends   *)
(* with handle_result, and all of them go off before the poll time, which  *)
(* is longer than an alarm's, has passed.                                  *)
(***************************************************************************)
OrphansAreEarlier ==
  \A id \in orphans :
    /\ alarms[id] # NoAlarm /\ test_time # NoTime
    /\ alarms[id] + (NTP_POLL_TIME - NTP_RESEND_TIME) <= test_time

NtpInv == NtpTypeOK /\ CancelsOwnAlarm /\ OrphansAreEarlier
=============================================================================
