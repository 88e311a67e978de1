---------------------------- MODULE ServiceProofs ---------------------------
(***************************************************************************)
(* Theorems about the programs' services: the lookup of names and the NTP  *)
(* client of variant B, and the notifier beside variant A.  They hold for  *)
(* every set of names and number of retries, for every size of the alarm   *)
(* pool and all times that the poll time exceeds, and however many lines   *)
(* are printed and whatever the notifier's port holds.                     *)
(***************************************************************************)
EXTENDS Dns, Ntp, Notifier, TLAPS

(* A lookup starts with nothing owed and nothing found. *)
LEMMA LookupStep ==
  ASSUME DnsInv, NEW n \in Names, lookup(n)
  PROVE  DnsInv'
<1>1. DnsTypeOK'
  <2>1. retry_count' \in 0 .. max_retry
    BY DnsAssumption DEF DnsInv, DnsTypeOK, lookup, Address
  <2>2. success' \in BOOLEAN /\ dns_request_sent' \in BOOLEAN
    BY Zenon DEF DnsInv, DnsTypeOK, lookup, Address
  <2>3. (DnsTypeOK!1 /\ DnsTypeOK!2 /\ DnsTypeOK!4 /\ DnsTypeOK!7 /\ DnsTypeOK!8)'
    BY DEF DnsInv, DnsTypeOK, lookup, Address
  <2> QED  BY <2>1, <2>2, <2>3 DEF DnsTypeOK
<1>2. (lookup_pc = "loop" => name # NoName)'
  BY DnsAssumption DEF lookup
<1>3. OwedToThisLookup'
  BY DEF DnsInv, OwedToThisLookup, lookup
<1>4. FoundForThisName'
  BY DEF FoundForThisName, lookup
<1> QED  BY <1>1, <1>2, <1>3, <1>4 DEF DnsInv

(* A request is made for the name of this lookup, whatever comes of it. *)
LEMMA RequestStep ==
  ASSUME DnsInv, request
  PROVE  DnsInv'
<1>1. DnsTypeOK'
  <2>1. retry_count' \in 0 .. max_retry
    BY DnsAssumption DEF DnsInv, DnsTypeOK, request, Address, Over, TriesLeft
  <2>2. success' \in BOOLEAN /\ dns_request_sent' \in BOOLEAN
    BY Zenon DEF DnsInv, DnsTypeOK, request, Address, Over, TriesLeft
  <2>3. (DnsTypeOK!1 /\ DnsTypeOK!2 /\ DnsTypeOK!4 /\ DnsTypeOK!7 /\ DnsTypeOK!8)'
    BY DEF DnsInv, DnsTypeOK, request, Address, Over, TriesLeft
  <2> QED  BY <2>1, <2>2, <2>3 DEF DnsTypeOK
<1>2. (lookup_pc = "loop" => name # NoName)'
  BY DEF DnsInv, request
<1>3. OwedToThisLookup'
  BY DEF DnsInv, OwedToThisLookup, request, Over, TriesLeft
<1>4. FoundForThisName'
  BY DEF DnsInv, FoundForThisName, request, Over
<1> QED  BY <1>1, <1>2, <1>3, <1>4 DEF DnsInv

(* The callback finds the lookup it was registered by. *)
LEMMA FoundStep ==
  ASSUME DnsInv, found
  PROVE  DnsInv'
<1>1. DnsTypeOK'
  BY DnsAssumption DEF DnsInv, DnsTypeOK, found, Address
<1>2. (lookup_pc = "loop" => name # NoName)'
  BY DEF DnsInv, found
<1>3. OwedToThisLookup'
  BY DEF OwedToThisLookup, found
<1>4. FoundForThisName'
  BY DEF DnsInv, OwedToThisLookup, FoundForThisName, found
<1> QED  BY <1>1, <1>2, <1>3, <1>4 DEF DnsInv

(* A lookup returns only when nothing is owed to it. *)
LEMMA ReturnStep ==
  ASSUME DnsInv, return
  PROVE  DnsInv'
<1>1. DnsTypeOK'
  BY DEF DnsInv, DnsTypeOK, return, Address
<1>2. OwedToThisLookup'
  BY DEF DnsInv, OwedToThisLookup, return, Over, TriesLeft
<1>3. (lookup_pc = "loop" => name # NoName)' /\ FoundForThisName'
  BY DEF return, FoundForThisName
<1> QED  BY <1>1, <1>2, <1>3 DEF DnsInv

(* The inductive invariant holds. *)
LEMMA DnsInvariant == DnsSpec => []DnsInv
<1>1. DnsInit => DnsInv
  <2> SUFFICES ASSUME DnsInit PROVE DnsInv
    OBVIOUS
  <2>1. retry_count \in 0 .. max_retry
    BY DnsAssumption DEF DnsInit
  <2>2. success \in BOOLEAN /\ dns_request_sent \in BOOLEAN
    BY Zenon DEF DnsInit
  <2>3. DnsTypeOK!1 /\ DnsTypeOK!2 /\ DnsTypeOK!4 /\ DnsTypeOK!7 /\ DnsTypeOK!8
    BY DEF DnsInit, Address
  <2>4. OwedToThisLookup /\ FoundForThisName /\ (lookup_pc = "loop" => name # NoName)
    BY DEF DnsInit, OwedToThisLookup, FoundForThisName
  <2> QED  BY <2>1, <2>2, <2>3, <2>4 DEF DnsInv, DnsTypeOK
<1>2. DnsInv /\ [DnsNext]_dnsVars => DnsInv'
  <2> SUFFICES ASSUME DnsInv, [DnsNext]_dnsVars PROVE DnsInv'
    OBVIOUS
  <2>1. CASE \E n \in Names : lookup(n)
    BY <2>1, LookupStep
  <2>2. CASE request
    BY <2>2, RequestStep
  <2>3. CASE found
    BY <2>3, FoundStep
  <2>4. CASE return
    BY <2>4, ReturnStep
  <2>5. CASE UNCHANGED dnsVars
    BY <2>5 DEF dnsVars, DnsInv, DnsTypeOK, OwedToThisLookup, FoundForThisName, Over,
                TriesLeft
  <2> QED  BY <2>1, <2>2, <2>3, <2>4, <2>5 DEF DnsNext
<1> QED  BY <1>1, <1>2, PTL DEF DnsSpec

(* The type invariant of the lookup (dns.cpp:6-46).  *)
THEOREM DnsTypeCorrect == DnsSpec => []DnsTypeOK
<1>1. DnsInv => DnsTypeOK
  BY DEF DnsInv
<1> QED  BY <1>1, DnsInvariant, PTL

(***************************************************************************)
(* Every lookup answers for its own name (dns.cpp:10-45): calling and      *)
(* returning are steps of the promise, all that happens in between is      *)
(* hidden from the caller.                                                 *)
(***************************************************************************)
THEOREM AnswersForItsName == DnsSpec => ImplementsResolver
<1>1. DnsInit => Promise!Init
  BY DEF DnsInit, Promise!Init
<1>2. DnsInv /\ [DnsNext]_dnsVars => [Promise!Next]_(Promise!vars)
  <2> SUFFICES ASSUME DnsInv, [DnsNext]_dnsVars PROVE [Promise!Next]_(Promise!vars)
    OBVIOUS
  <2>1. CASE \E n \in Names : lookup(n)
    BY <2>1 DEF lookup, Promise!Next, Promise!Ask
  <2>2. CASE request
    BY <2>2 DEF request, Promise!vars
  <2>3. CASE found
    BY <2>3 DEF found, Promise!vars
  <2>4. CASE return
    BY <2>4 DEF return, DnsInv, FoundForThisName, Promise!Next, Promise!Answer
  <2>5. CASE UNCHANGED dnsVars
    BY <2>5 DEF dnsVars, Promise!vars
  <2> QED  BY <2>1, <2>2, <2>3, <2>4, <2>5 DEF DnsNext
<1> QED  BY <1>1, <1>2, DnsInvariant, PTL DEF DnsSpec, ImplementsResolver, Promise!Spec

-----------------------------------------------------------------------------
(* What is done with a result, whoever reports it: the alarm of the request *)
(* is cancelled, and what is pending then is left from before it.           *)
LEMMA ResultStep ==
  ASSUME NtpInv, NEW left \in [Ids -> 0 .. NTP_RESEND_TIME \cup {NoAlarm}],
         handle_result(left)
  PROVE  /\ test_time' = NTP_POLL_TIME /\ resend_alarm' \in {0, -1}
         /\ alarms' \in [Ids -> 0 .. NTP_RESEND_TIME \cup {NoAlarm}]
         /\ orphans' \in SUBSET Ids
         /\ CancelsOwnAlarm' /\ OrphansAreEarlier'
<1> USE NtpAssumption
<1>1. /\ alarms' = [id \in Ids |-> IF id = resend_alarm THEN NoAlarm ELSE left[id]]
      /\ orphans' = {id \in Ids : alarms'[id] # NoAlarm}
      /\ resend_alarm' = IF resend_alarm > 0 THEN 0 ELSE resend_alarm
      /\ test_time' = NTP_POLL_TIME
  BY DEF handle_result, cancelled, PollTime
<1>2. alarms' \in [Ids -> 0 .. NTP_RESEND_TIME \cup {NoAlarm}]
  BY <1>1
<1>3. resend_alarm' \in {0, -1}
  <2>1. resend_alarm \in -1 .. Foreign /\ Foreign \in Nat
    BY DEF NtpInv, NtpTypeOK, Foreign
  <2> QED
    BY <1>1, <2>1
<1>4. CancelsOwnAlarm'
  BY <1>3 DEF CancelsOwnAlarm
<1>5. OrphansAreEarlier'
  <2> SUFFICES ASSUME NEW id \in orphans'
               PROVE  /\ alarms'[id] # NoAlarm /\ test_time' # NoTime
                      /\ alarms'[id] + (NTP_POLL_TIME - NTP_RESEND_TIME) <= test_time'
    BY DEF OrphansAreEarlier
  <2>1. id \in Ids /\ alarms'[id] # NoAlarm /\ alarms'[id] \in 0 .. NTP_RESEND_TIME
    BY <1>1, <1>2
  <2> QED
    BY <1>1, <2>1
<1> QED
  BY <1>1, <1>2, <1>3, <1>4, <1>5

(* The three who report one: the answer, a packet that is none, the alarm.  *)
LEMMA ReportStep ==
  ASSUME NtpInv, valid_response \/ invalid_response \/ \E id \in Ids : alarm(id)
  PROVE  NtpInv'
<1> USE NtpAssumption
<1>1. PICK left \in [Ids -> 0 .. NTP_RESEND_TIME \cup {NoAlarm}] :
        handle_result(left)
  <2>1. alarms \in [Ids -> 0 .. NTP_RESEND_TIME \cup {NoAlarm}]
    BY DEF NtpInv, NtpTypeOK
  <2>2. \A id \in Ids : rest(id) \in [Ids -> 0 .. NTP_RESEND_TIME \cup {NoAlarm}]
    BY <2>1 DEF rest
  <2> QED
    BY <2>1, <2>2 DEF valid_response, invalid_response, alarm
<1>2. UNCHANGED <<loop_pc, added>> /\ open' \in 0 .. MaxOpen /\ strays' \in 0 .. MaxStrays
  BY DEF NtpInv, NtpTypeOK, valid_response, invalid_response, alarm
<1>3. NtpTypeOK'
  <2>1. NTP_POLL_TIME \in -1 .. NTP_POLL_TIME /\ {0, -1} \subseteq -1 .. Foreign
    BY DEF Foreign
  <2> QED
    BY <1>1, <1>2, <2>1, ResultStep DEF NtpInv, NtpTypeOK
<1> QED
  BY <1>1, <1>3, ResultStep DEF NtpInv

(* The alarm that loop() adds takes a free place in the pool.               *)
LEMMA AlarmIsAdded ==
  ASSUME NtpInv, add_alarm_in_ms
  PROVE  NtpInv'
<1> USE NtpAssumption
<1>1. /\ alarms \in [Ids -> 0 .. NTP_RESEND_TIME \cup {NoAlarm}]
      /\ orphans \subseteq Pending
  BY DEF NtpInv, NtpTypeOK, OrphansAreEarlier, Pending
<1>2. /\ UNCHANGED <<test_time, orphans, open, strays>> /\ loop_pc' = "idle"
      /\ added' \in BOOLEAN
  BY DEF add_alarm_in_ms
<1>3. CASE Pending = Ids /\ resend_alarm' = -1 /\ UNCHANGED alarms
  <2>1. -1 \in -1 .. Foreign
    BY DEF Foreign
  <2> QED
    BY <1>2, <1>3, <2>1
    DEF NtpInv, NtpTypeOK, CancelsOwnAlarm, OrphansAreEarlier, Pending
<1>4. ASSUME NEW id \in Ids \ Pending,
             alarms' = [alarms EXCEPT ![id] = NTP_RESEND_TIME], resend_alarm' = id
      PROVE  NtpInv'
  <2>1. alarms' \in [Ids -> 0 .. NTP_RESEND_TIME \cup {NoAlarm}]
    BY <1>1, <1>4
  <2>2. alarms'[id] # NoAlarm /\ \A i \in orphans : alarms'[i] = alarms[i]
    BY <1>1, <1>4
  <2>3. id \in -1 .. Foreign
    BY DEF Ids, Foreign
  <2>4. NtpTypeOK'
    BY <1>2, <1>4, <2>1, <2>3 DEF NtpInv, NtpTypeOK
  <2>5. CancelsOwnAlarm'
    BY <1>4, <2>2 DEF CancelsOwnAlarm, Pending
  <2>6. OrphansAreEarlier'
    BY <1>2, <2>2 DEF NtpInv, OrphansAreEarlier
  <2> QED
    BY <2>4, <2>5, <2>6 DEF NtpInv
<1> QED
  BY <1>3, <1>4 DEF add_alarm_in_ms

(* As time passes, the orphans are done before the poll time is.            *)
LEMMA TimePasses ==
  ASSUME NtpInv, Tick
  PROVE  NtpInv'
<1> USE NtpAssumption
<1>1. /\ \A id \in Ids : alarms[id] \in 0 .. NTP_RESEND_TIME \cup {NoAlarm}
      /\ \A id \in Ids : alarms[id] # 0
      /\ alarms' = [id \in Ids |->
                      IF alarms[id] = NoAlarm THEN NoAlarm ELSE alarms[id] - 1]
      /\ test_time \in -1 .. NTP_POLL_TIME \cup {NoTime}
      /\ test_time' = IF test_time \in Nat THEN test_time - 1 ELSE test_time
      /\ loop_pc' \in {"idle", "lookup", "polled", "add_alarm"}
      /\ UNCHANGED <<resend_alarm, orphans, open, strays>>
      /\ orphans \subseteq Ids
  BY DEF NtpInv, NtpTypeOK, Tick
<1>2. \A id \in Ids : alarms'[id] \in 0 .. NTP_RESEND_TIME \cup {NoAlarm}
  <2> SUFFICES ASSUME NEW id \in Ids, alarms[id] # NoAlarm
               PROVE  alarms[id] - 1 \in 0 .. NTP_RESEND_TIME
    BY <1>1
  <2> QED
    BY <1>1
<1>3. test_time' \in -1 .. NTP_POLL_TIME \cup {NoTime}
  BY <1>1
<1>3a. added' = added /\ added' \in BOOLEAN
  <2>1. added' = added
    BY DEF Tick
  <2>2. added \in BOOLEAN
    BY DEF NtpInv, NtpTypeOK
  <2> QED
    BY <2>1, <2>2, Zenon
<1>4. NtpTypeOK'
  <2>1. resend_alarm' \in -1 .. Foreign /\ open' \in 0 .. MaxOpen
        /\ strays' \in 0 .. MaxStrays /\ orphans' \in SUBSET Ids
    BY <1>1 DEF NtpInv, NtpTypeOK
  <2>2. alarms' \in [Ids -> 0 .. NTP_RESEND_TIME \cup {NoAlarm}]
    BY <1>1, <1>2
  <2> QED
    BY <1>1, <1>3, <1>3a, <2>1, <2>2, Zenon DEF NtpTypeOK
<1>5. \A id \in Ids : alarms'[id] # NoAlarm <=> alarms[id] # NoAlarm
  BY <1>1
<1>6. CancelsOwnAlarm'
  <2>1. Pending' = Pending
    BY <1>5 DEF Pending
  <2>2. resend_alarm' = resend_alarm
    BY <1>1
  <2> QED
    BY <1>3a, <2>1, <2>2, Zenon DEF NtpInv, CancelsOwnAlarm
<1>7. OrphansAreEarlier'
  <2> SUFFICES ASSUME NEW id \in orphans
               PROVE  /\ alarms'[id] # NoAlarm /\ test_time' # NoTime
                      /\ alarms'[id] + (NTP_POLL_TIME - NTP_RESEND_TIME) <= test_time'
    BY <1>1 DEF OrphansAreEarlier
  <2>1. /\ id \in Ids /\ alarms[id] # NoAlarm /\ test_time # NoTime
        /\ alarms[id] + (NTP_POLL_TIME - NTP_RESEND_TIME) <= test_time
    BY <1>1 DEF NtpInv, OrphansAreEarlier
  <2>2. alarms[id] \in 1 .. NTP_RESEND_TIME /\ alarms'[id] = alarms[id] - 1
    BY <1>1, <2>1
  <2>3. test_time \in Nat /\ test_time' = test_time - 1
    BY <1>1, <2>1, <2>2
  <2> QED
    BY <2>1, <2>2, <2>3
<1> QED
  BY <1>4, <1>6, <1>7 DEF NtpInv

LEMMA NtpInvariant == NtpSpec => []NtpInv
<1> USE NtpAssumption
<1>1. NtpInit => NtpInv
  <2> SUFFICES ASSUME NtpInit PROVE NtpInv
    OBVIOUS
  <2>1. resend_alarm \in -1 .. Foreign
    BY DEF NtpInit, Foreign
  <2>2. alarms \in [Ids -> 0 .. NTP_RESEND_TIME \cup {NoAlarm}]
    BY DEF NtpInit
  <2>3. open \in 0 .. MaxOpen /\ strays \in 0 .. MaxStrays
    BY DEF NtpInit
  <2> QED
    BY <2>1, <2>2, <2>3
    DEF NtpInit, NtpInv, NtpTypeOK, CancelsOwnAlarm, OrphansAreEarlier
<1>2. NtpInv /\ [NtpNext]_ntpVars => NtpInv'
  <2> SUFFICES ASSUME NtpInv, [NtpNext]_ntpVars PROVE NtpInv'
    OBVIOUS
  <2>1. CASE loop
    <3>1. test_time' \in -1 .. NTP_POLL_TIME \cup {NoTime}
      BY <2>1 DEF NtpInv, NtpTypeOK, loop
    <3>2. orphans # {} => UNCHANGED test_time
      BY <2>1 DEF NtpInv, OrphansAreEarlier, loop
    <3> QED
      BY <2>1, <3>1, <3>2
      DEF NtpInv, NtpTypeOK, CancelsOwnAlarm, OrphansAreEarlier, Pending, loop
  <2>2. CASE lookup_failed \/ ntp_request
    <3>1. open' \in 0 .. MaxOpen
      BY <2>2 DEF NtpInv, NtpTypeOK, lookup_failed, ntp_request
    <3> QED
      BY <2>2, <3>1
      DEF NtpInv, NtpTypeOK, CancelsOwnAlarm, OrphansAreEarlier, Pending,
          lookup_failed, ntp_request
  <2>3. CASE add_alarm_in_ms
    BY <2>3, AlarmIsAdded
  <2>4. CASE valid_response \/ invalid_response \/ \E id \in Ids : alarm(id)
    BY <2>4, ReportStep
  <2>5. CASE Tick
    BY <2>5, TimePasses
  <2>6. CASE UNCHANGED ntpVars
    BY <2>6 DEF ntpVars, NtpInv, NtpTypeOK, CancelsOwnAlarm, OrphansAreEarlier,
                Pending
  <2> QED
    BY <2>1, <2>2, <2>3, <2>4, <2>5, <2>6 DEF NtpNext, Loop
<1> QED
  BY <1>1, <1>2, PTL DEF NtpSpec

(***************************************************************************)
(* The variables of the NTP client keep their types (ntp.cpp:23-58).       *)
(***************************************************************************)
THEOREM NtpTypeCorrect == NtpSpec => []NtpTypeOK
<1>1. NtpInv => NtpTypeOK
  BY DEF NtpInv
<1> QED
  BY <1>1, NtpInvariant, PTL

(***************************************************************************)
(* From the first alarm it adds on, the id the client would cancel is that *)
(* of an alarm of its own that is still pending (ntp.cpp:107-115,          *)
(* 140-143), however large the pool is; of the id that the member starts   *)
(* with (ntp.cpp:41) nothing is shown.                                     *)
(***************************************************************************)
THEOREM OwnAlarmIsCancelled == NtpSpec => []CancelsOwnAlarm
<1>1. NtpInv => CancelsOwnAlarm
  BY DEF NtpInv
<1> QED
  BY <1>1, NtpInvariant, PTL

(***************************************************************************)
(* Alarms that lost their request are gone when the next request is due,   *)
(* for all times of which the poll time is the longer (ntp.cpp:107-115,    *)
(* 145).                                                                   *)
(***************************************************************************)
THEOREM OrphansAreGone == NtpSpec => []OrphansGoOff
<1>1. NtpInv => OrphansGoOff
  <2> SUFFICES ASSUME NtpInv, test_time = -1, NEW id \in orphans, id \in Pending
               PROVE  FALSE
    BY DEF OrphansGoOff
  <2>1. /\ alarms[id] \in 0 .. NTP_RESEND_TIME
        /\ alarms[id] + (NTP_POLL_TIME - NTP_RESEND_TIME) <= -1
    BY DEF NtpInv, NtpTypeOK, OrphansAreEarlier, Pending
  <2> QED
    BY <2>1, NtpAssumption
<1> QED
  BY <1>1, NtpInvariant, PTL

-----------------------------------------------------------------------------
(* The notifier implements the feed of actions: the inductive invariant    *)
(* says that the line being handled and the lines of the port are newer    *)
(* than what Firebase has accepted, and in order.                          *)

(* What is at the head of the port, and what remains. *)
LEMMA HeadTail ==
  ASSUME NEW S, NEW s \in Seq(S), s # <<>>
  PROVE  /\ Head(s) \in S /\ Head(s) = s[1] /\ 1 \in DOMAIN s
         /\ Tail(s) \in Seq(S) /\ Len(Tail(s)) = Len(s) - 1
         /\ Len(s) \in Nat /\ Len(s) >= 1
         /\ DOMAIN s = 1 .. Len(s)
         /\ DOMAIN Tail(s) = 1 .. Len(s) - 1
         /\ \A i \in 1 .. Len(s) - 1 : Tail(s)[i] = s[i + 1]
<1>1. Len(s) \in Nat /\ DOMAIN s = 1 .. Len(s) /\ Len(s) # 0
  OBVIOUS
<1> QED
  BY <1>1

(* What a sequence holds. *)
LEMMA Element ==
  ASSUME NEW S, NEW s \in Seq(S)
  PROVE  \A i \in 1 .. Len(s) : s[i] \in S
  OBVIOUS

(* One more element at the end. *)
LEMMA Appended ==
  ASSUME NEW S, NEW s \in Seq(S), NEW e \in S
  PROVE  /\ Append(s, e) \in Seq(S)
         /\ Len(Append(s, e)) = Len(s) + 1 /\ Len(s) \in Nat
         /\ DOMAIN s = 1 .. Len(s)
         /\ DOMAIN Append(s, e) = 1 .. Len(s) + 1
         /\ Append(s, e)[Len(s) + 1] = e
         /\ \A i \in 1 .. Len(s) : Append(s, e)[i] = s[i]
  OBVIOUS

(* What has left the process are numbers of lines. *)
LEMMA SentAreNumbers ==
  ASSUME TypeOK
  PROVE  /\ Feed!Accepted \subseteq 1 .. MaxLines /\ adrift \subseteq 1 .. MaxLines
         /\ Sent \subseteq Nat /\ 1 .. MaxLines \subseteq Nat
<1>1. delivered \in Seq(1 .. MaxLines) /\ adrift \subseteq 1 .. MaxLines
  BY DEF TypeOK
<1>2. \A i \in 1 .. Len(delivered) : delivered[i] \in 1 .. MaxLines
  BY ONLY <1>1, Element
<1>3. Feed!Accepted \subseteq 1 .. MaxLines
  <2>1. DOMAIN delivered = 1 .. Len(delivered)
    BY <1>1
  <2> QED
    BY <1>2, <2>1 DEF Feed!Accepted
<1>4. 1 .. MaxLines \subseteq Nat
  BY NotifierAssumption
<1> QED
  BY <1>1, <1>3, <1>4 DEF Sent

(* A step adds at most the line whose message has left the process.         *)
LEMMA SentGrows ==
  ASSUME TypeOK, NEW n \in 1 .. MaxLines,
         delivered' \in {delivered, Append(delivered, n)},
         adrift' \subseteq adrift \cup {n}
  PROVE  Sent' \subseteq Sent \cup {n}
<1>1. CASE delivered' = delivered
  BY <1>1 DEF Sent, Feed!Accepted
<1>2. CASE delivered' = Append(delivered, n)
  <2>1. delivered \in Seq(1 .. MaxLines)
    BY DEF TypeOK
  <2>2. \A i \in DOMAIN delivered' :
          delivered'[i] = n \/ (i \in DOMAIN delivered /\ delivered'[i] = delivered[i])
    BY <1>2, <2>1, Appended
  <2> QED
    BY <2>2 DEF Sent, Feed!Accepted
<1> QED
  BY <1>1, <1>2

-----------------------------------------------------------------------------
(* The type of the state is kept. *)
LEMMA TypeKept ==
  ASSUME IInv, [Next]_vars
  PROVE  TypeOK'
<1> USE NotifierAssumption
<1>0. /\ pc \in {"down", "readline", "token", "post", "response"}
      /\ serial \in Seq(Line) /\ Len(serial) <= BufferLimit
      /\ printed \in 0 .. MaxLines
      /\ line \in Line
      /\ delivered \in Seq(1 .. MaxLines) /\ adrift \subseteq 1 .. MaxLines
      /\ Handled => line \in 1 .. printed
  <2>1. Handled => line # Other /\ line <= printed
    BY DEF IInv, InOrder,
      PortInOrder, PortIsNewer, HandledIsNewer
  <2>2. printed \in 0 .. MaxLines /\ line \in Line
    BY DEF IInv, TypeOK
  <2> QED
    BY <2>1, <2>2 DEF IInv, TypeOK, Line
<1>1. <<>> \in Seq(Line) /\ Len(<<>>) <= BufferLimit
  OBVIOUS
<1>2. ASSUME NEW l \in Line, Heard(l)
      PROVE  serial' \in Seq(Line) /\ Len(serial') <= BufferLimit
  <2>1. CASE pc # "down" /\ Len(serial) < BufferLimit
    <3>1. serial' = Append(serial, l)
      BY <1>2, <2>1 DEF Heard
    <3> QED
      BY <1>0, <2>1, <3>1, Appended
  <2> QED
    BY <1>0, <1>2, <2>1 DEF Heard
<1>3. CASE print_action
  <2>1. printed + 1 \in Line /\ printed' = printed + 1 /\ Heard(printed + 1)
    BY <1>0, <1>3 DEF print_action, Line
  <2> QED
    BY <1>0, <1>2, <1>3, <2>1 DEF print_action, TypeOK
<1>4. CASE print_other
  <2>1. Other \in Line
    BY DEF Line
  <2> QED
    BY <1>0, <1>2, <1>4, <2>1 DEF print_other, TypeOK
<1>5. CASE Restart
  BY <1>0, <1>1, <1>5 DEF Restart, TypeOK
<1>6. CASE readline
  <2>1. Head(serial) \in Line /\ Tail(serial) \in Seq(Line)
        /\ Len(Tail(serial)) <= BufferLimit
    BY <1>0, <1>6, HeadTail DEF readline
  <2> QED
    BY <1>0, <1>6, <2>1 DEF readline, TypeOK
<1>7. CASE unplugged
  BY <1>0, <1>1, <1>7 DEF unplugged, Ends, TypeOK
<1>8. CASE get_access_token
  BY <1>0, <1>1, <1>8 DEF get_access_token, Ends, TypeOK
<1>9. CASE post
  <2>1. line \in 1 .. printed /\ line \in 1 .. MaxLines
    BY <1>0, <1>9 DEF post, Handled
  <2>2. Append(delivered, line) \in Seq(1 .. MaxLines)
    BY <1>0, <2>1, Appended
  <2> QED
    BY <1>0, <1>1, <1>9, <2>1, <2>2 DEF post, Ends, TypeOK
<1>10. CASE response
  BY <1>0, <1>1, <1>10 DEF response, Ends, TypeOK
<1>11. CASE arrives_late
  <2>1. PICK n \in adrift : /\ adrift' = adrift \ {n}
                            /\ delivered' \in {delivered, Append(delivered, n)}
    BY <1>11 DEF arrives_late
  <2>2. Append(delivered, n) \in Seq(1 .. MaxLines)
    BY <1>0, Appended
  <2> QED
    BY <1>0, <1>11, <2>1, <2>2 DEF arrives_late, TypeOK
<1>12. CASE UNCHANGED vars
  BY <1>0, <1>12 DEF vars, TypeOK
<1> QED
  BY <1>3, <1>4, <1>5, <1>6, <1>7, <1>8, <1>9, <1>10, <1>11, <1>12
  DEF Next, send_notification

(***************************************************************************)
(* The lines that wait, and the line being handled, stay newer than what   *)
(* Firebase has accepted.                                                  *)
(***************************************************************************)
\* The invariant is inductive.
LEMMA OrderKept ==
  ASSUME IInv, [Next]_vars
  PROVE  (InOrder /\ EmptyWhenDown)'
<1> USE NotifierAssumption
<1>0. /\ serial \in Seq(Line) /\ printed \in 0 .. MaxLines /\ line \in Line
      /\ Sent \subseteq Nat
      /\ \A n \in Line : n # Other => n \in Nat
  BY SentAreNumbers DEF IInv, TypeOK, Line
<1>12. /\ InOrder /\ EmptyWhenDown
  BY DEF IInv
<1>13. ASSUME UNCHANGED <<delivered, adrift>>
      PROVE  Sent' = Sent
  BY <1>13 DEF Sent, Feed!Accepted
<1>1. ASSUME NEW l \in Line, Heard(l), UNCHANGED <<pc, line, delivered, adrift>>,
             printed' \in Nat, printed' >= printed,
             l # Other => l <= printed' /\ printed < l
      PROVE  (InOrder /\ EmptyWhenDown)'
  <2>1. CASE pc # "down" /\ Len(serial) < BufferLimit
    <3>1. serial' = Append(serial, l)
      BY <1>1, <2>1 DEF Heard
    <3>2. /\ Len(serial') = Len(serial) + 1 /\ Len(serial) \in Nat
          /\ DOMAIN serial = 1 .. Len(serial)
          /\ DOMAIN serial' = 1 .. Len(serial) + 1
          /\ serial'[Len(serial) + 1] = l
          /\ \A i \in 1 .. Len(serial) : serial'[i] = serial[i]
      BY <1>0, <3>1, Appended
    <3>3. \A i \in DOMAIN serial : serial[i] \in Line
      BY <1>0
    <3>4. \A m \in Sent : m <= printed
      BY <1>12 DEF InOrder,
      PortInOrder, PortIsNewer, HandledIsNewer
    <3>5. EmptyWhenDown'
      BY <1>1, <2>1 DEF EmptyWhenDown
    <3>6. Sent' = Sent
      BY <1>1, <1>13
    <3>7. \A i \in 1 .. Len(serial) : serial[i] # Other =>
            serial[i] \in Nat /\ serial[i] <= printed /\ \A m \in Sent : m < serial[i]
      BY <1>0, <1>12, <3>2, <3>3 DEF InOrder, PortIsNewer
    <3>8. PortInOrder'
      <4>1. PortInOrder
        BY <1>12 DEF InOrder
      <4>2. l # Other => l \in Nat /\ printed < l
        BY <1>0, <1>1
      <4> SUFFICES ASSUME NEW i \in 1 .. Len(serial) + 1,
                          NEW j \in 1 .. Len(serial) + 1, i < j,
                          serial'[i] # Other, serial'[j] # Other
                   PROVE  serial'[i] < serial'[j]
        BY <3>2 DEF PortInOrder
      <4>3. i \in 1 .. Len(serial) /\ serial'[i] = serial[i]
        BY <3>2
      <4>4. CASE j \in 1 .. Len(serial)
        BY <3>2, <4>1, <4>3, <4>4 DEF PortInOrder
      <4>5. CASE j = Len(serial) + 1
        <5>1. serial[i] \in Nat /\ serial[i] <= printed
          BY <3>7, <4>3
        <5>2. serial'[j] = l /\ l \in Nat /\ printed < l
          BY <3>2, <4>2, <4>5
        <5> QED
          BY <1>0, <4>3, <5>1, <5>2
      <4> QED
        BY <3>2, <4>4, <4>5
    <3>9. PortIsNewer'
      BY <1>0, <1>1, <1>12, <3>2, <3>3, <3>4, <3>6, <3>7
      DEF InOrder, PortIsNewer, HandledIsNewer, Handled
    <3>10. HandledIsNewer' /\ \A m \in Sent' : m <= printed'
      BY <1>0, <1>1, <1>12, <3>6 DEF InOrder, HandledIsNewer, Handled, Line
    <3> QED
      BY <3>5, <3>8, <3>9, <3>10 DEF InOrder
  <2>2. CASE ~ (pc # "down" /\ Len(serial) < BufferLimit)
    <3>1. UNCHANGED serial /\ Sent' = Sent /\ UNCHANGED <<pc, line>>
      BY <1>1, <1>13, <2>2 DEF Heard
    <3>2. \A n \in Nat : n <= printed => n <= printed'
      BY <1>0, <1>1
    <3>3. \A i \in DOMAIN serial : serial[i] # Other => serial[i] \in Nat
      BY <1>0
    <3>4. Handled => line \in Nat
      BY <1>0, <1>12 DEF InOrder, HandledIsNewer
    <3>5. (\A m \in Sent' : m <= printed') /\ HandledIsNewer'
      BY <1>0, <1>12, <3>1, <3>2, <3>4 DEF InOrder, HandledIsNewer, Handled
    <3>6. PortInOrder' /\ PortIsNewer' /\ EmptyWhenDown'
      BY <1>12, <3>1, <3>2, <3>3
      DEF InOrder, PortInOrder, PortIsNewer, Handled, EmptyWhenDown
    <3> QED
      BY <3>5, <3>6 DEF InOrder
  <2> QED
    BY <2>1, <2>2
<1>2. CASE print_action
  <2>1. printed + 1 \in Line
    BY <1>0, <1>2 DEF print_action, Line
  <2> QED
    BY <1>0, <1>1, <1>2, <2>1 DEF print_action
<1>3. CASE print_other
  <2>1. Other \in Line
    BY DEF Line
  <2> QED
    BY <1>0, <1>1, <1>3, <2>1 DEF print_other
<1>4. CASE UNCHANGED <<printed, delivered, adrift>> /\ serial' = <<>> /\ ~ Handled'
  BY <1>12, <1>13, <1>4 DEF InOrder,
      PortInOrder, PortIsNewer, HandledIsNewer, EmptyWhenDown
<1>5. CASE readline
  <2>1. /\ Head(serial) \in Line /\ Head(serial) = serial[1]
        /\ 1 \in DOMAIN serial
        /\ Len(serial) \in Nat
        /\ DOMAIN serial = 1 .. Len(serial)
        /\ DOMAIN serial' = 1 .. Len(serial) - 1
        /\ \A i \in 1 .. Len(serial) - 1 : serial'[i] = serial[i + 1]
    BY <1>0, <1>5, HeadTail DEF readline
  <2>2. /\ line' = serial[1] /\ UNCHANGED <<printed, delivered, adrift>>
        /\ Handled' => line' # Other
        /\ pc' # "down"
    BY <1>5, <2>1 DEF readline, Handled
  <2>3. \A i \in DOMAIN serial : serial[i] \in Line
    BY <1>0
  <2>4. Sent' = Sent
    BY <1>13, <2>2
  <2>5. PortInOrder'
    <3>1. PortInOrder
      BY <1>12 DEF InOrder
    <3> QED
      BY <2>1, <3>1 DEF PortInOrder
  <2>6. ASSUME NEW i \in DOMAIN serial', serial'[i] # Other
        PROVE  (\A m \in Sent' : m < serial'[i]) /\ serial'[i] <= printed'
               /\ (Handled' => line' < serial'[i])
    <3>1. i + 1 \in DOMAIN serial /\ serial'[i] = serial[i + 1] /\ 1 < i + 1
      BY <2>1, <2>6
    <3>2. line' # Other => line' < serial[i + 1]
      BY <1>12, <2>1, <2>2, <2>6, <3>1 DEF InOrder, PortInOrder
    <3> QED
      BY <1>12, <2>2, <2>4, <2>6, <3>1, <3>2 DEF InOrder, PortIsNewer
  <2>7. HandledIsNewer'
    BY <1>12, <2>1, <2>2, <2>4 DEF InOrder, PortIsNewer, HandledIsNewer
  <2> QED
    BY <1>12, <2>2, <2>4, <2>5, <2>6, <2>7
    DEF InOrder, PortIsNewer, EmptyWhenDown
<1>6. CASE get_access_token
  <2>1. CASE pc' = "post" /\ UNCHANGED serial
    BY <1>12, <1>13, <1>6, <2>1 DEF get_access_token, InOrder,
      PortInOrder, PortIsNewer, HandledIsNewer, EmptyWhenDown, Handled
  <2> QED
    BY <1>4, <1>6, <2>1 DEF get_access_token, Ends, Handled
<1>7. CASE post
  <2>1. /\ line \in 1 .. MaxLines /\ line \in Nat /\ line <= printed
        /\ \A m \in Sent : m < line
    BY <1>0, <1>12, <1>7
    DEF post, InOrder, HandledIsNewer, Handled, Line
  <2>2. Sent' \subseteq Sent \cup {line}
    <3>1. /\ delivered' \in {delivered, Append(delivered, line)}
          /\ adrift' \subseteq adrift \cup {line}
      BY <1>7 DEF post
    <3> QED
      BY <2>1, <3>1, SentGrows DEF IInv
  <2>3. \A m \in Sent' : m \in Nat /\ m <= line
    BY <1>0, <2>1, <2>2
  <2>4. UNCHANGED <<printed, line>> /\ ~ Handled' /\ serial' \in {serial, <<>>}
        /\ (pc' = "down" => serial' = <<>>)
    BY <1>7 DEF post, Ends, Handled
  <2>5. \A m \in Sent' : m <= printed'
    BY <1>0, <2>1, <2>3, <2>4
  <2>6. PortInOrder' /\ EmptyWhenDown'
    BY <1>12, <2>4 DEF InOrder, PortInOrder, EmptyWhenDown
  <2>7. PortIsNewer'
    <3> SUFFICES ASSUME serial' = serial, NEW i \in DOMAIN serial, serial[i] # Other
                 PROVE  serial[i] <= printed /\ \A m \in Sent' : m < serial[i]
      BY <2>4 DEF PortIsNewer
    <3>1. serial[i] \in Nat /\ line < serial[i] /\ serial[i] <= printed
      BY <1>0, <1>7, <1>12 DEF InOrder, PortIsNewer, post, Handled
    <3> QED
      BY <2>1, <2>3, <3>1
  <2> QED
    BY <2>4, <2>5, <2>6, <2>7 DEF InOrder, HandledIsNewer
<1>8. CASE response
  <2>1. CASE pc' = "readline" /\ UNCHANGED serial
    BY <1>12, <1>13, <1>8, <2>1 DEF response, InOrder,
      PortInOrder, PortIsNewer, HandledIsNewer, EmptyWhenDown, Handled
  <2> QED
    BY <1>4, <1>8, <2>1 DEF response, Ends, Handled
<1>9. CASE Restart
  BY <1>4, <1>9 DEF Restart, Handled
<1>10. CASE unplugged
  BY <1>4, <1>10 DEF unplugged, Ends, Handled
<1>14. CASE arrives_late
  <2>1. PICK n \in adrift : /\ adrift' = adrift \ {n}
                            /\ delivered' \in {delivered, Append(delivered, n)}
    BY <1>14 DEF arrives_late
  <2>2. n \in 1 .. MaxLines /\ n \in Sent
    BY SentAreNumbers DEF IInv, Sent
  <2>3. Sent' \subseteq Sent
    <3>1. adrift' \subseteq adrift \cup {n}
      BY <2>1
    <3> QED
      BY <2>1, <2>2, <3>1, SentGrows DEF IInv
  <2>4. UNCHANGED <<pc, serial, printed, line>>
    BY <1>14 DEF arrives_late
  <2> QED
    BY <1>12, <2>3, <2>4
    DEF InOrder, PortInOrder, PortIsNewer, HandledIsNewer, EmptyWhenDown, Handled
<1>11. CASE UNCHANGED vars
  BY <1>12, <1>13, <1>11 DEF vars, InOrder,
      PortInOrder, PortIsNewer, HandledIsNewer, EmptyWhenDown, Handled
<1> QED
  BY <1>2, <1>3, <1>5, <1>6, <1>7, <1>8, <1>9, <1>10, <1>11, <1>14
  DEF Next, send_notification

(* It holds in every state. *)
LEMMA Invariant == Spec => []IInv
<1>1. Init => IInv
  <2> SUFFICES ASSUME Init
               PROVE  IInv
    OBVIOUS
  <2>1. TypeOK
    BY NotifierAssumption DEF Init, TypeOK, Line
  <2>2. InOrder /\ EmptyWhenDown
    BY DEF Init, InOrder,
      PortInOrder, PortIsNewer, HandledIsNewer, EmptyWhenDown, Handled, Sent,
      Feed!Accepted
  <2> QED
    BY <2>1, <2>2 DEF IInv
<1>2. IInv /\ [Next]_vars => IInv'
  BY TypeKept, OrderKept DEF IInv
<1> QED
  BY <1>1, <1>2, PTL DEF Spec

(***************************************************************************)
(* The notifier implements the feed of actions: however many actions are   *)
(* printed, whatever fails and however often it is started again, Firebase *)
(* gets each at most once, and in order but for those whose process ended  *)
(* while they were under way (main.py:62-72).                              *)
(***************************************************************************)
THEOREM FeedsActions == Spec => ImplementsActionFeed
<1>1. Init => Feed!Init
  BY DEF Init, Feed!Init
<1>2. IInv /\ [Next]_vars => [Feed!Next]_Feed!vars
  <2> SUFFICES ASSUME IInv, [Next]_vars
               PROVE  [Feed!Next]_Feed!vars
    OBVIOUS
  <2>1. CASE print_action
    BY <2>1 DEF print_action, Feed!Next, Feed!Hand
  <2>2. CASE post
    <3>1. line \in 1 .. printed /\ Feed!IsNew(line)
      <4>1. line \in Line /\ line # Other /\ line <= printed /\ \A m \in Sent : m < line
        BY <2>2 DEF IInv, InOrder, HandledIsNewer, Handled, post, TypeOK
      <4>2. line \in 1 .. printed
        BY <4>1, NotifierAssumption DEF IInv, TypeOK, Line
      <4> QED
        BY <4>1, <4>2 DEF Feed!IsNew, Sent
    <3>2. CASE UNCHANGED <<printed, delivered, adrift>>
      BY <3>2 DEF Feed!vars
    <3>3. CASE delivered' = Append(delivered, line) /\ UNCHANGED <<printed, adrift>>
      BY <3>1, <3>3 DEF Feed!Next, Feed!Deliver
    <3>4. CASE adrift' = adrift \cup {line} /\ UNCHANGED <<printed, delivered>>
      BY <3>1, <3>4 DEF Feed!Next, Feed!GiveUp
    <3> QED
      BY <2>2, <3>2, <3>3, <3>4 DEF post
  <2>3. CASE arrives_late
    <3>1. PICK n \in adrift : /\ adrift' = adrift \ {n}
                              /\ delivered' \in {delivered, Append(delivered, n)}
      BY <2>3 DEF arrives_late
    <3>2. n \in 1 .. printed
      <4>1. n \in Sent /\ n \in 1 .. MaxLines /\ n <= printed /\ printed \in Nat
        BY SentAreNumbers, NotifierAssumption DEF IInv, InOrder, Sent, TypeOK
      <4> QED
        BY <4>1, NotifierAssumption
    <3> QED
      BY <2>3, <3>1, <3>2 DEF arrives_late, Feed!Next, Feed!ArriveLate
  <2>4. CASE UNCHANGED <<printed, delivered, adrift>>
    BY <2>4 DEF Feed!vars
  <2> QED
    BY <2>1, <2>2, <2>3, <2>4
    DEF Next, send_notification, print_other, Restart, readline, unplugged,
        get_access_token, response, vars
<1> QED
  BY <1>1, <1>2, Invariant, PTL DEF Spec, ImplementsActionFeed, Feed!Spec
=============================================================================
