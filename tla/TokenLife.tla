------------------------------ MODULE TokenLife -----------------------------
(***************************************************************************)
(* The life of a token by the clock (watchdog/main.cpp): the answer that   *)
(* grants it is read by HttpReader, the time of the RTC is kept as a       *)
(* number of seconds (Calendar), and at every later action the handler     *)
(* compares the difference of the two times with the lifetime it has read. *)
(*                                                                         *)
(* An answer is read within a second.                                      *)
(***************************************************************************)
EXTENDS Calendar, HttpReader

CONSTANTS
  NoToken,   \* the empty string
  MaxLife    \* bound: how long a token is followed

VARIABLES
  auth_token,
  last_oauth_timestamp,
  last_expires_in,
  passed     \* seconds since the token was taken (history)

ASSUME LifeAssumption ==
  /\ NoToken \notin Text
  /\ FirstDates # {}
  /\ MaxLife \in Nat

token == <<auth_token, last_oauth_timestamp, last_expires_in>>
lifeVars == <<t, readerVars, token, passed>>

(* The clock matters to whole answers that grant a token: anything else is *)
(* read at one date only.                                                   *)
AnyDate == origin \in Answers /\ data = sent(origin) /\ origin.grant # Nothing

LifeInit ==
  /\ ReaderInit
  /\ IF AnyDate THEN Init ELSE t = CHOOSE d \in FirstDates : TRUE
  /\ auth_token = NoToken
  /\ last_oauth_timestamp = 0
  /\ last_expires_in = 3599
  /\ passed = 0

-----------------------------------------------------------------------------
Read == ReaderNext /\ UNCHANGED <<t, token, passed>>

(* The handler takes the token; it reads the clock for it. *)
Renew ==
  /\ pc = "parsed"
  /\ origin \in Answers
  /\ result # Nothing
  /\ auth_token = NoToken
  /\ last_oauth_timestamp' = to_epoch(t)
  /\ last_expires_in' = result.expires_in
  /\ auth_token' = result.access_token
  /\ UNCHANGED <<t, readerVars, passed>>

(* A second of the RTC. *)
Second ==
  /\ auth_token # NoToken
  /\ passed < MaxLife
  /\ Next
  /\ passed' = passed + 1
  /\ UNCHANGED <<readerVars, token>>

LifeNext == Read \/ Renew \/ Second

LifeSpec == LifeInit /\ [][LifeNext]_lifeVars /\ WF_lifeVars(Read)

-----------------------------------------------------------------------------
(* now - last_oauth_timestamp > last_expires_in, at this second. *)
RenewalDue == to_epoch(t) - last_oauth_timestamp > last_expires_in

(***************************************************************************)
(* The handler uses a token for exactly the seconds that the answer which  *)
(* granted it says, over the ends of days, months and years: from the text *)
(* of the answer and the dates of the RTC to the decision to renew         *)
(* (main.cpp:150, 163-169; oauth2.cpp:95-109; dateutils.cpp:20-51).        *)
(***************************************************************************)
RenewalOnTime ==
  auth_token # NoToken => (RenewalDue <=> passed > origin.grant.expires_in)

(***************************************************************************)
(* Why: a token in use is what was read, and its age is the difference.    *)
(***************************************************************************)
AgeIsDifference ==
  IF auth_token = NoToken THEN passed = 0
  ELSE /\ pc = "parsed" /\ origin \in Answers /\ result # Nothing
       /\ last_expires_in = result.expires_in
       /\ to_epoch(t) - last_oauth_timestamp = passed

LifeInv ==
  TypeOK /\ passed \in Nat /\ last_oauth_timestamp \in Int /\ AgeIsDifference
=============================================================================
