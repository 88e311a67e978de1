---------------------------- MODULE PushNotifier ----------------------------
(***************************************************************************)
(* The action handler of variant B (the lambda of watchdog/main.cpp): for  *)
(* each action it renews the OAuth2 token when that is due and sends a     *)
(* Firebase message with it, through one TcpClient, and returns to the     *)
(* loop that reads the radio.                                              *)
(*                                                                         *)
(* Two clocks run: the true time, by which Google issues and accepts       *)
(* tokens, and the RTC, which is not running before the first answer of    *)
(* NTP and is set to the true time by each one.                            *)
(***************************************************************************)
EXTENDS Naturals, Sequences

CONSTANTS
  Unset,          \* the RTC is not running
  Garbage,        \* what reading it then may give
  NoToken,        \* the empty string
  Lifetimes,      \* how many seconds Google may make a token valid
  DefaultLifetime,  \* 3599
  StartTime,      \* true time when the program starts
  MaxTime,        \* bound on the clocks
  Fast,           \* how far the RTC may run ahead between answers of NTP
  MaxActions,     \* bound on the actions handled
  NoMessage, ResponseLimit,   \* of TcpClient
  AnswerSize      \* bytes of a whole answer

Time == 0 .. MaxTime + Fast

VARIABLES
  time,        \* the true time
  rtc,         \* the RTC of the watchdog
  pc,          \* where the handler is; "loop" when it has returned
  actions,     \* actions handed to the handler so far
  auth_token,  \* a token is known by the action it was asked for
  last_oauth_timestamp,
  last_expires_in,
  issued,      \* issued[n]: what OAuth2 granted when asked for action n
  delivered,   \* the actions FCM has accepted, oldest first
  tcp_pcb, message, last_response, asked, wire, late, reply, \* of TcpClient
  highest,     \* the greatest time the handler has gone by (history)
  set_back,    \* it has gone by a smaller one after that (history)
  taken        \* the true time when auth_token was taken (history)

clocks == <<time, rtc>>
token == <<auth_token, last_oauth_timestamp, last_expires_in>>
servers == <<issued, delivered>>
tcpVars == <<tcp_pcb, message, last_response, asked, wire, late, reply>>
history == <<highest, set_back, taken>>
vars == <<time, rtc, pc, actions, auth_token, last_oauth_timestamp,
          last_expires_in, issued, delivered, tcp_pcb, message, last_response,
          asked, wire, late, reply, highest, set_back, taken>>

Action == 1 .. MaxActions
Token == Action \cup {NoToken}

Readings == Garbage \cup Time

(* A grant: until when the token is good, and the expires_in it came with.  *)
Grant == [until : Nat, expires_in : Nat]

(* iat: when the request says it was made; Unset when its signature or an   *)
(* encoding failed, and no server accepts it.                               *)
OAuth2Request ==
  [to : {"oauth2"}, action : Action, iat : Readings \cup {Unset}]

FcmRequest == [to : {"fcm"}, action : Action, bearer : Action]

Messages == OAuth2Request \cup FcmRequest

(* A token that nobody receives is never used. *)
Lasting == FcmRequest

(* A server closes early, sends an answer in one piece or in two, and then *)
(* maybe more than the answer.                                              *)
Replies ==
  {<<>>, <<AnswerSize>>, <<AnswerSize - 1, AnswerSize, AnswerSize + 1>>}

Tcp == INSTANCE TcpClient

ASSUME NotifierAssumption ==
  /\ Lifetimes \subseteq Nat
  /\ DefaultLifetime \in Nat
  /\ StartTime \in Nat /\ StartTime > DefaultLifetime
  /\ NoToken \notin Nat
  /\ MaxTime \in Nat /\ MaxTime >= StartTime /\ Fast \in Nat /\ MaxActions \in Nat
  /\ Unset \notin Time
  /\ Garbage \subseteq Nat
  /\ AnswerSize \in Nat /\ AnswerSize > 2
  /\ Tcp!TcpAssumption

TypeOK ==
  /\ time \in StartTime .. MaxTime
  /\ rtc \in Time \cup {Unset}
  /\ pc \in {"loop", "oauth_lookup", "oauth_wait", "fcm_lookup", "fcm_wait"}
  /\ actions \in 0 .. MaxActions
  /\ auth_token \in Token
  /\ last_oauth_timestamp \in Readings
  /\ last_expires_in \in Nat
  /\ issued \in [Action -> {NoToken} \cup Grant]
  /\ delivered \in Seq(Action)
  /\ Tcp!TypeOK
  /\ highest \in Nat /\ set_back \in BOOLEAN /\ taken \in Nat

Init ==
  /\ time = StartTime
  /\ rtc = Unset
  /\ pc = "loop"
  /\ actions = 0
  /\ auth_token = NoToken
  /\ last_oauth_timestamp = 0
  /\ last_expires_in = DefaultLifetime
  /\ issued = [n \in Action |-> NoToken]
  /\ delivered = <<>>
  /\ Tcp!Init
  /\ highest = 0 /\ set_back = FALSE /\ taken = 0

-----------------------------------------------------------------------------
(* unixnowseconds: rtc_get_datetime fails while the RTC is not running, and *)
(* what the local held is converted.                                        *)
unixnowseconds == IF rtc = Unset THEN Garbage ELSE {rtc}

(* now - last_oauth_timestamp > last_expires_in, of unsigned numbers: a     *)
(* clock set back before the last renewal gives a huge difference.          *)
\* Mutant: only a token it has is renewed.
RenewalOfKnownToken(now) ==
  auth_token # NoToken /\ now - last_oauth_timestamp > last_expires_in

\* Mutant: the numbers are signed.
RenewalSigned(now) == now - last_oauth_timestamp > last_expires_in

RenewalDue(now) ==
  \/ now < last_oauth_timestamp
  \/ now - last_oauth_timestamp > last_expires_in

(* The history of the readings it goes by: those that decide on a renewal,  *)
(* and those kept as the time of one.                                       *)
GoesBy(now) ==
  /\ set_back' = (set_back \/ now < highest)
  /\ highest' = IF set_back' THEN 0 ELSE now

(* The handler is called with the next action. *)
action_handler ==
  /\ pc = "loop"
  /\ actions < MaxActions
  /\ actions' = actions + 1
  /\ \E now \in unixnowseconds :
       /\ \/ /\ RenewalDue(now)
             /\ auth_token' = NoToken
             /\ pc' = "oauth_lookup"
             /\ taken' = 0
          \/ /\ ~ RenewalDue(now)
             /\ pc' = IF auth_token = NoToken THEN "loop" ELSE "fcm_lookup"
             /\ UNCHANGED <<auth_token, taken>>
       /\ GoesBy(now)
  /\ UNCHANGED <<clocks, last_oauth_timestamp, last_expires_in, servers,
                 tcpVars>>

(* Where the handler goes on when it is done with OAuth2. *)
\* Mutant: auth_token.empty() is not looked at.
AfterOAuthAnyway == "fcm_lookup"

AfterOAuth == IF auth_token' = NoToken THEN "loop" ELSE "fcm_lookup"

(* dns.lookup gave no address. *)
oauth_lookup_failed ==
  /\ pc = "oauth_lookup"
  /\ UNCHANGED token
  /\ pc' = AfterOAuth
  /\ UNCHANGED <<clocks, actions, servers, tcpVars, history>>

(* mbedtls makes a signature, or fails; an encoding that fails is an empty  *)
(* string too, and nobody looks.                                            *)
sign(text) == {text, Unset}

base64(text) == {text, Unset}

(* OAuth2::create_request, by the RTC; FCM::create_request. *)
oauth2_requests ==
  {[to |-> "oauth2", action |-> actions, iat |-> encoded] :
     encoded \in UNION {base64(signed) : signed \in UNION {sign(now) : now \in unixnowseconds}}}

fcm_request == [to |-> "fcm", action |-> actions, bearer |-> auth_token]

(* It gave one: the request is made and send_message called; its result is *)
(* not looked at.                                                           *)
oauth_send ==
  /\ pc = "oauth_lookup"
  /\ \E request \in oauth2_requests : Tcp!send_message(request)
  /\ pc' = "oauth_wait"
  /\ UNCHANGED <<clocks, actions, token, servers, history>>

(* The buffer holds an answer that grants a token, or a part of it that may *)
(* have both fields in it: wherever the part begins, any first line with    *)
(* two blanks does for HTTP::read (HttpReader shows what is made of it).    *)
(* The whole answer gives the grant for sure.                               *)
Whole ==
  last_response[1].offset = 0 /\ Tcp!Bytes(last_response) >= AnswerSize

parse_response ==
  /\ last_response # <<>>
  /\ last_response[1].of.to = "oauth2"
  /\ issued[last_response[1].of.action] # NoToken

oauth_finished ==
  /\ pc = "oauth_wait"
  /\ Tcp!is_finished
  /\ \/ /\ parse_response
        /\ LET n == last_response[1].of.action
           IN  /\ last_oauth_timestamp' \in unixnowseconds
               /\ last_expires_in' = issued[n].expires_in
               /\ auth_token' = n
        /\ GoesBy(last_oauth_timestamp')
        /\ taken' = time
     \/ /\ ~ (parse_response /\ Whole)
        /\ UNCHANGED <<token, history>>
  /\ pc' = AfterOAuth
  /\ UNCHANGED <<clocks, actions, servers, tcpVars>>

fcm_lookup_failed ==
  /\ pc = "fcm_lookup"
  /\ pc' = "loop"
  /\ UNCHANGED <<clocks, actions, token, servers, tcpVars, history>>

fcm_send ==
  /\ pc = "fcm_lookup"
  /\ Tcp!send_message(fcm_request)
  /\ pc' = "fcm_wait"
  /\ UNCHANGED <<clocks, actions, token, servers, history>>

\* Mutant: it tries again when there is no answer.
fcm_retried ==
  /\ pc = "fcm_wait"
  /\ Tcp!is_finished
  /\ pc' = IF last_response = <<>> THEN "fcm_lookup" ELSE "loop"
  /\ UNCHANGED <<clocks, actions, token, servers, tcpVars, history>>

fcm_finished ==
  /\ pc = "fcm_wait"
  /\ Tcp!is_finished
  /\ pc' = "loop"
  /\ UNCHANGED <<clocks, actions, token, servers, tcpVars, history>>

Handler ==
  \/ oauth_lookup_failed \/ oauth_send \/ oauth_finished
  \/ fcm_lookup_failed \/ fcm_send \/ fcm_finished

-----------------------------------------------------------------------------
(* Google reads a request: the OAuth2 server grants a token for one made    *)
(* now, FCM accepts a message with a token that has not expired; both may   *)
(* refuse.                                                                  *)
Served(request) ==
  \/ UNCHANGED servers
  \/ /\ request.to = "oauth2"
     /\ request.iat = time
     /\ \E seconds \in Lifetimes :
          issued' = [issued EXCEPT ![request.action] =
                       [until |-> time + seconds, expires_in |-> seconds]]
     /\ UNCHANGED delivered
  \/ /\ request.to = "fcm"
     /\ time <= issued[request.bearer].until
     /\ delivered' = Append(delivered, request.action)
     /\ UNCHANGED issued

Arrives ==
  /\ Tcp!arrives
  /\ Served(wire)
  /\ UNCHANGED <<clocks, pc, actions, token, history>>

ArrivesLate ==
  /\ \E request \in late : Tcp!arrives_late(request) /\ Served(request)
  /\ UNCHANGED <<clocks, pc, actions, token, history>>

Network ==
  /\ Tcp!Callback
  /\ UNCHANGED <<clocks, pc, actions, token, servers, history>>

(* A second passes; the RTC may gain on it. *)
Tick ==
  /\ time < MaxTime
  /\ time' = time + 1
  /\ rtc' \in IF rtc = Unset THEN {Unset}
              ELSE {t \in {rtc + 1, rtc + 2} : t <= time' + Fast}
  /\ UNCHANGED <<pc, actions, token, servers, tcpVars, history>>

(* NtpPrivate::handle_result sets the RTC. *)
NtpAnswers ==
  /\ rtc' = time
  /\ UNCHANGED <<time, pc, actions, token, servers, tcpVars, history>>

Next ==
  \/ action_handler \/ Handler
  \/ Network \/ Arrives \/ ArrivesLate
  \/ Tick \/ NtpAnswers

(* The processor runs, and lwIP polls the connections it works on. *)
Spec ==
  /\ Init /\ [][Next]_vars
  /\ WF_vars(Handler)
  /\ WF_vars(Tcp!poll /\ Network)

-----------------------------------------------------------------------------
(***************************************************************************)
(* FCM never accepts an action twice, nor one the receiver did not report. *)
(* As long as the handler waits for the answer, the action FCM accepts is  *)
(* newer than all before it; a request whose connection was closed with    *)
(* the message still under way may come later, behind newer actions, and   *)
(* is not sent again (main.cpp:177-188, tcpclient.cpp:58-65, 133-169).     *)
(***************************************************************************)
Adrift == {request.action : request \in late}

Feed == INSTANCE ActionFeed WITH handed <- actions, adrift <- Adrift

ImplementsActionFeed == Feed!Spec

(***************************************************************************)
(* A renewal that succeeds takes the token granted to this very request,   *)
(* never one left over from an earlier answer, which last_oauth_timestamp  *)
(* would take for fresh (main.cpp:160-170).                                *)
(***************************************************************************)
RenewalTakesOwnGrant ==
  [][last_oauth_timestamp' # last_oauth_timestamp => auth_token' = actions]_vars

(***************************************************************************)
(* An action that comes after the first answer of NTP is tried, a lookup   *)
(* of one of the two servers at least, whatever became of earlier          *)
(* renewals; it is dropped only when a time the handler has gone by since  *)
(* the start was smaller than one before, so when the clock has been set   *)
(* back (README.md "It receives LoRa packets and and sends Firebase Push   *)
(* Messages", main.cpp:150-175).                                           *)
(***************************************************************************)
EveryActionTried ==
  [][action_handler /\ rtc # Unset /\ pc' = "loop" => set_back']_vars

(***************************************************************************)
(* Once NTP has answered, no message is sent with a token that was taken   *)
(* longer ago than it was granted for, but for what the clock is fast,     *)
(* even when the clock has been set back behind last_oauth_timestamp       *)
(* (main.cpp:150).  Excepted is a token taken while the RTC was not        *)
(* running, at a reading ahead of the true time that the clock has passed  *)
(* since: it is kept that much longer.                                     *)
(***************************************************************************)
PassedGarbage == last_oauth_timestamp \in Garbage \cap (taken + Fast + 1 .. rtc)

TokenNotOutlived ==
  [][action_handler /\ rtc # Unset /\ pc' = "fcm_lookup" /\ ~ PassedGarbage
       => time <= taken + last_expires_in + Fast]_vars

(***************************************************************************)
(* The handler returns to the loop that reads the radio, for the next      *)
(* messages of the sender.                                                 *)
(***************************************************************************)
HandlerReturns == pc # "loop" ~> pc = "loop"

(* It does so whenever lwIP takes the connections on and does not abort     *)
(* them itself.                                                             *)
HandlerReturnsUnlessAbandoned ==
  pc # "loop" ~> (pc = "loop" \/ tcp_pcb \in {"new", "aborted"})

(***************************************************************************)
(* What the handler reads when OAuth2 and FCM take turns on one client is  *)
(* a contiguous part of the latest answer: nothing of an earlier one       *)
(* (tcpclient.cpp:46, 133-151).                                            *)
(***************************************************************************)
ResponseIsLatest == Tcp!ResponseIsLatest

(***************************************************************************)
(* It begins with the answer's beginning, unless the answer is longer than *)
(* the limit of the buffer (tcpclient.cpp:171-179).                        *)
(***************************************************************************)
StartKept == Tcp!StartKept

-----------------------------------------------------------------------------
(***************************************************************************)
(* What these rest on.  The client works for the handler only while that   *)
(* waits for it, on the request of the action being handled; a message to  *)
(* Firebase has a token.                                                    *)
(***************************************************************************)
Waiting == pc \in {"oauth_wait", "fcm_wait"}

ClientIsHandlers ==
  /\ ~ Waiting => tcp_pcb = "nullptr"
  /\ Waiting => asked # NoMessage /\ asked.action = actions
  /\ pc = "oauth_wait" => asked.to = "oauth2"
  /\ pc = "fcm_wait" => asked.to = "fcm"
  /\ pc # "loop" => actions > 0
  /\ pc = "fcm_lookup" => auth_token # NoToken

ClientInv == TypeOK /\ Tcp!IInv /\ ClientIsHandlers

(* Until the request with the message is read or given up, no message of    *)
(* this action or a later one has left the handler's hands.                 *)
NotSent ==
  \/ pc \in {"oauth_lookup", "oauth_wait", "fcm_lookup"}
  \/ pc = "fcm_wait" /\ (tcp_pcb = "connecting" \/ wire # NoMessage)

HandledIsNew ==
  \A n \in Feed!Accepted \cup Adrift : n <= actions /\ (NotSent => n < actions)

GivenUpOnce == \A m1, m2 \in late : m1.action = m2.action => m1 = m2

FeedInv == HandledIsNew /\ GivenUpOnce /\ Feed!AcceptedOnce

(* The clocks: the RTC is never behind, and the time of a token is a        *)
(* reading not ahead of the true one by more than that, but for one of an   *)
(* RTC that was not running.                                                *)
ClocksAgree ==
  /\ rtc # Unset => time <= rtc /\ rtc <= time + Fast
  /\ auth_token # NoToken =>
       last_oauth_timestamp <= taken + Fast \/ last_oauth_timestamp \in Garbage

(* Without a token a renewal is due, unless a time has been smaller than    *)
(* one before.                                                              *)
NoTokenIsDue ==
  ~ set_back =>
    /\ last_oauth_timestamp <= highest
    /\ auth_token = NoToken =>
         \/ last_oauth_timestamp = 0 /\ last_expires_in = DefaultLifetime
         \/ highest - last_oauth_timestamp > last_expires_in

IInv == ClientInv /\ FeedInv /\ ClocksAgree /\ NoTokenIsDue
=============================================================================
