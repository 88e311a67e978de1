------------------------- MODULE PushWatchDogProofs -------------------------
(***************************************************************************)
(* Theorems about variant B as one program: the receiver, the push handler *)
(* and losses of power.  What is proved of the handler is taken from the   *)
(* module of its proofs, by INSTANCE; the first section shows that it is   *)
(* the same specification.                                                 *)
(***************************************************************************)
EXTENDS PushWatchDog, WatchDogProofs

PushP == INSTANCE PushNotifierProofs

-----------------------------------------------------------------------------
(* The handler of the program is the handler of PushNotifierProofs. *)
LEMMA SamePushData ==
  /\ Push!Action = PushP!Action /\ Push!Token = PushP!Token
  /\ Push!Time = PushP!Time /\ Push!Readings = PushP!Readings
  /\ Push!Grant = PushP!Grant /\ Push!Messages = PushP!Messages
  /\ Push!Lasting = PushP!Lasting /\ Push!Replies = PushP!Replies
  /\ Push!Adrift = PushP!Adrift
BY DEF Push!Action, Push!Token, Push!Time, Push!Readings, Push!Grant,
       Push!OAuth2Request, Push!FcmRequest, Push!Messages, Push!Lasting,
       Push!Replies, Push!Adrift, PushP!Action, PushP!Token, PushP!Time,
       PushP!Readings, PushP!Grant, PushP!OAuth2Request, PushP!FcmRequest,
       PushP!Messages, PushP!Lasting, PushP!Replies, PushP!Adrift

LEMMA SameClient ==
  /\ Push!Tcp!TypeOK <=> PushP!Tcp!TypeOK
  /\ Push!Tcp!IInv <=> PushP!Tcp!IInv
  /\ Push!Tcp!Init <=> PushP!Tcp!Init
  /\ Push!Tcp!TcpAssumption <=> PushP!Tcp!TcpAssumption
<1>1. Push!Tcp!TypeOK <=> PushP!Tcp!TypeOK
  BY SamePushData
  DEF Push!Tcp!TypeOK, Push!Tcp!PcbState, Push!Tcp!Piece,
      Push!Tcp!Buffered, PushP!Tcp!TypeOK, PushP!Tcp!PcbState,
      PushP!Tcp!Piece, PushP!Tcp!Buffered
<1>2. Push!Tcp!Init <=> PushP!Tcp!Init
  BY DEF Push!Tcp!Init, PushP!Tcp!Init
<1>3. Push!Tcp!IInv <=> PushP!Tcp!IInv
  BY <1>1
  DEF Push!Tcp!IInv, Push!Tcp!ReplyFollows, Push!Tcp!RequestKept,
      Push!Tcp!LengthKept, Push!Tcp!ResponseIsLatest, Push!Tcp!StartKept,
      Push!Tcp!BufferEnd, Push!Tcp!Bytes, PushP!Tcp!IInv,
      PushP!Tcp!ReplyFollows, PushP!Tcp!RequestKept, PushP!Tcp!LengthKept,
      PushP!Tcp!ResponseIsLatest, PushP!Tcp!StartKept,
      PushP!Tcp!BufferEnd, PushP!Tcp!Bytes
<1>4. Push!Tcp!TcpAssumption <=> PushP!Tcp!TcpAssumption
  BY SamePushData
  DEF Push!Tcp!TcpAssumption, Push!Tcp!Begin, PushP!Tcp!TcpAssumption,
      PushP!Tcp!Begin
<1> QED
  BY <1>1, <1>2, <1>3, <1>4

LEMMA SameCallbacks ==
  /\ Push!Tcp!Callback <=> PushP!Tcp!Callback
  /\ Push!Tcp!arrives <=> PushP!Tcp!arrives
  /\ \A m : Push!Tcp!arrives_late(m) <=> PushP!Tcp!arrives_late(m)
  /\ Push!Tcp!LeftBehind <=> PushP!Tcp!LeftBehind
  /\ Push!Tcp!is_finished <=> PushP!Tcp!is_finished
  /\ \A m : Push!Tcp!send_message(m) <=> PushP!Tcp!send_message(m)
<1>1. Push!Tcp!arrives <=> PushP!Tcp!arrives
  BY SamePushData
  DEF Push!Tcp!arrives, Push!Tcp!Pieces, Push!Tcp!Begin,
      PushP!Tcp!arrives, PushP!Tcp!Pieces, PushP!Tcp!Begin
<1>2. Push!Tcp!recv <=> PushP!Tcp!recv
  BY DEF Push!Tcp!recv, Push!Tcp!buffer_response, Push!Tcp!Full,
         Push!Tcp!Bytes, PushP!Tcp!recv, PushP!Tcp!buffer_response,
         PushP!Tcp!Full, PushP!Tcp!Bytes
<1>3. Push!Tcp!LeftBehind <=> PushP!Tcp!LeftBehind
  BY SamePushData DEF Push!Tcp!LeftBehind, PushP!Tcp!LeftBehind
<1>4. Push!Tcp!handle_result <=> PushP!Tcp!handle_result
  BY <1>3
  DEF Push!Tcp!handle_result, Push!Tcp!close, PushP!Tcp!handle_result,
      PushP!Tcp!close
<1>5. Push!Tcp!Callback <=> PushP!Tcp!Callback
  BY <1>2, <1>3, <1>4
  DEF Push!Tcp!Callback, Push!Tcp!connected, Push!Tcp!connect_failed,
      Push!Tcp!recv_closed, Push!Tcp!poll, Push!Tcp!err, Push!Tcp!err_abrt,
      Push!Tcp!Alive, PushP!Tcp!Callback, PushP!Tcp!connected,
      PushP!Tcp!connect_failed, PushP!Tcp!recv_closed, PushP!Tcp!poll,
      PushP!Tcp!err, PushP!Tcp!err_abrt, PushP!Tcp!Alive
<1> QED
  BY <1>1, <1>3, <1>5
  DEF Push!Tcp!arrives_late, Push!Tcp!is_finished, Push!Tcp!send_message,
      PushP!Tcp!arrives_late, PushP!Tcp!is_finished, PushP!Tcp!send_message

LEMMA SameFeed ==
  /\ Push!Feed!Accepted = PushP!Feed!Accepted
  /\ Push!Feed!AcceptedOnce <=> PushP!Feed!AcceptedOnce
  /\ [Push!Feed!Next]_(Push!Feed!vars) <=> [PushP!Feed!Next]_(PushP!Feed!vars)
BY SamePushData
DEF Push!Adrift, Push!Feed!Accepted, Push!Feed!AcceptedOnce, Push!Feed!Next,
    Push!Feed!Hand, Push!Feed!Deliver, Push!Feed!GiveUp, Push!Feed!ArriveLate,
    Push!Feed!IsNew, Push!Feed!vars, PushP!Adrift, PushP!Feed!Accepted,
    PushP!Feed!AcceptedOnce, PushP!Feed!Next, PushP!Feed!Hand,
    PushP!Feed!Deliver, PushP!Feed!GiveUp, PushP!Feed!ArriveLate,
    PushP!Feed!IsNew, PushP!Feed!vars

LEMMA SameHandler ==
  /\ Push!IInv <=> PushP!IInv
  /\ Push!Init <=> PushP!Init
  /\ Push!Next <=> PushP!Next
  /\ Push!vars = PushP!vars
  /\ PushP!NotifierAssumption
<1>1. Push!TypeOK <=> PushP!TypeOK
  BY SamePushData, SameClient DEF Push!TypeOK, PushP!TypeOK
<1>2. Push!IInv <=> PushP!IInv
  BY <1>1, SamePushData, SameClient, SameFeed
  DEF Push!IInv, Push!ClientInv, Push!ClientIsHandlers, Push!Waiting,
      Push!FeedInv, Push!HandledIsNew, Push!NotSent, Push!GivenUpOnce,
      Push!ClocksAgree, Push!NoTokenIsDue, PushP!IInv, PushP!ClientInv,
      PushP!ClientIsHandlers, PushP!Waiting, PushP!FeedInv,
      PushP!HandledIsNew, PushP!NotSent, PushP!GivenUpOnce,
      PushP!ClocksAgree, PushP!NoTokenIsDue
<1>3. Push!Init <=> PushP!Init
  BY SamePushData, SameClient DEF Push!Init, PushP!Init
<1>4. Push!action_handler <=> PushP!action_handler
  BY SamePushData
  DEF Push!action_handler, Push!RenewalDue, Push!unixnowseconds,
      Push!GoesBy, Push!clocks, Push!servers, Push!tcpVars,
      PushP!action_handler, PushP!RenewalDue, PushP!unixnowseconds,
      PushP!GoesBy, PushP!clocks, PushP!servers, PushP!tcpVars
<1>5. Push!Handler <=> PushP!Handler
  <2>1. Push!oauth_send <=> PushP!oauth_send
    <3>1. Push!oauth2_requests = PushP!oauth2_requests
      BY DEF Push!oauth2_requests, PushP!oauth2_requests, Push!unixnowseconds,
             PushP!unixnowseconds, Push!sign, PushP!sign, Push!base64, PushP!base64
    <3> QED
      BY <3>1, SameCallbacks
      DEF Push!oauth_send, PushP!oauth_send, Push!clocks, PushP!clocks, Push!servers, PushP!servers,
          Push!history, PushP!history, Push!token,
          PushP!token
  <2>2. Push!fcm_send <=> PushP!fcm_send
    BY SameCallbacks
    DEF Push!fcm_send, PushP!fcm_send, Push!fcm_request, PushP!fcm_request,
        Push!clocks, PushP!clocks, Push!servers, PushP!servers, Push!history,
        PushP!history, Push!token, PushP!token
  <2>3. Push!oauth_finished <=> PushP!oauth_finished
    <3>1. Push!Whole <=> PushP!Whole
      BY DEF Push!Whole, PushP!Whole, Push!Tcp!Bytes, PushP!Tcp!Bytes
    <3> QED
      BY <3>1, SameCallbacks
      DEF Push!oauth_finished, PushP!oauth_finished, Push!AfterOAuth,
          PushP!AfterOAuth, Push!unixnowseconds, PushP!unixnowseconds,
          Push!parse_response, PushP!parse_response, Push!GoesBy, PushP!GoesBy,
          Push!clocks, PushP!clocks, Push!servers, PushP!servers, Push!history,
          PushP!history, Push!token, PushP!token, Push!tcpVars, PushP!tcpVars
  <2>4. /\ Push!oauth_lookup_failed <=> PushP!oauth_lookup_failed
        /\ Push!fcm_lookup_failed <=> PushP!fcm_lookup_failed
        /\ Push!fcm_finished <=> PushP!fcm_finished
    BY SameCallbacks
    DEF Push!oauth_lookup_failed, PushP!oauth_lookup_failed, Push!fcm_lookup_failed,
        PushP!fcm_lookup_failed, Push!fcm_finished, PushP!fcm_finished,
        Push!AfterOAuth, PushP!AfterOAuth, Push!clocks, PushP!clocks, Push!servers, PushP!servers,
          Push!history, PushP!history, Push!token,
        PushP!token, Push!tcpVars, PushP!tcpVars
  <2> QED
    BY <2>1, <2>2, <2>3, <2>4 DEF Push!Handler, PushP!Handler
<1>6. Push!Network \/ Push!Arrives \/ Push!ArrivesLate
        <=> PushP!Network \/ PushP!Arrives \/ PushP!ArrivesLate
  BY SameCallbacks
  DEF Push!Network, Push!Arrives, Push!ArrivesLate, Push!Served, Push!clocks,
      Push!token, Push!servers, Push!history, PushP!Network, PushP!Arrives,
      PushP!ArrivesLate, PushP!Served, PushP!clocks, PushP!token,
      PushP!servers, PushP!history
<1>7. Push!Tick \/ Push!NtpAnswers <=> PushP!Tick \/ PushP!NtpAnswers
  BY DEF Push!Tick, Push!NtpAnswers, Push!token, Push!servers, Push!tcpVars,
         Push!history, PushP!Tick, PushP!NtpAnswers, PushP!token,
         PushP!servers, PushP!tcpVars, PushP!history
<1>8. Push!Next <=> PushP!Next
  BY <1>4, <1>5, <1>6, <1>7 DEF Push!Next, PushP!Next
<1>9. Push!vars = PushP!vars
  BY DEF Push!vars, PushP!vars
<1>10. PushP!NotifierAssumption
  BY ProgramAssumption, SamePushData, SameClient
  DEF Push!NotifierAssumption, PushP!NotifierAssumption
<1> QED
  BY <1>2, <1>3, <1>8, <1>9, <1>10

(* What the handler's invariant says of what both parts share. *)
LEMMA HandlerFacts ==
  ASSUME Push!IInv
  PROVE  /\ actions \in Nat /\ 1 .. actions \subseteq Push!Action
         /\ delivered \in Seq(Push!Action)
<1>1. /\ actions \in Nat /\ actions <= MaxActions
      /\ delivered \in Seq(Push!Action)
  BY SameHandler, SamePushData, PushP!HandlerFacts DEF PushP!IInv
<1>2. MaxActions \in Nat
  BY ProgramAssumption DEF Push!NotifierAssumption
<1> QED
  BY <1>1, <1>2 DEF Push!Action

-----------------------------------------------------------------------------
(***************************************************************************)
(* The program: a step of it is a step of the receiver and, but for a loss *)
(* of power, one of the handler.                                           *)
(***************************************************************************)
LEMMA StepOfWatchDog == [ProgramNext]_programVars => [Next]_vars
BY DEF ProgramNext, MainStarts, PowerFails, Radio, Turn, Handler, Environment,
       Next, programVars

LEMMA StepOfHandler ==
  [ProgramNext]_programVars => PowerFails \/ [Push!Next]_(Push!vars)
<1> SUFFICES ASSUME [ProgramNext]_programVars, ~ PowerFails
             PROVE  [Push!Next]_(Push!vars)
  OBVIOUS
<1> USE DEF Push!Next
<1>1. CASE UNCHANGED pushVars
  BY <1>1 DEF pushVars, Push!vars
<1>2. CASE Turn
  BY <1>1, <1>2 DEF Turn
<1>3. CASE Handler \/ Environment
  BY <1>3 DEF Handler, Environment
<1> QED
  BY <1>1, <1>2, <1>3 DEF ProgramNext, MainStarts, Radio, programVars

(* A turn that calls the handler adds one entry to the log, and one that    *)
(* does not leaves the memory alone too.                                    *)
LEMMA TurnReports ==
  ASSUME IInv, watch
  PROVE  \/ Carries(radio) = "nullopt" /\ UNCHANGED <<iv, log>>
         \/ /\ Carries(radio) # "nullopt"
            /\ handle_packet(parse_packet(radio), Carries(radio))
            /\ Len(log') = Len(log) + 1 /\ Len(log) \in Nat
<1>1. CASE Carries(radio) = "nullopt"
  BY <1>1 DEF watch
<1>2. CASE Carries(radio) # "nullopt"
  <2> DEFINE packet == parse_packet(radio)
             action == Carries(radio)
  <2>1. handle_packet(packet, action)
    BY <1>2 DEF watch
  <2> HIDE DEF packet, action
  <2>2. \E entry : log' = Append(log, entry)
    BY <2>1 DEF handle_packet, action_handler
  <2>3. Len(log') = Len(log) + 1 /\ Len(log) \in Nat
    BY <2>2 DEF IInv, TypeOK
  <2> QED
    BY <1>2, <2>1, <2>3 DEF packet, action
<1> QED
  BY <1>1, <1>2

LEMMA LoggedStep ==
  ASSUME IInv, Push!IInv, ActionsAreLogged, [ProgramNext]_programVars
  PROVE  ActionsAreLogged'
<1> USE DEF ActionsAreLogged
<1>1. Len(log) \in Nat /\ actions \in Nat
  BY HandlerFacts DEF IInv, TypeOK
<1>2. CASE Turn
  <2>1. CASE UNCHANGED <<log, actions, begun>>
    BY <2>1
  <2>2. CASE ~ UNCHANGED log
    <3>1. actions' = actions + 1 /\ UNCHANGED begun
      BY <1>2, <2>2 DEF Turn, ghosts, Push!action_handler
    <3>2. Len(log') = Len(log) + 1
      BY <1>2, <2>2, TurnReports DEF Turn
    <3> QED
      BY <1>1, <3>1, <3>2
  <2>3. UNCHANGED log => UNCHANGED <<actions, begun>>
    BY <1>2 DEF Turn, pushVars, ghosts
  <2> QED
    BY <2>1, <2>2, <2>3
<1>3. CASE PowerFails
  <2>1. begun' = actions /\ actions' = actions /\ log' = <<>>
    BY <1>3 DEF PowerFails, Restart
  <2> QED
    BY <1>1, <2>1
<1>4. CASE Handler \/ Environment
  <2>1. UNCHANGED <<log, actions, begun>>
    BY <1>4
    DEF Handler, Environment, vars, ghosts, Push!Handler,
        Push!oauth_lookup_failed, Push!oauth_send, Push!oauth_finished,
        Push!fcm_lookup_failed, Push!fcm_send, Push!fcm_finished,
        Push!Network, Push!Arrives, Push!ArrivesLate, Push!Tick,
        Push!NtpAnswers
  <2> QED
    BY <2>1
<1>5. CASE MainStarts \/ Radio \/ UNCHANGED programVars
  <2>1. UNCHANGED <<log, actions, begun>>
    BY <1>5 DEF MainStarts, Start, Radio, Hear, receive_times_out, pushVars, ghosts, programVars, vars
  <2> QED
    BY <2>1
<1> QED
  BY <1>2, <1>3, <1>4, <1>5 DEF ProgramNext

(* The handler's part, which PushNotifierProofs proves but for the losses   *)
(* of power: those give up the request the handler was waiting for.         *)
LEMMA HandlerPart ==
  ASSUME PushP!IInv, [ProgramNext]_programVars
  PROVE  PushP!IInv' /\ [Push!Feed!Next]_(Push!Feed!vars)
<1>1. CASE PowerFails
  <2>1. PushP!IInv' /\ [PushP!Feed!Next]_(PushP!Feed!vars)
    BY <1>1, SameCallbacks, SameHandler, PushP!HandlerStartsAgain
    DEF PowerFails
  <2> QED
    BY <2>1, SameFeed
<1>2. CASE [Push!Next]_(Push!vars)
  <2>1. [PushP!Next]_(PushP!vars)
    BY <1>2, SameHandler DEF Push!vars, PushP!vars
  <2>2. PushP!IInv' /\ [PushP!Feed!Next]_(PushP!Feed!vars)
    BY <2>1, SameHandler, PushP!HandlerStep, PushP!FeedStep DEF PushP!IInv
  <2> QED
    BY <2>2, SameFeed
<1> QED
  BY <1>1, <1>2, StepOfHandler

LEMMA ProgramInvariant == ProgramSpec => []ProgramInv
<1>1. ProgramInit => ProgramInv
  <2> SUFFICES ASSUME ProgramInit PROVE ProgramInv
    OBVIOUS
  <2>1. Init /\ Push!Init /\ log = <<>> /\ DOMAIN log = {} /\ Len(log) = 0
    BY DEF ProgramInit, Init
  <2>2. IInv
    BY <2>1, TypeInit
    DEF Init, IInv, RemembersNewest, ReportedInOrder, WarningsJustified
  <2>3. Push!IInv
    BY <2>1, SameHandler, PushP!InitIsOrdered
  <2>4. ActionsAreLogged
    BY <2>1 DEF ProgramInit, Push!Init, ActionsAreLogged
  <2> QED
    BY <2>2, <2>3, <2>4 DEF ProgramInv
<1>2. IInv /\ [ProgramNext]_programVars => IInv'
  BY StepOfWatchDog, IInvStep
<1>3. PushP!IInv /\ [ProgramNext]_programVars => PushP!IInv'
  BY HandlerPart
<1>4. ProgramInv /\ [ProgramNext]_programVars => ActionsAreLogged'
  BY LoggedStep DEF ProgramInv
<1>5. Push!IInv <=> PushP!IInv
  BY SameHandler
<1> QED
  BY <1>1, <1>2, <1>3, <1>4, <1>5, PTL DEF ProgramSpec, ProgramInv

(***************************************************************************)
(* Of the states of the door that one start of the watchdog reports, the   *)
(* one Firebase accepts is of a newer message than all it has accepted, or *)
(* it was given up under way and is not accepted a second time, whatever   *)
(* is heard and whichever requests fail (main.cpp:141-190, 250-268,        *)
(* tcpclient.cpp:58-65).                                                   *)
(***************************************************************************)
LEMMA DeliveredStep ==
  ASSUME ProgramInv, [ProgramNext]_programVars, delivered' # delivered,
         NEW m \in Push!Feed!Accepted
  PROVE  InMessageOrder(delivered'[Len(delivered')], m)
<1>1. PushP!IInv
  BY SameHandler DEF ProgramInv
<1>2. PICK n \in 1 .. actions :
        /\ delivered' = Append(delivered, n)
        /\ \/ Push!Feed!IsNew(n)
           \/ n \in Push!Adrift
  BY <1>1, HandlerPart
  DEF Push!Feed!Next, Push!Feed!Hand, Push!Feed!Deliver, Push!Feed!GiveUp,
      Push!Feed!ArriveLate, Push!Feed!vars
<1>3. delivered'[Len(delivered')] = n
  <2>1. delivered \in Seq(Push!Action) /\ n \in Push!Action
    BY HandlerFacts DEF ProgramInv
  <2> QED
    BY <1>2, <2>1
<1>4. m \in Nat /\ m <= actions /\ n \in Nat /\ n <= actions /\ actions \in Nat
  <2>1. actions \in Nat /\ delivered \in Seq(Push!Action)
    BY HandlerFacts DEF ProgramInv
  <2>2. m \in Nat
    <3>1. \A i \in DOMAIN delivered : delivered[i] \in Push!Action
      BY <2>1
    <3>2. Push!Action \subseteq Nat
      BY DEF Push!Action
    <3> QED
      BY <3>1, <3>2 DEF Push!Feed!Accepted
  <2>3. m <= actions
    BY DEF ProgramInv, Push!IInv, Push!FeedInv, Push!HandledIsNew
  <2> QED
    BY <2>1, <2>2, <2>3
<1>5. SUFFICES ASSUME ThisStart(n), ThisStart(m)
               PROVE  /\ iv_top(Reported(m)) = iv_top(Reported(n))
                      /\ IF n \in Push!Adrift
                         THEN iv_bottom(Reported(m)) # iv_bottom(Reported(n))
                         ELSE iv_bottom(Reported(m)) < iv_bottom(Reported(n))
  BY <1>3 DEF InMessageOrder
<1> DEFINE a == m - begun
           b == n - begun
<1>6. a \in DOMAIN log /\ b \in DOMAIN log /\ (m < n => a < b) /\ (n < m => b < a)
  <2>1. /\ begun \in Nat /\ actions = begun + Len(log) /\ Len(log) \in Nat
        /\ DOMAIN log = 1 .. Len(log)
    BY DEF ProgramInv, ActionsAreLogged, IInv, TypeOK
  <2>2. begun < m /\ begun < n
    BY <1>5 DEF ThisStart
  <2> QED
    BY <1>4, <2>1, <2>2
<1>7. /\ Genuine(a) /\ Genuine(b)
      /\ Reported(m) = log[a] /\ Reported(n) = log[b]
  BY <1>5 DEF ThisStart, Reported, Genuine
<1>8. Bottom(a) \in Nat /\ Bottom(b) \in Nat
  BY <1>6, LogIsNumbered DEF ProgramInv, IInv
<1>9. /\ a < b => Top(a) = Top(b) /\ Bottom(a) < Bottom(b)
      /\ b < a => Top(b) = Top(a) /\ Bottom(b) < Bottom(a)
  BY <1>6, <1>7 DEF ProgramInv, IInv, ReportedInOrder
<1>10. /\ iv_top(Reported(m)) = Top(a) /\ iv_bottom(Reported(m)) = Bottom(a)
       /\ iv_top(Reported(n)) = Top(b) /\ iv_bottom(Reported(n)) = Bottom(b)
  BY <1>7 DEF Top, Bottom
<1> HIDE DEF a, b
<1>11. CASE n \in Push!Adrift
  <2>1. m # n
    BY <1>11 DEF ProgramInv, Push!IInv, Push!FeedInv, Push!Feed!AcceptedOnce
  <2> QED
    BY <1>4, <1>6, <1>8, <1>9, <1>10, <1>11, <2>1
<1>12. CASE n \notin Push!Adrift
  <2>1. m < n
    BY <1>2, <1>12 DEF Push!Feed!IsNew
  <2> QED
    BY <1>6, <1>9, <1>10, <1>12, <2>1
<1> QED
  BY <1>11, <1>12

THEOREM NotifiedInOrder == ProgramSpec => NotifiedInMessageOrder
<1>1. ProgramInv /\ [ProgramNext]_programVars =>
        [delivered' # delivered =>
           \A m \in Push!Feed!Accepted :
             InMessageOrder(delivered'[Len(delivered')], m)]_programVars
  BY DeliveredStep
<1> QED
  BY <1>1, ProgramInvariant, PTL DEF ProgramSpec, NotifiedInMessageOrder

(***************************************************************************)
(* The receiver of the whole program reports in order and warns with       *)
(* reason, as it does alone (main.cpp:248-265).                            *)
(***************************************************************************)
THEOREM ProgramReportsInOrder ==
  ProgramSpec => []ReportedInOrder /\ []WarningsJustified
<1>1. ProgramInv => ReportedInOrder /\ WarningsJustified
  BY DEF ProgramInv, IInv
<1> QED
  BY <1>1, ProgramInvariant, PTL

(***************************************************************************)
(* Losses of power included, Firebase gets each action the handler was     *)
(* called with at most once, and while the handler waits none that is not  *)
(* newer than all before: the one it was working on is given up, with its  *)
(* message perhaps under way, and never tried again (main.cpp:132,         *)
(* 141-190).                                                               *)
(***************************************************************************)
THEOREM ProgramFeedsActions == ProgramSpec => Push!ImplementsActionFeed
<1>1. ProgramInit => Push!Feed!Init
  BY DEF ProgramInit, Push!Init, Push!Tcp!Init, Push!Adrift, Push!Feed!Init
<1>2. ProgramInv /\ [ProgramNext]_programVars => [Push!Feed!Next]_(Push!Feed!vars)
  BY HandlerPart, SameHandler DEF ProgramInv
<1> QED
  BY <1>1, <1>2, ProgramInvariant, PTL
  DEF ProgramSpec, Push!ImplementsActionFeed, Push!Feed!Spec
=============================================================================
