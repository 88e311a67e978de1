---------------------------- MODULE PushWatchDog ----------------------------
(***************************************************************************)
(* The watchdog of variant B as one program: WatchDog reads the radio and  *)
(* calls the push handler, and does not read again before the handler has  *)
(* returned (watchdog/main.cpp).  Meanwhile nobody sets the LoRa module,   *)
(* which stopped with the frame it handed over, to receive again.          *)
(*                                                                         *)
(* The program may lose its power at any time and starts again without its *)
(* memory, its connections and its clock; what Firebase has accepted stays *)
(* accepted.                                                               *)
(***************************************************************************)
EXTENDS WatchDog

CONSTANTS
  Unset, Garbage, NoToken, Lifetimes, DefaultLifetime, StartTime, MaxTime,
  Fast, MaxActions, NoMessage, ResponseLimit, AnswerSize, \* of PushNotifier
  MaxRestarts   \* bound on the restarts

VARIABLES
  time, rtc, pc, actions, auth_token, last_oauth_timestamp, last_expires_in,
  issued, delivered, tcp_pcb, message, last_response, asked, wire, late,
  reply, highest, set_back, taken,
  begun,       \* actions before the latest start (history)
  restarts     \* restarts so far

Push == INSTANCE PushNotifier

ASSUME ProgramAssumption ==
  /\ Push!NotifierAssumption
  /\ MaxRestarts \in Nat

pushVars == <<time, rtc, pc, actions, auth_token, last_oauth_timestamp,
              last_expires_in, issued, delivered, tcp_pcb, message,
              last_response, asked, wire, late, reply, highest, set_back,
              taken>>
ghosts == <<begun, restarts>>
programVars == <<vars, pushVars, ghosts>>

ProgramInit ==
  /\ Init
  /\ Push!Init
  /\ begun = 0
  /\ restarts = 0

-----------------------------------------------------------------------------
MainStarts == Start /\ UNCHANGED <<pushVars, ghosts>>

Radio ==
  /\ (\E frame \in Frames : Hear(frame)) \/ receive_times_out
  /\ UNCHANGED <<pushVars, ghosts>>

(* A turn of the loop starts when the last one has returned. *)
Returned == pc = "loop"

(* No frame or one that is dropped, and one the handler is called for. *)
Turn ==
  /\ Returned
  /\ watch
  /\ \/ log' = log /\ UNCHANGED pushVars
     \/ log' # log /\ Push!action_handler
  /\ UNCHANGED ghosts

Handler == running /\ Push!Handler /\ UNCHANGED <<vars, ghosts>>

LwipPolls ==
  Push!Tcp!poll /\ Push!Network /\ UNCHANGED <<vars, ghosts>>

Environment ==
  /\ \/ Push!Network \/ Push!Arrives \/ Push!ArrivesLate
     \/ Push!Tick \/ Push!NtpAnswers
  /\ UNCHANGED <<vars, ghosts>>

(* A request that has been sent may still be read by Firebase. *)
PowerFails ==
  /\ restarts < MaxRestarts
  /\ restarts' = restarts + 1
  /\ Restart
  /\ begun' = actions
  /\ rtc' = Unset
  /\ pc' = "loop"
  /\ auth_token' = NoToken
  /\ last_oauth_timestamp' = 0
  /\ last_expires_in' = DefaultLifetime
  /\ tcp_pcb' = "nullptr"
  /\ message' = NoMessage /\ asked' = NoMessage /\ last_response' = <<>>
  /\ Push!Tcp!LeftBehind
  /\ highest' = 0 /\ set_back' = FALSE /\ taken' = 0
  /\ UNCHANGED <<time, actions, issued, delivered>>

ProgramNext ==
  \/ MainStarts \/ PowerFails
  \/ Radio
  \/ Turn \/ Handler \/ Environment

(* As for the handler alone; and the loop goes on. *)
ProgramSpec ==
  /\ ProgramInit /\ [][ProgramNext]_programVars
  /\ WF_programVars(Turn) /\ WF_programVars(Handler)
  /\ WF_programVars(LwipPolls)

-----------------------------------------------------------------------------
(* What the receiver reported as action n of this start. *)
Reported(n) == log[n - begun]

ThisStart(n) == n > begun /\ Reported(n).action \in DoorAction

(***************************************************************************)
(* From the air to Firebase: of the states of the door that one start of   *)
(* the watchdog reports, Firebase accepts each once, and the one it        *)
(* accepts is of a newer message than all before it, whatever the radio    *)
(* hears meanwhile and whichever requests fail, unless it was given up     *)
(* with its request under way (main.cpp:141-190, 250-268).                 *)
(***************************************************************************)
InMessageOrder(n, m) ==
  ThisStart(n) /\ ThisStart(m) =>
    /\ iv_top(Reported(m)) = iv_top(Reported(n))
    /\ IF n \in Push!Adrift
       THEN iv_bottom(Reported(m)) # iv_bottom(Reported(n))
       ELSE iv_bottom(Reported(m)) < iv_bottom(Reported(n))

NotifiedInMessageOrder ==
  [][delivered' # delivered =>
       \A m \in Push!Feed!Accepted :
         InMessageOrder(delivered'[Len(delivered')], m)]_programVars

(***************************************************************************)
(* What is sent while the handler waits without a limit of its own is      *)
(* lost, but the watchdog comes to listen again, having read what the      *)
(* radio holds, so that the sender's next heartbeat can be heard; unless   *)
(* lwIP has left a connection to the client as described in PushNotifier   *)
(* (common.cpp:29, main.cpp:155, 181, 212).                                *)
(***************************************************************************)
Listening == radio = NoFrame /\ mode # "standby"

ListensAgain ==
  running /\ ~ Listening ~>
    \/ Listening
    \/ ~ running
    \/ tcp_pcb \in {"new", "aborted"}
    \/ pc = "loop" /\ actions = MaxActions

(***************************************************************************)
(* What these rest on besides the invariants of both parts: an action has  *)
(* an entry in the log.                                                    *)
(***************************************************************************)
ActionsAreLogged == begun \in Nat /\ actions = begun + Len(log)

ProgramInv == IInv /\ Push!IInv /\ ActionsAreLogged
=============================================================================
