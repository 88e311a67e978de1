----------------------------- MODULE GarageLink -----------------------------
(***************************************************************************)
(* The sender, the air and the receiver together.  LoRa is used peer to    *)
(* peer without acknowledgements: a frame may be lost, heard late, or      *)
(* heard again, and other users of the band send frames of their own.      *)
(***************************************************************************)
EXTENDS LoRaPacket

CONSTANTS
  Tops, Heartbeat, MaxClock, NoFrame,                     \* of DoorWatcher
  Foreign,   \* frames of other users of the band
  NoIv, MaxLog,                                           \* of WatchDog
  MaxSent    \* bound on the messages sent

(* The constants are what the two ends take them for, and the frames of    *)
(* other users do not decrypt to a message of the sender.                   *)
ASSUME LinkAssumption ==
  /\ Tops \subseteq [0 .. 7 -> Byte]
  /\ Heartbeat \in Nat
  /\ MaxClock \in Nat
  /\ Foreign \subseteq Frame
  /\ \A frame \in Foreign :
       IsPacket(frame) => frame.payload.text \notin DoorMessage
  /\ NoFrame \notin Frame
  /\ NoIv \notin [top : Nat, bottom : Nat]
  /\ MaxLog \in Nat
  /\ MaxSent \in Nat

VARIABLES
  door, edge, clock, pc, packet, state, last_time, now, new_state, air,
  running, radio, mode, iv, log,
  sent,      \* every message sent so far with its frame and the state of
             \* the door it tells (history; also the content of the air)
  used,      \* upper halves drawn so far
  reported   \* which message each reported door action came from, and the
             \* state it gave, since the receiver started (history)

DW == INSTANCE DoorWatcher
WD == INSTANCE WatchDog WITH Frames <- Frame

dwVars == <<door, edge, clock, pc, packet, state, last_time, now, new_state,
            air>>
wdVars == <<running, radio, mode, iv, log>>
vars == <<dwVars, wdVars, sent, used, reported>>

SentMessage == [frame : Frame, iv : IV, state : DW!DoorState]

TypeOK ==
  /\ DW!TypeOK
  /\ WD!TypeOK
  /\ sent \in Seq(SentMessage)
  /\ used \in SUBSET Tops
  /\ reported \in Seq([message : Nat, state : DW!DoorState])

Init ==
  /\ DW!Init
  /\ WD!Init
  /\ sent = <<>>
  /\ used = {}
  /\ reported = <<>>

(* What tells the starts of the sender apart: the upper half of a vector. *)
Drawn(vector) == [i \in 0 .. 7 |-> vector[i]]

Tells(action) == IF action = "DoorOpen" THEN "Open" ELSE "Close"

(* The message sent that an entry of the log reports, told by its vector;   *)
(* 0 if there is none.                                                      *)
Origin(entry) ==
  CHOOSE k \in 0 .. Len(sent) :
    (\E l \in DOMAIN sent : sent[l].iv = entry.iv)
      => k \in DOMAIN sent /\ sent[k].iv = entry.iv

-----------------------------------------------------------------------------
(* Eight random bytes: a start of the sender draws a half not drawn before. *)
SenderStarts ==
  /\ DW!init_encryption
  /\ Drawn(packet'.iv) \notin used
  /\ used' = used \cup {Drawn(packet'.iv)}
  /\ UNCHANGED <<wdVars, sent, reported>>

SenderSends ==
  /\ Len(sent) < MaxSent
  /\ DW!send_message
  /\ sent' = Append(sent, [frame |-> air', iv |-> packet.iv,
                           state |-> new_state])
  /\ UNCHANGED <<wdVars, used, reported>>

SenderOther ==
  /\ \/ DW!MoveDoor
     \/ DW!Tick
     \/ DW!init_lora_failed
     \/ DW!check_door
     \/ DW!go_dormant
     \/ DW!wake_up
     \/ DW!Restart
  /\ UNCHANGED <<wdVars, sent, used, reported>>

(* Any message sent so far is heard when the receiver listens: now, later, *)
(* again, or never.                                                        *)
Hear(i) ==
  /\ WD!Hear(sent[i].frame)
  /\ UNCHANGED <<dwVars, sent, used, reported>>

HearForeign ==
  /\ \E frame \in Foreign : WD!Hear(frame)
  /\ UNCHANGED <<dwVars, sent, used, reported>>

ReceiveTimesOut == WD!receive_times_out /\ UNCHANGED <<dwVars, sent, used, reported>>

(* A call of the action handler with a door action is a report. *)
ReceiverWatches ==
  /\ WD!watch
  /\ LET entry == log'[Len(log')]
     IN  reported' = IF log' # log /\ entry.action \in WD!DoorAction
                     THEN Append(reported, [message |-> Origin(entry),
                                            state   |-> Tells(entry.action)])
                     ELSE reported
  /\ UNCHANGED <<dwVars, sent, used>>

ReceiverStarts == WD!Start /\ UNCHANGED <<dwVars, sent, used, reported>>

ReceiverRestarts ==
  /\ WD!Restart
  /\ reported' = <<>>
  /\ UNCHANGED <<dwVars, sent, used>>

Next ==
  \/ SenderStarts \/ SenderSends \/ SenderOther
  \/ \E i \in DOMAIN sent : Hear(i)
  \/ HearForeign \/ ReceiveTimesOut
  \/ ReceiverWatches
  \/ ReceiverStarts \/ ReceiverRestarts

Spec == Init /\ [][Next]_vars

-----------------------------------------------------------------------------
(***************************************************************************)
(* A key stream is used for one message only (README.md "the same IV and   *)
(* key pair must be used only once"), over all starts of the sender.       *)
(***************************************************************************)
IvUsedOnce ==
  \A k, l \in DOMAIN sent : k # l => sent[k].iv # sent[l].iv

(***************************************************************************)
(* What the receiver reports as the state of the door is what some message *)
(* of the sender said, whatever else is on the air and although            *)
(* parse_packet misreads a byte of the vector.                             *)
(***************************************************************************)
ReportedWasSent ==
  \A i \in DOMAIN log : WD!Genuine(i) =>
    \E k \in DOMAIN sent :
      /\ sent[k].iv = log[i].iv
      /\ sent[k].state = Tells(log[i].action)

(* Why: a frame carries the text of its state under its own vector, and     *)
(* what the radio holds came from the sender or from another user.          *)
Sealed(m) ==
  lora_write([header  |-> MESSAGE_HEADER,
              iv      |-> m.iv,
              payload |-> Encrypt(DW!Message(m.state), m.iv)])

FramesTell == \A k \in DOMAIN sent : sent[k].frame = Sealed(sent[k])

RadioHeard ==
  \/ radio = NoFrame
  \/ radio \in Foreign
  \/ \E k \in DOMAIN sent : radio = sent[k].frame

IInv == TypeOK /\ FramesTell /\ RadioHeard /\ ReportedWasSent

(* Why a vector is used once, while fewer than Base8 messages are sent: the *)
(* counters of a start of the sender rise, and its next one is above them;   *)
(* what another start sends has another upper half.                         *)
Running == pc \notin {"boot", "exit"}

OfThisStart(k) == Drawn(sent[k].iv) = Drawn(packet.iv)

CountersRise ==
  /\ iv_bottom(packet) <= Len(sent)
  /\ Running =>
       /\ Drawn(packet.iv) \in used
       /\ \A k \in DOMAIN sent :
            OfThisStart(k) => iv_bottom(sent[k]) < iv_bottom(packet)
  /\ \A k \in DOMAIN sent : Drawn(sent[k].iv) \in used
  /\ \A k, l \in DOMAIN sent :
       k < l /\ Drawn(sent[k].iv) = Drawn(sent[l].iv)
         => iv_bottom(sent[k]) < iv_bottom(sent[l])

(* Why the reports are messages of one start in their order: the receiver    *)
(* remembers the vector of the message it reported last, and the sender      *)
(* never goes back to an earlier start.                                      *)
NeverGoesBack ==
  Running =>
    \A k \in DOMAIN sent :
      OfThisStart(k) => \A l \in k .. Len(sent) : OfThisStart(l)

RemembersLast ==
  /\ iv = NoIv <=> reported = <<>>
  /\ reported # <<>> =>
       LET last == reported[Len(reported)].message
       IN  /\ last \in DOMAIN sent
           /\ iv = [top |-> iv_top(sent[last]), bottom |-> iv_bottom(sent[last])]

OrderInv == IInv /\ CountersRise /\ NeverGoesBack /\ RemembersLast

(***************************************************************************)
(* A message heard while the receiver knows no message, or an older one of *)
(* the same start of the sender, is reported (README.md: the watchdog      *)
(* "ignores other messages with different iv_tops. The iv_bottom is also   *)
(* checked: it must be bigger than the previously received").              *)
(***************************************************************************)
Acceptable(message) ==
  \/ iv = NoIv
  \/ iv.top = iv_top(message) /\ iv.bottom < iv_bottom(message)

ReportsNow(k) ==
  /\ Len(log') = Len(log) + 1
  /\ log'[Len(log')].action = WD!get_action(DW!Message(sent[k].state))

NewMessageReported ==
  [][\A k \in DOMAIN sent :
       ReceiverWatches /\ radio = sent[k].frame /\ Acceptable(sent[k])
         => ReportsNow(k)]_vars

(* The same for the first Base2 messages of a start of the sender.  *)
EarlyMessageReported ==
  [][\A k \in DOMAIN sent :
       ReceiverWatches /\ radio = sent[k].frame /\ Acceptable(sent[k])
         => (iv_bottom(sent[k]) < Base2 => ReportsNow(k))]_vars

(***************************************************************************)
(* The link implements the channel it is meant to be: reports are messages *)
(* of one start of the sender, in the order they were sent.                *)
(***************************************************************************)
Channel == INSTANCE DoorReports WITH
  States <- DW!DoorState,
  Runs   <- Tops,
  told   <- [k \in DOMAIN sent |->
               [state |-> sent[k].state, run |-> Drawn(sent[k].iv)]]

ImplementsDoorReports == Channel!Spec
=============================================================================
