------------------------------ MODULE WatchDog ------------------------------
(***************************************************************************)
(* The receiver (class WatchDog of watchdog/main.cpp): it remembers the    *)
(* vector of the first message it decrypts and the counter of the newest,  *)
(* and calls its action handler with what each later message means.  The   *)
(* loop polls the LoRa module, which holds one received frame and has to   *)
(* be set to receive again after each (the module and its driver, external *)
(* code, are taken from how main.cpp and common.cpp use them).             *)
(***************************************************************************)
EXTENDS LoRaPacket

CONSTANTS
  Frames,  \* the frames the radio may receive
  NoFrame, \* the radio holds no frame: parsePacket() returns 0
  NoIv,    \* std::nullopt of WatchDog::iv
  MaxLog   \* bound on the calls of the action handler since the last start

IvTopBottom == [top : Nat, bottom : Nat]

ASSUME WatchDogAssumption ==
  /\ Frames \subseteq Frame
  /\ NoFrame \notin Frame
  /\ NoIv \notin IvTopBottom
  /\ MaxLog \in Nat

VARIABLES
  running,  \* main has passed its start-up checks
  radio,    \* the frame in the buffer of the LoRa module
  mode,     \* how the module receives: one frame after the other, one only,
            \* or not at all
  iv,       \* WatchDog::iv
  log       \* calls of action_handler since the start, oldest first, each
            \* with the vector the message came with (history)

vars == <<running, radio, mode, iv, log>>

DoorAction == {"DoorOpen", "DoorClose"}
Action == DoorAction \cup {"IvTopMismatch", "IvBottomOld"}

LogEntry == [action : Action, iv : IV]

TypeOK ==
  /\ running \in BOOLEAN
  /\ radio \in Frame \cup {NoFrame}
  /\ mode \in {"standby", "continuous", "single"}
  /\ iv \in IvTopBottom \cup {NoIv}
  /\ log \in Seq(LogEntry)

Init ==
  /\ running = FALSE
  /\ radio = NoFrame
  /\ mode = "standby"
  /\ iv = NoIv
  /\ log = <<>>

-----------------------------------------------------------------------------
\* Mutant: no text is dropped.
OpenOrElseClose(message) == IF message = "open_" THEN "DoorOpen" ELSE "DoorClose"

get_action(message) ==
  CASE message = "open_" -> "DoorOpen"
    [] message = "close" -> "DoorClose"
    [] OTHER -> "nullopt"

action_handler(action, packet) ==
  log' = Append(log, [action |-> action, iv |-> packet.iv])

(* Non-repetition: the counters of reported messages rise. *)
\* Mutants: the same counter passes; only the very next one does.
NewerOrSame(received) == iv.bottom <= received.bottom
NextInOrder(received) == iv.bottom + 1 = received.bottom
Newer(received) == iv.bottom < received.bottom

(* handle_packet, for a packet that carries one of the two messages. *)
handle_packet(packet, action) ==
  LET received == [top |-> iv_top(packet), bottom |-> iv_bottom(packet)]
  IN  \/ /\ iv = NoIv
         /\ iv' = received
         /\ action_handler(action, packet)
      \/ /\ iv # NoIv
         /\ iv.top # received.top
         /\ action_handler("IvTopMismatch", packet)
         /\ UNCHANGED iv
      \/ /\ iv # NoIv
         /\ iv.top = received.top
         /\ Newer(received)
         /\ iv' = [iv EXCEPT !.bottom = received.bottom]
         /\ action_handler(action, packet)
      \/ /\ iv # NoIv
         /\ iv.top = received.top
         /\ ~ Newer(received)
         /\ action_handler("IvBottomOld", packet)
         /\ UNCHANGED iv

(* The module receives a frame.  Receiving one after the other it keeps the *)
(* last; receiving a single one it stops with it, or when the time for it   *)
(* is over, and what is sent in standby is lost.                            *)
Hear(frame) ==
  /\ running
  /\ mode # "standby"
  /\ radio' = frame
  /\ mode' = IF mode = "single" THEN "standby" ELSE mode
  /\ UNCHANGED <<running, iv, log>>

receive_times_out ==
  /\ mode = "single"
  /\ mode' = "standby"
  /\ UNCHANGED <<running, radio, iv, log>>

(* LoRa.parsePacket() takes the frame and leaves the module in standby;     *)
(* when there is none it sets the module to receive a single one.           *)
parsePacket ==
  /\ radio' = NoFrame
  /\ mode' = IF radio = NoFrame THEN "single" ELSE "standby"

(* One turn of the loop: no frame is no packet, and frames that are too     *)
(* short, have another header or do not decrypt to a message are dropped.   *)
Carries(frame) ==
  IF /\ frame # NoFrame
     /\ IsPacket(frame)
     /\ parse_packet(frame).header = MESSAGE_HEADER
  THEN LET packet == parse_packet(frame)
       IN  get_action(Decrypt(packet.payload, packet.iv))
  ELSE "nullopt"

watch ==
  /\ running
  /\ parsePacket
  /\ \/ /\ Carries(radio) = "nullopt"
        /\ UNCHANGED <<iv, log>>
     \/ /\ Carries(radio) # "nullopt"
        /\ Len(log) < MaxLog
        /\ handle_packet(parse_packet(radio), Carries(radio))
  /\ UNCHANGED running

(* main: LoRa.begin() succeeded, LoRa.receive(), the loop starts. *)
Start ==
  /\ ~ running
  /\ running' = TRUE
  /\ mode' = "continuous"
  /\ UNCHANGED <<radio, iv, log>>

Restart ==
  /\ running
  /\ running' = FALSE
  /\ radio' = NoFrame
  /\ mode' = "standby"
  /\ iv' = NoIv
  /\ log' = <<>>

Next ==
  \/ Start
  \/ Restart
  \/ \E frame \in Frames : Hear(frame)
  \/ receive_times_out
  \/ watch

Spec == Init /\ [][Next]_vars

-----------------------------------------------------------------------------
Genuine(i) == log[i].action \in DoorAction

Top(i) == iv_top(log[i])
Bottom(i) == iv_bottom(log[i])

(***************************************************************************)
(* Whatever the radio hands over (repeated, late, reordered frames, frames *)
(* of a sender that was restarted), the door actions reported since the    *)
(* start belong to one upper half of the vector and their counters rise:   *)
(* no message is reported twice and none after a newer one                 *)
(* (README.md "old messages can't be played back as long as the receiver   *)
(* is not restarted").                                                     *)
(***************************************************************************)
ReportedInOrder ==
  \A i, j \in DOMAIN log :
    i < j /\ Genuine(i) /\ Genuine(j) =>
      /\ Top(i) = Top(j)
      /\ Bottom(i) < Bottom(j)

(***************************************************************************)
(* A warning is never given for want of memory of a message: every         *)
(* IvTopMismatch and IvBottomOld follows a reported door message of        *)
(* another sender start, or one at least as new.                           *)
(***************************************************************************)
WarningsJustified ==
  \A j \in DOMAIN log :
    /\ log[j].action = "IvTopMismatch" =>
         \E i \in 1 .. j-1 : Genuine(i) /\ Top(i) # Top(j)
    /\ log[j].action = "IvBottomOld" =>
         \E i \in 1 .. j-1 :
           /\ Genuine(i)
           /\ Top(i) = Top(j)
           /\ Bottom(j) <= Bottom(i)

-----------------------------------------------------------------------------
(***************************************************************************)
(* What the memory of the receiver means: it is empty as long as nothing   *)
(* was reported; later it holds the vector of a reported message, of the   *)
(* upper half of all of them and of the greatest counter.                  *)
(***************************************************************************)
RemembersNewest ==
  /\ iv = NoIv => log = <<>>
  /\ iv # NoIv =>
       /\ \A i \in DOMAIN log :
            Genuine(i) => Top(i) = iv.top /\ Bottom(i) <= iv.bottom
       /\ \E i \in DOMAIN log :
            Genuine(i) /\ Top(i) = iv.top /\ Bottom(i) = iv.bottom

IInv == TypeOK /\ RemembersNewest /\ ReportedInOrder /\ WarningsJustified
=============================================================================
