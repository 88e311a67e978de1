----------------------------- MODULE DoorWatcher ----------------------------
(***************************************************************************)
(* The battery-powered sender (doorwatcher/main.cpp): a loop that reads    *)
(* the magnetic switch, sends the state of the door when it is new or the  *)
(* last message is old, and sleeps until the switch changes.  The door     *)
(* moves on its own, at any step of the program.                           *)
(***************************************************************************)
EXTENDS LoRaPacket

CONSTANTS
  Tops,       \* what LoRa.random() may put in bytes 0..7 of the vector
  Heartbeat,  \* minutes(15)
  MaxClock,   \* bound on time_us_64()
  NoFrame     \* nothing was transmitted yet

ASSUME WatcherAssumption ==
  /\ Tops \subseteq [0 .. 7 -> Byte]
  /\ Heartbeat \in Nat
  /\ MaxClock \in Nat
  /\ NoFrame \notin Frame

VARIABLES
  door,       \* position of the door, what gpio_get(GPIO_MAGNETIC) reads
  edge,       \* an edge of the switch is latched in the GPIO block
  clock,      \* time_us_64(): stands still while the oscillator is off
  pc,         \* where the program is
  packet,     \* DoorWatcher::packet
  state,      \* DoorWatcher::state
  last_time,  \* DoorWatcher::last_time
  now,        \* local of check_door
  new_state,  \* local of check_door
  air         \* the last frame transmitted

doorVars == <<door, edge>>
watcherVars == <<packet, state, last_time, now, new_state>>
vars == <<door, edge, clock, pc, packet, state, last_time, now, new_state, air>>

DoorState == {"Open", "Close"}

Message(s) == IF s = "Close" THEN "close" ELSE "open_"

ZeroPacket ==
  [header  |-> MESSAGE_HEADER,
   iv      |-> [i \in 0 .. 15 |-> 0],
   payload |-> NoPayload]

TypeOK ==
  /\ door \in DoorState
  /\ edge \in BOOLEAN
  /\ clock \in 0 .. MaxClock
  /\ pc \in {"boot", "check", "send", "arm", "dormant", "exit"}
  /\ packet \in Packet
  /\ state \in DoorState \cup {"nullopt"}
  /\ last_time \in 0 .. MaxClock
  /\ now \in 0 .. MaxClock
  /\ new_state \in DoorState
  /\ air = NoFrame \/ air \in Frame

Init ==
  /\ door \in DoorState
  /\ edge = FALSE
  /\ clock = 0
  /\ pc = "boot"
  /\ packet = ZeroPacket
  /\ state = "nullopt"
  /\ last_time = 0
  /\ now = 0
  /\ new_state = "Open"
  /\ air = NoFrame

-----------------------------------------------------------------------------
(* The world: the door moves, time passes while the program is awake. *)
MoveDoor ==
  /\ door' = IF door = "Open" THEN "Close" ELSE "Open"
  /\ edge' = TRUE
  /\ UNCHANGED <<clock, pc, watcherVars, air>>

Tick ==
  /\ pc \notin {"dormant", "exit"}
  /\ clock < MaxClock
  /\ clock' = clock + 1
  /\ UNCHANGED <<doorVars, pc, watcherVars, air>>

-----------------------------------------------------------------------------
(* main: LoRa.begin() fails and the program ends ... *)
init_lora_failed ==
  /\ pc = "boot"
  /\ pc' = "exit"
  /\ UNCHANGED <<doorVars, clock, watcherVars, air>>

(* ... or init_encryption draws the upper half of the vector. *)
init_encryption ==
  /\ pc = "boot"
  /\ \E top \in Tops :
       packet' = [packet EXCEPT !.iv =
                    [i \in 0 .. 15 |-> IF i < 8 THEN top[i] ELSE @[i]]]
  /\ pc' = "check"
  /\ UNCHANGED <<doorVars, clock, state, last_time, now, new_state, air>>

(* What check_door makes send_message put into the packet. *)
\* Mutant: the switch is read again.
PayloadReadAgain(s) == Encrypt(Message(door), packet.iv)
Payload(s) == Encrypt(Message(s), packet.iv)

(* When it calls it. *)
\* Mutant: both conditions must hold.
DueTogether(reading, at) == reading # state /\ at - last_time > Heartbeat
Due(reading, at) == reading # state \/ at - last_time > Heartbeat

(* check_door up to its condition: the clock, then the switch. *)
check_door ==
  /\ pc = "check"
  /\ now' = clock
  /\ new_state' = door
  /\ pc' = IF Due(new_state', now') THEN "send" ELSE "arm"
  /\ UNCHANGED <<doorVars, clock, packet, state, last_time, air>>

(* send_message(...), then state and last_time are updated. *)
send_message ==
  /\ pc = "send"
  /\ LET p == [packet EXCEPT !.payload = Payload(new_state)]
     IN  /\ air' = lora_write(p)
         /\ packet' = inc_iv_bottom(p)
  /\ state' = new_state
  /\ last_time' = now
  /\ pc' = "arm"
  /\ UNCHANGED <<doorVars, clock, now, new_state>>

(* dormant_sleep_until: enable the interrupt for both edges, stop the       *)
(* oscillator.  Enabling clears what the GPIO block has latched so far.      *)
go_dormant ==
  /\ pc = "arm"
  /\ edge' = FALSE
  /\ pc' = "dormant"
  /\ UNCHANGED <<door, clock, watcherVars, air>>

(* A latched edge restarts the oscillator; it is acknowledged. *)
wake_up ==
  /\ pc = "dormant"
  /\ edge
  /\ edge' = FALSE
  /\ pc' = "check"
  /\ UNCHANGED <<door, clock, watcherVars, air>>

(* New batteries: everything the program and the chip remember is gone. *)
Restart ==
  /\ pc # "boot"
  /\ edge' = FALSE
  /\ clock' = 0
  /\ pc' = "boot"
  /\ packet' = ZeroPacket
  /\ state' = "nullopt"
  /\ last_time' = 0
  /\ now' = 0
  /\ new_state' = "Open"
  /\ UNCHANGED <<door, air>>

Program ==
  init_encryption \/ check_door \/ send_message \/ go_dormant \/ wake_up

Next == MoveDoor \/ Tick \/ init_lora_failed \/ Program \/ Restart

Spec == Init /\ [][Next]_vars

(* The processor runs, and a latched edge restarts its oscillator; neither *)
(* the door nor the clock owes anything.                                    *)
FairSpec == Spec /\ WF_vars(Program)

-----------------------------------------------------------------------------
(***************************************************************************)
(* The state the program takes for told is the one its last frame tells,   *)
(* whatever the door did while the frame was on the air: check_door        *)
(* compares the next reading with it (main.cpp:124).                       *)
(***************************************************************************)
BelievesWhatItSent ==
  state # "nullopt" =>
    /\ air # NoFrame
    /\ air.payload.text = Message(state)

(***************************************************************************)
(* While the sender sleeps with nothing to wake it, the door is where the  *)
(* last message said (README.md "it wakes up when the magnetic switch      *)
(* changes, sends an open_/close message").                                *)
(***************************************************************************)
SleepsInformed == pc = "dormant" /\ ~ edge => state = door

(***************************************************************************)
(* A position of the door that the loop is about to read, or that comes    *)
(* with an edge that ends the dormancy, is told, unless the door moves on  *)
(* first or the batteries are changed.                                     *)
(***************************************************************************)
PositionTold ==
  \A d \in DoorState :
    (door = d /\ (pc = "check" \/ (pc = "dormant" /\ edge)))
      ~> (state = d \/ door # d \/ pc = "boot")

(***************************************************************************)
(* Every message moves the counter on by one, byte by byte as a 64-bit     *)
(* number would, wraps at its end and never carries into the upper half    *)
(* (README.md "A 8 byte counter that is incremented at every message";     *)
(* common.cpp:30-37).                                                      *)
(***************************************************************************)
CountsMessages ==
  [][pc = "send" /\ pc' = "arm" =>
       /\ iv_bottom(packet') = (iv_bottom(packet) + 1) % Base8
       /\ \A i \in 0 .. 7 : packet'.iv[i] = packet.iv[i]]_vars

(***************************************************************************)
(* What parse_packet misreads, exactly: a receiver gets the vector of the  *)
(* next message right if and only if bytes 12 and 13 of it agree, which is *)
(* so for the first Base2 messages and then for one in Base only           *)
(* (common.cpp:59-61).                                                     *)
(***************************************************************************)
MisreadFrom ==
  LET sent == [packet EXCEPT !.payload = Encrypt("close", packet.iv)]
      count == iv_bottom(packet)
  IN  parse_packet(lora_write(sent)).iv = packet.iv
        <=> (count \div Base2) % Base = (count \div (Base2 * Base)) % Base
=============================================================================
