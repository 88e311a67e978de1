--------------------------- MODULE GarageLinkProofs --------------------------
(***************************************************************************)
(* Theorems about the sender, the air and the receiver together.  They     *)
(* take what is proved of each end from the module of its proofs, by       *)
(* INSTANCE; the first section shows that both instances of an end are     *)
(* the same specification.                                                 *)
(***************************************************************************)
EXTENDS GarageLink, TLAPS

DWP == INSTANCE DoorWatcherProofs
WDP == INSTANCE WatchDogProofs WITH Frames <- Frame

-----------------------------------------------------------------------------
(* The instances share the definitions of LoRaPacket. *)
LEMMA SameData ==
  /\ DW!Frame = Frame /\ DWP!Frame = Frame
  /\ WD!Frame = Frame /\ WDP!Frame = Frame
  /\ DW!Packet = Packet /\ DWP!Packet = Packet
  /\ DWP!Byte = Byte
  /\ WD!IV = IV /\ WDP!IV = IV
<1>1. DW!Frame = Frame /\ DWP!Frame = Frame /\ WD!Frame = Frame /\ WDP!Frame = Frame
  BY DEF Frame, Cipher, Text, DoorMessage, IV, Byte, FRAMING_SIZE,
         DW!Frame, DW!Cipher, DW!Text, DW!DoorMessage, DW!IV, DW!Byte,
         DW!FRAMING_SIZE,
         DWP!Frame, DWP!Cipher, DWP!Text, DWP!DoorMessage, DWP!IV, DWP!Byte,
         DWP!FRAMING_SIZE,
         WD!Frame, WD!Cipher, WD!Text, WD!DoorMessage, WD!IV, WD!Byte,
         WD!FRAMING_SIZE,
         WDP!Frame, WDP!Cipher, WDP!Text, WDP!DoorMessage, WDP!IV, WDP!Byte,
         WDP!FRAMING_SIZE
<1>2. DW!Packet = Packet /\ DWP!Packet = Packet
  BY DEF Packet, Cipher, Text, DoorMessage, IV, Byte, MESSAGE_HEADER,
         DW!Packet, DW!Cipher, DW!Text, DW!DoorMessage, DW!IV, DW!Byte,
         DW!MESSAGE_HEADER,
         DWP!Packet, DWP!Cipher, DWP!Text, DWP!DoorMessage, DWP!IV, DWP!Byte,
         DWP!MESSAGE_HEADER
<1>3. WD!IV = IV /\ WDP!IV = IV /\ DWP!Byte = Byte
  BY DEF IV, Byte, WD!IV, WD!Byte, WDP!IV, WDP!Byte, DWP!Byte
<1> QED
  BY <1>1, <1>2, <1>3

(* The sender of the link is the sender of DoorWatcherProofs. *)
LEMMA SameSender ==
  /\ DW!TypeOK <=> DWP!TypeOK
  /\ DW!Init <=> DWP!Init
  /\ DW!Next <=> DWP!Next
  /\ DW!send_message <=> DWP!send_message
<1>1. DW!TypeOK <=> DWP!TypeOK
  BY SameData DEF DW!TypeOK, DWP!TypeOK, DW!DoorState, DWP!DoorState
<1>2. DW!Init <=> DWP!Init
  BY DEF DW!Init, DWP!Init, DW!DoorState, DWP!DoorState, DW!ZeroPacket,
         DWP!ZeroPacket, DW!MESSAGE_HEADER, DWP!MESSAGE_HEADER
<1>3. DW!send_message <=> DWP!send_message
  BY DEF DW!send_message, DW!Payload, DW!doorVars, DW!Message, DW!Encrypt, DW!lora_write,
         DW!FRAMING_SIZE, DW!inc_iv_bottom, DW!iv_bottom, DW!to,
         DWP!send_message, DWP!Payload, DWP!doorVars, DWP!Message, DWP!Encrypt,
         DWP!lora_write, DWP!FRAMING_SIZE, DWP!inc_iv_bottom, DWP!iv_bottom,
         DWP!to
<1>4. DW!Next <=> DWP!Next
  BY <1>3
  DEF DW!Next, DW!Program, DW!MoveDoor, DW!Tick, DW!init_lora_failed,
      DW!init_encryption, DW!check_door, DW!Due, DW!go_dormant, DW!wake_up,
      DW!Restart, DW!doorVars, DW!watcherVars, DW!ZeroPacket,
      DW!MESSAGE_HEADER,
      DWP!Next, DWP!Program, DWP!MoveDoor, DWP!Tick, DWP!init_lora_failed,
      DWP!init_encryption, DWP!check_door, DWP!Due, DWP!go_dormant, DWP!wake_up,
      DWP!Restart, DWP!doorVars, DWP!watcherVars, DWP!ZeroPacket,
      DWP!MESSAGE_HEADER
<1> QED
  BY <1>1, <1>2, <1>3, <1>4

(* The receiver of the link is the receiver of WatchDogProofs. *)
LEMMA SameReceiver ==
  /\ WD!TypeOK <=> WDP!TypeOK
  /\ WD!Init <=> WDP!Init
  /\ WD!Next <=> WDP!Next
<1>1. WD!TypeOK <=> WDP!TypeOK
  BY SameData
  DEF WD!TypeOK, WD!IvTopBottom, WD!LogEntry, WD!Action, WD!DoorAction,
      WDP!TypeOK, WDP!IvTopBottom, WDP!LogEntry, WDP!Action, WDP!DoorAction
<1>2. WD!Init <=> WDP!Init
  BY DEF WD!Init, WDP!Init
<1>3. WD!watch <=> WDP!watch
  BY DEF WD!watch, WD!parsePacket, WD!Carries, WD!get_action, WD!Decrypt, WD!handle_packet,
         WD!Newer, WD!action_handler, WD!iv_top, WD!iv_bottom, WD!to, WD!IsPacket,
         WD!parse_packet, WD!SourceByte, WD!FRAMING_SIZE, WD!MESSAGE_HEADER,
         WDP!watch, WDP!parsePacket, WDP!Carries, WDP!get_action, WDP!Decrypt,
         WDP!handle_packet, WDP!Newer, WDP!action_handler, WDP!iv_top, WDP!iv_bottom,
         WDP!to, WDP!IsPacket, WDP!parse_packet, WDP!SourceByte,
         WDP!FRAMING_SIZE, WDP!MESSAGE_HEADER
<1>4. WD!Next <=> WDP!Next
  BY <1>3
  DEF WD!Next, WD!Start, WD!Restart, WD!Hear, WD!receive_times_out,
      WDP!Next, WDP!Start, WDP!Restart, WDP!Hear, WDP!receive_times_out
<1> QED
  BY <1>1, <1>2, <1>4

(* What the assumptions of both ends say of the constants of the link. *)
LEMMA EndsAssumptions ==
  DWP!BaseAssumption /\ DWP!WatcherAssumption
  /\ WDP!BaseAssumption /\ WDP!WatchDogAssumption
<1>1. DWP!Cipher = Cipher /\ WDP!Cipher = Cipher
  BY DEF Cipher, Text, DoorMessage, IV, Byte,
         DWP!Cipher, DWP!Text, DWP!DoorMessage, DWP!IV, DWP!Byte,
         WDP!Cipher, WDP!Text, WDP!DoorMessage, WDP!IV, WDP!Byte
<1> QED
  BY <1>1, BaseAssumption, LinkAssumption, SameData
  DEF DWP!BaseAssumption, DWP!WatcherAssumption, WDP!BaseAssumption,
      WDP!WatchDogAssumption, WDP!IvTopBottom

-----------------------------------------------------------------------------
(* Every step of the link is a step of the sender or one of the receiver.   *)
LEMMA Steps ==
  ASSUME TypeOK, [Next]_vars
  PROVE  /\ DW!Next \/ UNCHANGED dwVars
         /\ WD!Next \/ UNCHANGED wdVars
         /\ \/ UNCHANGED <<sent, used>>
            \/ SenderStarts
            \/ SenderSends
<1>1. CASE SenderStarts
  BY <1>1 DEF SenderStarts, DW!Next, DW!Program
<1>2. CASE SenderSends
  BY <1>2 DEF SenderSends, DW!Next, DW!Program
<1>3. CASE SenderOther
  BY <1>3 DEF SenderOther, DW!Next, DW!Program
<1>4. ASSUME NEW i \in DOMAIN sent, Hear(i)
      PROVE  WD!Next /\ UNCHANGED <<dwVars, sent, used>>
  <2>1. sent[i] \in SentMessage
    BY DEF TypeOK
  <2>2. sent[i].frame \in Frame
    BY <2>1 DEF SentMessage
  <2> QED
    BY <1>4, <2>2 DEF Hear, WD!Next
<1>5. CASE HearForeign
  BY <1>5, LinkAssumption, SameData DEF HearForeign, WD!Next
<1>6. CASE \/ ReceiverWatches \/ ReceiverStarts \/ ReceiverRestarts
           \/ ReceiveTimesOut
  BY <1>6
  DEF ReceiverWatches, ReceiverStarts, ReceiverRestarts, ReceiveTimesOut, WD!Next
<1>7. CASE UNCHANGED vars
  BY <1>7 DEF vars, dwVars, wdVars
<1> QED
  BY <1>1, <1>2, <1>3, <1>4, <1>5, <1>6, <1>7 DEF Next

(* The types of both ends are kept, by the theorems about each of them.     *)
LEMMA EndsTypeStep ==
  ASSUME TypeOK, [Next]_vars
  PROVE  DW!TypeOK' /\ WD!TypeOK'
<1>1. DWP!TypeOK /\ WDP!TypeOK
  BY SameSender, SameReceiver DEF TypeOK
<1>2. DW!TypeOK'
  <2>1. CASE DW!Next
    <3>1. DWP!TypeOK'
      BY <1>1, <2>1, SameSender, EndsAssumptions, DWP!TypeStep
    <3> QED
      BY <3>1, SameData DEF DW!TypeOK, DWP!TypeOK, DW!DoorState, DWP!DoorState
  <2>2. CASE UNCHANGED dwVars
    BY <2>2 DEF TypeOK, DW!TypeOK, dwVars
  <2> QED
    BY <2>1, <2>2, Steps
<1>3. WD!TypeOK'
  <2>1. CASE WD!Next
    <3>1. WDP!TypeOK'
      BY <1>1, <2>1, SameReceiver, EndsAssumptions, WDP!TypeStep
    <3> QED
      BY <3>1, SameData
      DEF WD!TypeOK, WD!IvTopBottom, WD!LogEntry, WD!Action, WD!DoorAction,
          WDP!TypeOK, WDP!IvTopBottom, WDP!LogEntry, WDP!Action,
          WDP!DoorAction
  <2>2. CASE UNCHANGED wdVars
    BY <2>2 DEF TypeOK, WD!TypeOK, wdVars
  <2> QED
    BY <2>1, <2>2, Steps
<1> QED
  BY <1>2, <1>3

(* What SenderSends records of a message (main.cpp:99-111).                 *)
LEMMA Recorded ==
  ASSUME TypeOK, SenderSends
  PROVE  \E m \in SentMessage :
           /\ sent' = Append(sent, m)
           /\ m.state = new_state
           /\ m.iv = packet.iv
           /\ m.frame = air'
           /\ m.frame = Sealed(m)
<1> DEFINE m == [frame |-> air', iv |-> packet.iv, state |-> new_state]
<1>1. DW!send_message /\ sent' = Append(sent, m)
  BY DEF SenderSends
<1>2. air' \in Frame
  BY <1>1, SameData, SameSender, EndsAssumptions, DWP!SentFrame DEF TypeOK
<1>3. packet \in Packet /\ new_state \in DW!DoorState
  BY SameData DEF TypeOK, DW!TypeOK
<1>4. m \in SentMessage
  BY <1>2, <1>3 DEF SentMessage, Packet
<1>5. air' = Sealed(m)
  <2> DEFINE c == Encrypt(DW!Message(new_state), packet.iv)
             p == [packet EXCEPT !.payload = c]
  <2>1. air' = lora_write(p)
    BY <1>1 DEF DW!send_message, DW!Payload, DW!Encrypt, Encrypt, DW!lora_write,
                lora_write, DW!FRAMING_SIZE, FRAMING_SIZE
  <2>2. p = [header |-> MESSAGE_HEADER, iv |-> packet.iv, payload |-> c]
    BY <1>3 DEF Packet
  <2>3. m.iv = packet.iv /\ m.state = new_state
    OBVIOUS
  <2> HIDE DEF p, m
  <2> QED
    BY <2>1, <2>2, <2>3 DEF Sealed
<1> QED
  BY <1>1, <1>4, <1>5

(* The origin of an entry is a message or 0; the message it is, if it is    *)
(* the only one with its vector.                                            *)
LEMMA Origins ==
  ASSUME sent \in Seq(SentMessage), NEW entry
  PROVE  /\ Origin(entry) \in 0 .. Len(sent)
         /\ \A k \in DOMAIN sent :
              sent[k].iv = entry.iv
                => Origin(entry) \in DOMAIN sent
                   /\ sent[Origin(entry)].iv = entry.iv
<1> DEFINE P(k) == (\E l \in DOMAIN sent : sent[l].iv = entry.iv)
                     => k \in DOMAIN sent /\ sent[k].iv = entry.iv
<1>1. DOMAIN sent = 1 .. Len(sent) /\ Len(sent) \in Nat
  OBVIOUS
<1>2. \E k \in 0 .. Len(sent) : P(k)
  <2>1. CASE \E l \in DOMAIN sent : sent[l].iv = entry.iv
    BY <1>1, <2>1
  <2>2. CASE ~ \E l \in DOMAIN sent : sent[l].iv = entry.iv
    <3>1. P(0) /\ 0 \in 0 .. Len(sent)
      BY <1>1, <2>2
    <3> QED  BY <3>1
  <2> QED
    BY <2>1, <2>2
<1>3. Origin(entry) = CHOOSE k \in 0 .. Len(sent) : P(k)
  BY DEF Origin
<1>4. Origin(entry) \in 0 .. Len(sent) /\ P(Origin(entry))
  <2> HIDE DEF P
  <2> QED  BY <1>2, <1>3
<1> QED
  BY <1>4

(* What is reported, if anything, is that a message told a state. *)
LEMMA ReportStep ==
  ASSUME TypeOK, [Next]_vars
  PROVE  reported' \in Seq([message : Nat, state : DW!DoorState])
<1>1. CASE UNCHANGED reported
  BY <1>1 DEF TypeOK, DW!DoorState
<1>2. CASE ReceiverWatches
  <2> DEFINE entry == log'[Len(log')]
             report == [message |-> Origin(entry), state |-> Tells(entry.action)]
  <2>1. reported' = reported \/ reported' = Append(reported, report)
    BY <1>2 DEF ReceiverWatches
  <2>2. Origin(entry) \in Nat
    BY Origins DEF TypeOK
  <2>3. report \in [message : Nat, state : DW!DoorState]
    BY <2>2 DEF Tells, DW!DoorState
  <2> DEFINE R == [message : Nat, state : DW!DoorState]
  <2>4. reported \in Seq(R) /\ report \in R
    BY <2>3 DEF TypeOK
  <2> HIDE DEF report, R
  <2>5. reported' \in Seq(R)
    BY <2>1, <2>4
  <2> QED
    BY <2>5 DEF R
<1>3. CASE ReceiverRestarts
  BY <1>3 DEF ReceiverRestarts
<1> QED
  BY <1>1, <1>2, <1>3
  DEF Next, vars, SenderStarts, SenderSends, SenderOther, Hear, HearForeign,
      ReceiverStarts, ReceiveTimesOut

(* The variables of the link keep their types. *)
LEMMA TypeStep == TypeOK /\ [Next]_vars => TypeOK'
<1> SUFFICES ASSUME TypeOK, [Next]_vars PROVE TypeOK'
  OBVIOUS
<1>1. sent' \in Seq(SentMessage) /\ used' \in SUBSET Tops
  <2>1. CASE UNCHANGED <<sent, used>>
    BY <2>1 DEF TypeOK
  <2>2. CASE SenderStarts
    <3>1. sent' \in Seq(SentMessage)
      BY <2>2 DEF SenderStarts, TypeOK
    <3>2. PICK top \in Tops :
            packet' = [packet EXCEPT !.iv =
                         [i \in 0 .. 15 |-> IF i < 8 THEN top[i] ELSE @[i]]]
      BY <2>2 DEF SenderStarts, DW!init_encryption
    <3>3. packet \in Packet
      BY SameData DEF TypeOK, DW!TypeOK
    <3>4. packet'.iv = [i \in 0 .. 15 |-> IF i < 8 THEN top[i] ELSE packet.iv[i]]
      BY <3>2, <3>3 DEF Packet
    <3>5. Drawn(packet'.iv) = top
      BY <3>4, LinkAssumption DEF Drawn
    <3>7. used' = used \cup {top}
      BY <2>2, <3>5 DEF SenderStarts
    <3> QED
      BY <3>1, <3>7 DEF TypeOK
  <2>3. CASE SenderSends
    <3>1. sent' \in Seq(SentMessage)
      <4>1. PICK m \in SentMessage : sent' = Append(sent, m)
        BY <2>3, Recorded, Zenon
      <4> QED
        BY <4>1 DEF TypeOK
    <3> QED
      BY <2>3, <3>1 DEF SenderSends, TypeOK
  <2> QED
    BY <2>1, <2>2, <2>3, Steps
<1> QED
  BY <1>1, EndsTypeStep, ReportStep DEF TypeOK

(* They have them before either end is started. *)
LEMMA TypeInit == Init => TypeOK
<1> SUFFICES ASSUME Init PROVE TypeOK
  OBVIOUS
<1>1. DWP!TypeOK
  BY SameSender, EndsAssumptions, DWP!TypeInit DEF Init
<1>2. WDP!TypeOK
  BY SameReceiver, EndsAssumptions, WDP!TypeInit DEF Init
<1>3. /\ sent \in Seq(SentMessage) /\ used \in SUBSET Tops
      /\ reported \in Seq([message : Nat, state : DW!DoorState])
  BY DEF Init
<1> QED
  BY <1>1, <1>2, <1>3, SameSender, SameReceiver DEF TypeOK

(* The variables of the link always have their types. *)
THEOREM TypeCorrect == Spec => []TypeOK
BY TypeInit, TypeStep, PTL DEF Spec

-----------------------------------------------------------------------------
(* A message is recorded after the ones before it, which stay. *)
LEMMA RecordsStay ==
  ASSUME TypeOK, [Next]_vars
  PROVE  \A k \in DOMAIN sent : k \in DOMAIN sent' /\ sent'[k] = sent[k]
<1>1. CASE sent' = sent
  BY <1>1
<1>2. CASE SenderSends
  <2>1. PICK m \in SentMessage : sent' = Append(sent, m)
    BY <1>2, Recorded
  <2>2. sent \in Seq(SentMessage)
    BY DEF TypeOK
  <2> QED
    BY <2>1, <2>2
<1> QED
  BY <1>1, <1>2, Steps DEF SenderStarts

(* A frame on the air goes on telling what it was made to tell. *)
LEMMA FramesTellStep ==
  ASSUME IInv, [Next]_vars
  PROVE  FramesTell'
<1> USE DEF IInv
<1>1. CASE sent' = sent
  BY <1>1 DEF FramesTell, Sealed, lora_write, DW!Message
<1>2. CASE SenderSends
  <2>1. PICK m \in SentMessage :
          /\ sent' = Append(sent, m)
          /\ m.frame = Sealed(m)
    BY <1>2, Recorded
  <2>2. sent \in Seq(SentMessage)
    BY DEF TypeOK
  <2>3. \A k \in DOMAIN sent' :
          (k \in DOMAIN sent /\ sent'[k] = sent[k]) \/ sent'[k] = m
    BY <2>1, <2>2
  <2>4. \A k \in DOMAIN sent' : sent'[k].frame = Sealed(sent'[k])
    BY <2>1, <2>3 DEF FramesTell
  <2> QED
    BY <2>4 DEF FramesTell, Sealed, lora_write, DW!Message
<1> QED
  BY <1>1, <1>2, Steps DEF SenderStarts

(* The radio never holds a frame nobody sent. *)
LEMMA RadioHeardStep ==
  ASSUME IInv, [Next]_vars
  PROVE  RadioHeard'
<1> USE DEF IInv
<1>1. CASE radio' = radio
  BY <1>1, RecordsStay DEF RadioHeard
<1>2. CASE radio' = NoFrame
  BY <1>2 DEF RadioHeard
<1>3. ASSUME NEW i \in DOMAIN sent, Hear(i) PROVE RadioHeard'
  BY <1>3, RecordsStay DEF Hear, WD!Hear, RadioHeard
<1>4. CASE HearForeign
  BY <1>4 DEF HearForeign, WD!Hear, RadioHeard
<1>5. CASE \/ SenderStarts \/ SenderSends \/ SenderOther \/ ReceiverStarts
           \/ ReceiveTimesOut
  BY <1>1, <1>5
  DEF SenderStarts, SenderSends, SenderOther, ReceiverStarts, WD!Start,
      ReceiveTimesOut, WD!receive_times_out, wdVars
<1>6. CASE ReceiverWatches \/ ReceiverRestarts
  BY <1>2, <1>6
  DEF ReceiverWatches, ReceiverRestarts, WD!watch, WD!parsePacket, WD!Restart
<1> QED
  BY <1>1, <1>3, <1>4, <1>5, <1>6 DEF Next, vars, wdVars

(***************************************************************************)
(* A frame that decrypts to a door message is a frame of the sender, and   *)
(* parse_packet has read its vector right: a vector misread by a byte      *)
(* (common.cpp:59-61) gives another key stream.                            *)
(***************************************************************************)
LEMMA CarriedMessage ==
  ASSUME IInv, WD!watch, WD!Carries(radio) # "nullopt"
  PROVE  \E k \in DOMAIN sent :
           /\ sent[k].iv = WD!parse_packet(radio).iv
           /\ sent[k].state = Tells(WD!Carries(radio))
<1> DEFINE p == WD!parse_packet(radio)
           text == WD!Decrypt(p.payload, p.iv)
<1>1. /\ radio # NoFrame
      /\ WD!IsPacket(radio) /\ WD!Carries(radio) = WD!get_action(text)
  BY DEF WD!Carries
<1>2. text \in DoorMessage
  BY <1>1 DEF WD!get_action, DoorMessage
<1>3. p.payload = radio.payload
  BY DEF WD!parse_packet
<1>4. radio.payload.iv = p.iv /\ radio.payload.text = text
  BY <1>2, <1>3 DEF WD!Decrypt, DoorMessage
<1>5. radio \notin Foreign
  <2>1. IsPacket(radio)
    BY <1>1 DEF IsPacket, FRAMING_SIZE, WD!IsPacket, WD!FRAMING_SIZE
  <2> QED
    BY <1>2, <1>4, <2>1, LinkAssumption
<1>6. PICK k \in DOMAIN sent : radio = sent[k].frame
  BY <1>1, <1>5 DEF IInv, RadioHeard
<1>7. radio.payload = Encrypt(DW!Message(sent[k].state), sent[k].iv)
  <2>1. \A m : Sealed(m).payload = Encrypt(DW!Message(m.state), m.iv)
    BY DEF Sealed, lora_write
  <2> QED
    BY <1>6, <2>1 DEF IInv, FramesTell
<1>8. sent[k].state \in {"Open", "Close"}
  <2>1. sent[k] \in SentMessage
    BY DEF IInv, TypeOK
  <2> QED
    BY <2>1 DEF SentMessage, DW!DoorState
<1>9. sent[k].iv = p.iv /\ text = DW!Message(sent[k].state)
  BY <1>4, <1>7 DEF Encrypt
<1>10. sent[k].state = Tells(WD!Carries(radio))
  BY <1>1, <1>8, <1>9 DEF DW!Message, WD!get_action, Tells
<1> QED
  BY <1>9, <1>10

(* handle_packet (main.cpp:239-269) reports what the frame it reads tells. *)
LEMMA ReportedWasSentStep ==
  ASSUME IInv, [Next]_vars
  PROVE  ReportedWasSent'
<1> USE DEF IInv
<1> DEFINE Told(e) == \E k \in DOMAIN sent : /\ sent[k].iv = e.iv
                                             /\ sent[k].state = Tells(e.action)
<1>1. \A e : Told(e) => Told(e)'
  BY RecordsStay DEF Tells
<1>2. CASE log' = log
  BY <1>1, <1>2 DEF ReportedWasSent, WD!Genuine
<1>3. CASE log' = <<>>
  <2>1. DOMAIN log' = {}
    BY <1>3
  <2> QED
    BY <2>1 DEF ReportedWasSent
<1>4. CASE ReceiverWatches /\ WD!Carries(radio) # "nullopt"
  <2> DEFINE p == WD!parse_packet(radio)
             action == WD!Carries(radio)
  <2>1. PICK a \in {action, "IvTopMismatch", "IvBottomOld"} :
          log' = Append(log, [action |-> a, iv |-> p.iv])
    BY <1>4 DEF ReceiverWatches, WD!watch, WD!handle_packet, WD!action_handler
  <2>2. sent' = sent
    BY <1>4 DEF ReceiverWatches
  <2>3. PICK k \in DOMAIN sent :
          sent[k].iv = p.iv /\ sent[k].state = Tells(action)
    BY <1>4, CarriedMessage DEF ReceiverWatches
  <2> HIDE DEF p, action
  <2> DEFINE e == [action |-> a, iv |-> p.iv]
  <2>4. a \in WD!DoorAction => Told(e)
    BY <2>3 DEF WD!DoorAction
  <2>5. log \in Seq(WD!LogEntry)
    BY DEF TypeOK, WD!TypeOK
  <2>6. \A i \in DOMAIN log' :
          (i \in DOMAIN log /\ log'[i] = log[i]) \/ log'[i] = e
    BY <2>1, <2>5
  <2>7. \A i \in DOMAIN log' : log'[i].action \in WD!DoorAction => Told(log'[i])
    BY <2>4, <2>6 DEF ReportedWasSent, WD!Genuine
  <2> QED
    BY <2>2, <2>7 DEF ReportedWasSent, WD!Genuine, WD!DoorAction, Tells
<1>5. CASE ReceiverWatches /\ WD!Carries(radio) = "nullopt"
  BY <1>2, <1>5 DEF ReceiverWatches, WD!watch
<1>6. CASE UNCHANGED wdVars \/ ReceiverStarts \/ ReceiveTimesOut
  BY <1>2, <1>6
  DEF wdVars, ReceiverStarts, WD!Start, ReceiveTimesOut, WD!receive_times_out
<1>7. ASSUME NEW frame, WD!Hear(frame) PROVE ReportedWasSent'
  BY <1>2, <1>7 DEF WD!Hear
<1>8. CASE ReceiverRestarts
  BY <1>3, <1>8 DEF ReceiverRestarts, WD!Restart
<1> QED
  BY <1>4, <1>5, <1>6, <1>7, <1>8
  DEF Next, vars, SenderStarts, SenderSends, SenderOther, Hear, HearForeign

(* What the frames on the air, the radio and the reports are, always. *)
LEMMA WellFramed == Spec => []IInv
<1>1. Init => IInv
  <2>1. Init => sent = <<>> /\ log = <<>> /\ DOMAIN sent = {} /\ DOMAIN log = {}
                /\ radio = NoFrame
    BY DEF Init, WD!Init
  <2>2. Init => FramesTell /\ RadioHeard /\ ReportedWasSent
    BY <2>1 DEF FramesTell, RadioHeard, ReportedWasSent
  <2> QED
    BY <2>2, TypeInit DEF IInv
<1>2. IInv /\ [Next]_vars => IInv'
  BY TypeStep, FramesTellStep, RadioHeardStep, ReportedWasSentStep DEF IInv
<1> QED
  BY <1>1, <1>2, PTL DEF Spec

(***************************************************************************)
(* Whatever is on the air, every door action the receiver reports is the   *)
(* state some message of the sender told, with the vector it was sent      *)
(* with, although parse_packet misreads one byte of the vector             *)
(* (common.cpp:59-61, watchdog/main.cpp:239-269).                          *)
(***************************************************************************)
THEOREM ReportsWereSent == Spec => []ReportedWasSent
<1>1. IInv => ReportedWasSent
  BY DEF IInv
<1> QED
  BY <1>1, WellFramed, PTL

-----------------------------------------------------------------------------
(* The steps that move the vector of the sender on. *)
LEMMA VectorSteps ==
  ASSUME TypeOK, [Next]_vars
  PROVE  \/ UNCHANGED <<packet, sent, used>> /\ (Running' => Running)
         \/ SenderStarts
         \/ SenderSends
         \/ /\ packet' = DW!ZeroPacket /\ ~ Running'
            /\ UNCHANGED <<sent, used>>
<1>1. CASE UNCHANGED <<dwVars, sent, used>>
  BY <1>1 DEF dwVars, Running
<1>2. CASE SenderOther
  BY <1>2 DEF SenderOther, DW!MoveDoor, DW!Tick, DW!init_lora_failed,
              DW!check_door, DW!go_dormant, DW!wake_up, DW!Restart,
              DW!watcherVars, Running
<1> QED
  BY <1>1, <1>2
  DEF Next, vars, Hear, HearForeign, ReceiveTimesOut, ReceiverWatches,
      ReceiverStarts, ReceiverRestarts

(* A start of the sender takes the half it drew. *)
LEMMA StartDraws ==
  ASSUME TypeOK, SenderStarts
  PROVE  /\ Drawn(packet'.iv) \notin used
         /\ used' = used \cup {Drawn(packet'.iv)}
         /\ iv_bottom(packet') = iv_bottom(packet)
         /\ sent' = sent
<1>1. PICK top \in Tops :
        packet' = [packet EXCEPT !.iv =
                     [i \in 0 .. 15 |-> IF i < 8 THEN top[i] ELSE @[i]]]
  BY DEF SenderStarts, DW!init_encryption
<1>2. packet \in Packet
  BY SameData DEF TypeOK, DW!TypeOK
<1>3. packet'.iv = [i \in 0 .. 15 |-> IF i < 8 THEN top[i] ELSE packet.iv[i]]
  BY <1>1, <1>2 DEF Packet
<1>4. iv_bottom(packet') = iv_bottom(packet)
  BY <1>3 DEF iv_bottom, to
<1> QED
  BY <1>4 DEF SenderStarts

(* The halves of a message's vector are numbers. *)
LEMMA HalvesOfMessages ==
  ASSUME NEW m \in SentMessage
  PROVE  m.iv \in IV /\ iv_top(m) \in Nat /\ iv_bottom(m) \in Nat
<1>1. m.iv \in IV
  BY DEF SentMessage
<1>2. m.iv \in DWP!IV
  BY <1>1 DEF IV, Byte, DWP!IV, DWP!Byte
<1>3. DWP!iv_top(m) \in Nat /\ DWP!iv_bottom(m) \in Nat
  BY <1>2, EndsAssumptions, DWP!HalvesAreNumbers
<1> QED
  BY <1>1, <1>3
  DEF iv_top, iv_bottom, to, DWP!iv_top, DWP!iv_bottom, DWP!to

(* Messages whose upper halves are the same number are of one start. *)
LEMMA SameStart ==
  ASSUME NEW m \in SentMessage, NEW n \in SentMessage, iv_top(m) = iv_top(n)
  PROVE  Drawn(m.iv) = Drawn(n.iv)
<1>1. m.iv \in DWP!IV /\ n.iv \in DWP!IV
  BY DEF SentMessage, IV, Byte, DWP!IV, DWP!Byte
<1>2. DWP!to(m.iv, 0) = DWP!to(n.iv, 0)
  BY DEF iv_top, to, DWP!to
<1>3. \A i \in 0 .. 7 : m.iv[i] = n.iv[i]
  BY <1>1, <1>2, EndsAssumptions, DWP!EqualBytes
<1> QED
  BY <1>3 DEF Drawn

(* A message carries the vector of the packet, which then counts on.        *)
LEMMA SendCounts ==
  ASSUME TypeOK, SenderSends, MaxSent < Base8, iv_bottom(packet) <= Len(sent)
  PROVE  \E m \in SentMessage :
           /\ sent' = Append(sent, m)
           /\ m.iv = packet.iv /\ m.state = new_state
           /\ Drawn(packet'.iv) = Drawn(m.iv)
           /\ iv_bottom(packet') = iv_bottom(m) + 1
           /\ iv_bottom(m) \in Nat
           /\ Running /\ used' = used
<1>1. PICK m \in SentMessage :
        sent' = Append(sent, m) /\ m.iv = packet.iv /\ m.state = new_state
  BY Recorded
<1>2. packet \in Packet
  BY SameData DEF TypeOK, DW!TypeOK
<1> DEFINE p == [packet EXCEPT !.payload = DW!Payload(new_state)]
<1>3. packet' = DWP!inc_iv_bottom(p)
  BY DEF SenderSends, DW!send_message, DW!inc_iv_bottom, DW!iv_bottom, DW!to,
         DWP!inc_iv_bottom, DWP!iv_bottom, DWP!to
<1>4. p \in DWP!Packet /\ p.iv = packet.iv
  <2>1. DW!Payload(new_state) \in Cipher
    BY <1>2 DEF TypeOK, DW!TypeOK, DW!Payload, DW!Encrypt, DW!Message,
                DW!DoorState, Cipher, Text, DoorMessage, Packet
  <2> QED
    BY <1>2, <2>1, SameData DEF Packet
<1> HIDE DEF p
<1>5. /\ DWP!iv_bottom(packet') = (DWP!iv_bottom(p) + 1) % DWP!Base8
      /\ \A i \in 0 .. 7 : packet'.iv[i] = p.iv[i]
  BY <1>3, <1>4, EndsAssumptions, DWP!CountsUp
<1>6. Drawn(packet'.iv) = Drawn(m.iv)
  BY <1>1, <1>4, <1>5 DEF Drawn
<1>7. iv_bottom(packet') = (iv_bottom(m) + 1) % Base8
  BY <1>1, <1>4, <1>5
  DEF iv_bottom, to, Base8, Base2, DWP!iv_bottom, DWP!to, DWP!Base8, DWP!Base2
<1>8. iv_bottom(m) \in Nat /\ iv_bottom(m) <= Len(sent)
  BY <1>1, HalvesOfMessages DEF iv_bottom
<1>9. iv_bottom(packet') = iv_bottom(m) + 1
  <2>1. Len(sent) < MaxSent /\ Len(sent) \in Nat
    BY DEF SenderSends, TypeOK
  <2>2. iv_bottom(m) + 1 < Base8 /\ Base8 \in Nat
    <3>1. Base8 \in Nat
      <4>1. \A b \in Nat : b * b \in Nat
        OBVIOUS
      <4>2. Base2 \in Nat
        BY <4>1, BaseAssumption DEF Base2
      <4> QED
        BY <4>1, <4>2 DEF Base8
    <3> QED
      BY <1>8, <2>1, <3>1, LinkAssumption
  <2>3. \A n, b \in Nat : n < b => n % b = n
    OBVIOUS
  <2> QED
    BY <1>7, <1>8, <2>2, <2>3
<1>10. Running /\ used' = used
  BY DEF SenderSends, DW!send_message, Running
<1> QED
  BY <1>1, <1>6, <1>8, <1>9, <1>10

(* The counters of each start of the sender go on rising. *)
LEMMA CountersRiseStep ==
  ASSUME TypeOK, CountersRise, [Next]_vars, MaxSent < Base8
  PROVE  CountersRise'
<1>1. sent \in Seq(SentMessage) /\ Len(sent) \in Nat /\ DOMAIN sent = 1 .. Len(sent)
  BY DEF TypeOK
<1>2. CASE UNCHANGED <<packet, sent, used>> /\ (Running' => Running)
  BY <1>2 DEF CountersRise, OfThisStart, Drawn, iv_bottom, to
<1>3. CASE SenderStarts
  <2>1. /\ Drawn(packet'.iv) \notin used
        /\ used' = used \cup {Drawn(packet'.iv)}
        /\ iv_bottom(packet') = iv_bottom(packet)
        /\ sent' = sent
    BY <1>3, StartDraws
  <2> QED
    BY <2>1 DEF CountersRise, OfThisStart
<1>4. CASE SenderSends
  <2>1. iv_bottom(packet) <= Len(sent)
    BY DEF CountersRise
  <2>2. PICK m \in SentMessage :
          /\ sent' = Append(sent, m)
          /\ m.iv = packet.iv
          /\ Drawn(packet'.iv) = Drawn(m.iv)
          /\ iv_bottom(packet') = iv_bottom(m) + 1
          /\ iv_bottom(m) \in Nat
          /\ Running /\ used' = used
    BY <1>4, <2>1, SendCounts
  <2>3. /\ Len(sent') = Len(sent) + 1 /\ DOMAIN sent' = 1 .. Len(sent) + 1
        /\ sent'[Len(sent) + 1] = m
        /\ \A k \in DOMAIN sent : sent'[k] = sent[k]
    BY <1>1, <2>2
  <2>4. iv_bottom(m) = iv_bottom(packet)
    BY <2>2 DEF iv_bottom
  <2>5. \A k \in DOMAIN sent :
          /\ Drawn(sent[k].iv) \in used
          /\ Drawn(sent[k].iv) = Drawn(m.iv) => iv_bottom(sent[k]) < iv_bottom(m)
          /\ iv_bottom(sent[k]) \in Nat
    <3>1. \A k \in DOMAIN sent : iv_bottom(sent[k]) \in Nat
      BY <1>1, HalvesOfMessages
    <3> QED
      BY <2>2, <2>4, <3>1 DEF CountersRise, OfThisStart
  <2>6. Drawn(m.iv) \in used
    BY <2>2 DEF CountersRise
  <2>7. iv_bottom(packet') <= Len(sent')
    BY <1>1, <2>1, <2>2, <2>3, <2>4
  <2>8. \A k \in DOMAIN sent' :
          /\ Drawn(sent'[k].iv) \in used
          /\ Drawn(sent'[k].iv) = Drawn(packet'.iv)
               => iv_bottom(sent'[k]) < iv_bottom(packet')
    BY <1>1, <2>2, <2>3, <2>5, <2>6
  <2>9. \A k, l \in DOMAIN sent' :
          k < l /\ Drawn(sent'[k].iv) = Drawn(sent'[l].iv)
            => iv_bottom(sent'[k]) < iv_bottom(sent'[l])
    <3> SUFFICES ASSUME NEW k \in DOMAIN sent', NEW l \in DOMAIN sent', k < l,
                        Drawn(sent'[k].iv) = Drawn(sent'[l].iv)
                 PROVE  iv_bottom(sent'[k]) < iv_bottom(sent'[l])
      OBVIOUS
    <3>1. k \in DOMAIN sent
      BY <1>1, <2>3
    <3>2. CASE l \in DOMAIN sent
      BY <2>3, <3>1, <3>2 DEF CountersRise
    <3>3. CASE l = Len(sent) + 1
      BY <2>3, <2>5, <3>1, <3>3
    <3> QED
      BY <1>1, <2>3, <3>2, <3>3
  <2> QED
    BY <2>2, <2>6, <2>7, <2>8, <2>9 DEF CountersRise, OfThisStart
<1>5. CASE packet' = DW!ZeroPacket /\ ~ Running' /\ UNCHANGED <<sent, used>>
  <2>1. iv_bottom(packet') = 0
    <3>1. \A i \in 8 .. 15 : packet'.iv[i] = 0
      BY <1>5 DEF DW!ZeroPacket
    <3>2. Base * 0 = 0
      BY BaseAssumption
    <3> QED
      BY <3>1, <3>2 DEF iv_bottom, to
  <2> QED
    BY <1>1, <1>5, <2>1 DEF CountersRise
<1> QED
  BY <1>2, <1>3, <1>4, <1>5, VectorSteps

(* So no two messages have the same vector. *)
LEMMA VectorsDiffer ==
  ASSUME TypeOK, CountersRise
  PROVE  IvUsedOnce
<1> SUFFICES ASSUME NEW k \in DOMAIN sent, NEW l \in DOMAIN sent, k < l
             PROVE  sent[k].iv # sent[l].iv
  <2>1. DOMAIN sent \subseteq Nat
    BY DEF TypeOK
  <2> QED
    BY <2>1 DEF IvUsedOnce
<1>1. Drawn(sent[k].iv) = Drawn(sent[l].iv) => iv_bottom(sent[k]) < iv_bottom(sent[l])
  BY DEF CountersRise
<1>2. sent[k].iv = sent[l].iv => iv_bottom(sent[k]) = iv_bottom(sent[l])
  BY DEF iv_bottom
<1>3. iv_bottom(sent[k]) \in Nat
  BY HalvesOfMessages DEF TypeOK
<1> QED
  BY <1>1, <1>2, <1>3

(* Nothing is sent at first. *)
LEMMA CountersRiseInit == Init => CountersRise
<1> SUFFICES ASSUME Init PROVE CountersRise
  OBVIOUS
<1>1. sent = <<>> /\ ~ Running /\ packet = DW!ZeroPacket
  BY DEF Init, DW!Init, Running
<1>2. iv_bottom(packet) = 0
  <2>1. \A i \in 8 .. 15 : packet.iv[i] = 0
    BY <1>1 DEF DW!ZeroPacket
  <2>2. Base * 0 = 0
    BY BaseAssumption
  <2> QED
    BY <2>1, <2>2 DEF iv_bottom, to
<1> QED
  BY <1>1, <1>2 DEF CountersRise

(***************************************************************************)
(* A vector, and so a key stream, is used for one message only, over all   *)
(* starts of the sender, as long as fewer messages are sent than a counter *)
(* of eight bytes can tell apart and no start draws a half drawn before    *)
(* (doorwatcher/main.cpp:99-111, common.cpp:75-87).                        *)
(***************************************************************************)
THEOREM VectorsAreUsedOnce ==
  ASSUME MaxSent < Base8
  PROVE  Spec => []IvUsedOnce
<1>1. TypeOK /\ CountersRise /\ [Next]_vars => CountersRise'
  BY CountersRiseStep
<1>2. TypeOK /\ CountersRise => IvUsedOnce
  BY VectorsDiffer
<1> QED
  BY <1>1, <1>2, CountersRiseInit, TypeCorrect, PTL DEF Spec
-----------------------------------------------------------------------------
(* The sender does not go back to an earlier start. *)
LEMMA NeverGoesBackStep ==
  ASSUME TypeOK, CountersRise, NeverGoesBack, [Next]_vars, MaxSent < Base8
  PROVE  NeverGoesBack'
<1>1. sent \in Seq(SentMessage) /\ Len(sent) \in Nat /\ DOMAIN sent = 1 .. Len(sent)
  BY DEF TypeOK
<1>2. CASE UNCHANGED <<packet, sent, used>> /\ (Running' => Running)
  BY <1>2 DEF NeverGoesBack, OfThisStart, Drawn
<1>3. CASE SenderStarts
  <2>1. Drawn(packet'.iv) \notin used /\ sent' = sent
    BY <1>3, StartDraws
  <2> QED
    BY <2>1 DEF NeverGoesBack, OfThisStart, CountersRise
<1>4. CASE SenderSends
  <2>1. PICK m \in SentMessage :
          /\ sent' = Append(sent, m)
          /\ m.iv = packet.iv
          /\ Drawn(packet'.iv) = Drawn(m.iv)
          /\ Running
    BY <1>4, SendCounts DEF CountersRise
  <2>2. /\ Len(sent') = Len(sent) + 1 /\ DOMAIN sent' = 1 .. Len(sent) + 1
        /\ sent'[Len(sent) + 1] = m
        /\ \A k \in DOMAIN sent : sent'[k] = sent[k]
    BY <1>1, <2>1
  <2>3. ASSUME NEW k \in DOMAIN sent', Drawn(sent'[k].iv) = Drawn(packet'.iv),
               NEW l \in k .. Len(sent')
        PROVE  Drawn(sent'[l].iv) = Drawn(packet'.iv)
    <3>1. CASE l = Len(sent) + 1
      BY <2>1, <2>2, <3>1
    <3>2. CASE l # Len(sent) + 1
      <4>1. k \in DOMAIN sent /\ l \in k .. Len(sent) /\ l \in DOMAIN sent
        BY <1>1, <2>2, <2>3, <3>2
      <4>2. Drawn(sent[k].iv) = Drawn(packet.iv)
        BY <2>1, <2>2, <2>3, <4>1
      <4>3. Drawn(sent[l].iv) = Drawn(packet.iv)
        BY <2>1, <4>1, <4>2 DEF NeverGoesBack, OfThisStart
      <4> QED
        BY <2>1, <2>2, <4>1, <4>3
    <3> QED
      BY <3>1, <3>2
  <2> QED
    BY <2>3 DEF NeverGoesBack, OfThisStart
<1>5. CASE ~ Running'
  BY <1>5 DEF NeverGoesBack
<1> QED
  BY <1>2, <1>3, <1>4, <1>5, VectorSteps

(* Reading the radio, the receiver reports nothing and remembers what it    *)
(* did, or it reports a message, which is new to it, and remembers its       *)
(* vector (watchdog/main.cpp:239-269).                                      *)
LEMMA WatchReports ==
  ASSUME IInv, CountersRise, ReceiverWatches
  PROVE  \/ UNCHANGED <<iv, reported>>
         \/ \E k \in DOMAIN sent :
              /\ reported' = Append(reported, [message |-> k, state |-> sent[k].state])
              /\ iv' = [top |-> iv_top(sent[k]), bottom |-> iv_bottom(sent[k])]
              /\ iv # NoIv => /\ iv.top = iv_top(sent[k])
                              /\ iv.bottom < iv_bottom(sent[k])
<1>1. CASE WD!Carries(radio) = "nullopt"
  BY <1>1 DEF ReceiverWatches, WD!watch
<1>2. CASE WD!Carries(radio) # "nullopt"
  <2> DEFINE p == WD!parse_packet(radio)
             action == WD!Carries(radio)
             received == [top |-> WD!iv_top(p), bottom |-> WD!iv_bottom(p)]
             entry == log'[Len(log')]
             o == Origin(entry)
  <2>1. WD!handle_packet(p, action)
    BY <1>2 DEF ReceiverWatches, WD!watch
  <2>2. PICK k \in DOMAIN sent : sent[k].iv = p.iv /\ sent[k].state = Tells(action)
    BY <1>2, CarriedMessage DEF ReceiverWatches
  <2>3. action \in WD!DoorAction
    BY <1>2 DEF WD!Carries, WD!get_action, WD!DoorAction
  <2>4. received = [top |-> iv_top(sent[k]), bottom |-> iv_bottom(sent[k])]
    BY <2>2 DEF WD!iv_top, WD!iv_bottom, WD!to, iv_top, iv_bottom, to
  <2>5. reported' = IF log' # log /\ entry.action \in WD!DoorAction
                    THEN Append(reported, [message |-> o, state |-> Tells(entry.action)])
                    ELSE reported
    BY DEF ReceiverWatches
  <2>6. ASSUME NEW a, log' = Append(log, [action |-> a, iv |-> p.iv])
        PROVE  log' # log /\ entry = [action |-> a, iv |-> p.iv]
    <3> DEFINE e == [action |-> a, iv |-> p.iv]
    <3>1. log \in Seq(WD!LogEntry)
      BY DEF IInv, TypeOK, WD!TypeOK
    <3> HIDE DEF e, p
    <3>2. log' = Append(log, e)
      BY <2>6 DEF e
    <3>3. Len(log') = Len(log) + 1 /\ log'[Len(log')] = e /\ Len(log) \in Nat
      BY <3>1, <3>2
    <3> QED
      BY <3>3 DEF e
  <2>7. sent \in Seq(SentMessage) /\ IvUsedOnce
    BY VectorsDiffer DEF IInv, TypeOK
  <2>8. ASSUME log' = Append(log, [action |-> action, iv |-> p.iv])
        PROVE  reported' = Append(reported, [message |-> k, state |-> sent[k].state])
    <3>1. log' # log /\ entry = [action |-> action, iv |-> p.iv]
      BY <2>6, <2>8
    <3>2. entry.action = action /\ entry.iv = p.iv
      BY <3>1
    <3>3. o \in DOMAIN sent /\ sent[o].iv = p.iv
      BY <2>2, <2>7, <3>2, Origins
    <3>4. o = k
      BY <2>2, <2>7, <3>3 DEF IvUsedOnce
    <3> HIDE DEF o, entry, p, action
    <3> QED
      BY <2>2, <2>3, <2>5, <3>1, <3>2, <3>4
  <2>9. ASSUME NEW a \in {"IvTopMismatch", "IvBottomOld"},
               log' = Append(log, [action |-> a, iv |-> p.iv])
        PROVE  reported' = reported
    <3>1. entry = [action |-> a, iv |-> p.iv]
      BY <2>6, <2>9
    <3>2. entry.action \notin WD!DoorAction
      BY <3>1 DEF WD!DoorAction
    <3> QED
      BY <2>5, <3>2
  <2>10. CASE iv = NoIv
    <3>1. iv' = received /\ log' = Append(log, [action |-> action, iv |-> p.iv])
      BY <2>1, <2>10 DEF WD!handle_packet, WD!action_handler
    <3> HIDE DEF received, p, action
    <3> QED
      BY <2>4, <2>8, <2>10, <3>1
  <2>11. CASE iv # NoIv /\ iv.top # received.top
    <3>1. iv' = iv /\ log' = Append(log, [action |-> "IvTopMismatch", iv |-> p.iv])
      BY <2>1, <2>11 DEF WD!handle_packet, WD!action_handler
    <3> QED
      BY <2>9, <3>1
  <2>12. CASE iv # NoIv /\ iv.top = received.top /\ WD!Newer(received)
    <3>1. /\ iv' = [iv EXCEPT !.bottom = received.bottom]
          /\ log' = Append(log, [action |-> action, iv |-> p.iv])
      BY <2>1, <2>12 DEF WD!handle_packet, WD!action_handler
    <3>2. iv \in [top : Nat, bottom : Nat]
      BY <2>12 DEF IInv, TypeOK, WD!TypeOK, WD!IvTopBottom
    <3>3. iv' = received
      BY <2>12, <3>1, <3>2
    <3>4. iv.bottom < received.bottom
      BY <2>12 DEF WD!Newer
    <3> QED
      BY <2>4, <2>8, <2>12, <3>1, <3>3, <3>4
  <2>13. CASE iv # NoIv /\ iv.top = received.top /\ ~ WD!Newer(received)
    <3>1. iv' = iv /\ log' = Append(log, [action |-> "IvBottomOld", iv |-> p.iv])
      BY <2>1, <2>13 DEF WD!handle_packet, WD!action_handler
    <3> QED
      BY <2>9, <3>1
  <2> QED
    BY <2>10, <2>11, <2>12, <2>13
<1> QED
  BY <1>1, <1>2
(* The receiver remembers the message it reported last. *)
LEMMA RemembersLastStep ==
  ASSUME IInv, CountersRise, RemembersLast, [Next]_vars
  PROVE  RemembersLast'
<1>1. /\ sent \in Seq(SentMessage)
      /\ reported \in Seq([message : Nat, state : DW!DoorState])
  BY DEF IInv, TypeOK
<1>2. CASE UNCHANGED <<iv, reported>>
  <2>1. \A k \in DOMAIN sent : k \in DOMAIN sent' /\ sent'[k] = sent[k]
    BY RecordsStay DEF IInv
  <2> QED
    BY <1>2, <2>1 DEF RemembersLast, iv_top, iv_bottom, to
<1>3. CASE ReceiverWatches /\ ~ UNCHANGED <<iv, reported>>
  <2>1. PICK k \in DOMAIN sent :
          /\ reported' = Append(reported, [message |-> k, state |-> sent[k].state])
          /\ iv' = [top |-> iv_top(sent[k]), bottom |-> iv_bottom(sent[k])]
    BY <1>3, WatchReports
  <2> DEFINE r == [message |-> k, state |-> sent[k].state]
  <2>2. r.message = k
    OBVIOUS
  <2> HIDE DEF r
  <2>3. reported' = Append(reported, r)
    BY <2>1 DEF r
  <2>4. reported'[Len(reported')] = r /\ reported' # <<>>
    BY <1>1, <2>3
  <2>5. iv' # NoIv
    BY <1>1, <2>1, HalvesOfMessages, LinkAssumption
  <2>6. sent' = sent
    BY <1>3 DEF ReceiverWatches
  <2> QED
    BY <2>1, <2>2, <2>4, <2>5, <2>6 DEF RemembersLast
<1>4. CASE ReceiverRestarts
  BY <1>4 DEF ReceiverRestarts, WD!Restart, RemembersLast
<1> QED
  BY <1>2, <1>3, <1>4
  DEF Next, vars, wdVars, SenderStarts, SenderSends, SenderOther, Hear,
      HearForeign, WD!Hear, ReceiverStarts, WD!Start, ReceiveTimesOut,
      WD!receive_times_out

(* What is proved of the reports rests on all of these. *)
LEMMA OrderStep ==
  ASSUME OrderInv, [Next]_vars, MaxSent < Base8
  PROVE  OrderInv'
<1>1. IInv'
  BY TypeStep, FramesTellStep, RadioHeardStep, ReportedWasSentStep
  DEF OrderInv, IInv
<1> QED
  BY <1>1, CountersRiseStep, NeverGoesBackStep, RemembersLastStep
  DEF OrderInv, IInv

LEMMA OrderInit == Init => OrderInv
<1> SUFFICES ASSUME Init PROVE OrderInv
  OBVIOUS
<1>1. sent = <<>> /\ log = <<>> /\ reported = <<>> /\ radio = NoFrame /\ iv = NoIv
      /\ ~ Running
  BY DEF Init, WD!Init, DW!Init, Running
<1>2. FramesTell /\ RadioHeard /\ ReportedWasSent /\ NeverGoesBack /\ RemembersLast
  BY <1>1 DEF FramesTell, RadioHeard, ReportedWasSent, NeverGoesBack, RemembersLast
<1> QED
  BY <1>2, TypeInit, CountersRiseInit DEF OrderInv, IInv

(* What the messages told is a sequence, and goes on with the next message.  *)
LEMMA ToldGrows ==
  ASSUME sent \in Seq(SentMessage), NEW m \in SentMessage, sent' = Append(sent, m)
  PROVE  [k \in DOMAIN sent' |->
            [state |-> sent'[k].state, run |-> Drawn(sent'[k].iv)]]
         = Append([k \in DOMAIN sent |->
                     [state |-> sent[k].state, run |-> Drawn(sent[k].iv)]],
                  [state |-> m.state, run |-> Drawn(m.iv)])
<1> DEFINE told(x) == [state |-> x.state, run |-> Drawn(x.iv)]
           s == [k \in DOMAIN sent |-> told(sent[k])]
           t == [k \in DOMAIN sent' |-> told(sent'[k])]
<1>1. /\ Len(sent) \in Nat /\ DOMAIN sent = 1 .. Len(sent)
      /\ DOMAIN sent' = 1 .. Len(sent) + 1
      /\ sent'[Len(sent) + 1] = m
      /\ \A k \in DOMAIN sent : sent'[k] = sent[k]
  OBVIOUS
<1> HIDE DEF told
<1>2. s \in Seq({told(x) : x \in SentMessage}) /\ Len(s) = Len(sent)
  BY <1>1
<1>3. Append(s, told(m)) = [k \in 1 .. Len(s) + 1 |->
                              IF k = Len(s) + 1 THEN told(m) ELSE s[k]]
  BY <1>2
<1>4. t = Append(s, told(m))
  BY <1>1, <1>2, <1>3
<1> QED
  BY <1>4 DEF told

(***************************************************************************)
(* The link implements the channel it is meant to be: reports are messages *)
(* of one start of the sender, in the order they were sent, none twice,    *)
(* whatever is lost, repeated, late or sent by others, over all restarts   *)
(* of both ends, as long as counters do not wrap                           *)
(* (doorwatcher/main.cpp:99-129, watchdog/main.cpp:239-269).               *)
(***************************************************************************)
THEOREM LinkIsChannel ==
  ASSUME MaxSent < Base8
  PROVE  Spec => ImplementsDoorReports
<1> DEFINE told == [k \in DOMAIN sent |->
                      [state |-> sent[k].state, run |-> Drawn(sent[k].iv)]]
<1>1. Init => Channel!Init
  <2> SUFFICES ASSUME Init PROVE Channel!Init
    OBVIOUS
  <2>1. sent = <<>> /\ reported = <<>>
    BY DEF Init
  <2>2. told = <<>>
    BY <2>1
  <2> QED
    BY <2>1, <2>2 DEF Channel!Init
<1>2. OrderInv /\ [Next]_vars => [Channel!Next]_(Channel!vars)
  <2> SUFFICES ASSUME OrderInv, [Next]_vars
               PROVE  Channel!Next \/ UNCHANGED <<told, reported>>
    BY DEF Channel!vars
  <2> USE DEF OrderInv
  <2>1. /\ sent \in Seq(SentMessage) /\ Len(sent) \in Nat
        /\ DOMAIN sent = 1 .. Len(sent) /\ DOMAIN told = 1 .. Len(sent)
        /\ told \in Seq([state : DW!DoorState, run : Tops])
        /\ Len(told) = Len(sent)
    <3>1. sent \in Seq(SentMessage) /\ Len(sent) \in Nat /\ DOMAIN sent = 1 .. Len(sent)
      BY DEF IInv, TypeOK
    <3>2. ASSUME NEW k \in DOMAIN sent
          PROVE  sent[k].state \in DW!DoorState /\ Drawn(sent[k].iv) \in Tops
      <4>1. sent[k] \in SentMessage
        BY <3>1
      <4>2. Drawn(sent[k].iv) \in Tops
        BY DEF IInv, TypeOK, CountersRise
      <4> QED
        BY <4>1, <4>2 DEF SentMessage
    <3>3. told \in Seq([state : DW!DoorState, run : Tops])
      BY <3>1, <3>2
    <3> QED
      BY <3>1, <3>3
  <2>2. CASE UNCHANGED <<sent, reported>>
    BY <2>2 DEF Drawn
  <2>3. CASE SenderSends
    <3>1. PICK m \in SentMessage :
            /\ sent' = Append(sent, m)
            /\ m.iv = packet.iv
            /\ Running
      BY <2>3, SendCounts DEF IInv, CountersRise
    <3> DEFINE r == Drawn(m.iv)
    <3>2. told' = Append(told, [state |-> m.state, run |-> r])
      BY <2>1, <3>1, ToldGrows
    <3>3. m.state \in DW!DoorState
      BY DEF SentMessage
    <3>4. r \in Tops
      BY <3>1 DEF IInv, TypeOK, CountersRise
    <3>5. \A k \in DOMAIN told :
            told[k].run = r => \A l \in k .. Len(told) : told[l].run = r
      <4>1. ASSUME NEW k \in DOMAIN sent, Drawn(sent[k].iv) = r,
                   NEW l \in k .. Len(sent)
            PROVE  Drawn(sent[l].iv) = r
        BY <3>1, <4>1 DEF NeverGoesBack, OfThisStart
      <4>2. \A k \in DOMAIN sent : told[k].run = Drawn(sent[k].iv)
        OBVIOUS
      <4>3. \A k \in DOMAIN sent : \A l \in k .. Len(sent) : l \in DOMAIN sent
        BY <2>1
      <4> HIDE DEF told, r
      <4> QED
        BY <2>1, <4>1, <4>2, <4>3
    <3>6. reported' = reported
      BY <2>3 DEF SenderSends
    <3>7. Channel!Tell(m.state, r)
      BY <3>2, <3>5, <3>6 DEF Channel!Tell
    <3> HIDE DEF r
    <3> QED
      BY <3>3, <3>4, <3>7 DEF Channel!Next
  <2>4. CASE ReceiverWatches
    <3>1. CASE UNCHANGED <<iv, reported>>
      BY <2>2, <2>4, <3>1 DEF ReceiverWatches
    <3>2. CASE ~ UNCHANGED <<iv, reported>>
      <4>1. PICK k \in DOMAIN sent :
              /\ reported' = Append(reported, [message |-> k, state |-> sent[k].state])
              /\ iv # NoIv => /\ iv.top = iv_top(sent[k])
                              /\ iv.bottom < iv_bottom(sent[k])
        BY <2>4, <3>2, WatchReports
      <4>2. told' = told
        BY <2>4 DEF ReceiverWatches, Drawn
      <4>3. ASSUME reported # <<>>
            PROVE  LET last == reported[Len(reported)].message
                   IN  last < k /\ told[last].run = told[k].run
        <5> DEFINE last == reported[Len(reported)].message
        <5>1. /\ last \in DOMAIN sent
              /\ iv = [top |-> iv_top(sent[last]), bottom |-> iv_bottom(sent[last])]
              /\ iv # NoIv
          BY <4>3 DEF RemembersLast
        <5> HIDE DEF last
        <5>2. /\ iv_top(sent[last]) = iv_top(sent[k])
              /\ iv_bottom(sent[last]) < iv_bottom(sent[k])
          BY <4>1, <5>1
        <5>3. Drawn(sent[last].iv) = Drawn(sent[k].iv)
          BY <2>1, <5>1, <5>2, SameStart
        <5>4. last < k
          BY <2>1, <5>1, <5>2, <5>3, HalvesOfMessages DEF CountersRise
        <5> QED
          BY <5>1, <5>3, <5>4 DEF last
      <4>4. told[k].state = sent[k].state
        OBVIOUS
      <4> HIDE DEF told
      <4>5. Channel!Report(k)
        BY <4>1, <4>2, <4>3, <4>4 DEF Channel!Report, told
      <4> QED
        BY <2>1, <4>5 DEF Channel!Next, told
    <3> QED
      BY <3>1, <3>2
  <2>5. CASE ReceiverRestarts
    <3>1. Channel!Forget
      BY <2>5 DEF ReceiverRestarts, Channel!Forget, Drawn
    <3> QED
      BY <3>1 DEF Channel!Next
  <2> QED
    BY <2>2, <2>3, <2>4, <2>5
    DEF Next, vars, SenderStarts, SenderOther, Hear, HearForeign,
        ReceiveTimesOut, ReceiverStarts
<1>3. OrderInv /\ [Next]_vars => OrderInv'
  BY OrderStep
<1> QED
  BY <1>1, <1>2, <1>3, OrderInit, PTL DEF Spec, ImplementsDoorReports, Channel!Spec

-----------------------------------------------------------------------------
(* What a receiver makes of a message: the message, with its vector, if bytes *)
(* 12 and 13 of it agree, and nothing if they differ (common.cpp:59-61).      *)
LEMMA MessageIsRead ==
  ASSUME NEW m \in SentMessage, m.frame = Sealed(m)
  PROVE  /\ m.iv[12] = m.iv[13] =>
              /\ WD!Carries(m.frame) = WD!get_action(DW!Message(m.state))
              /\ WD!parse_packet(m.frame).iv = m.iv
         /\ m.iv[12] # m.iv[13] => WD!Carries(m.frame) = "nullopt"
<1> DEFINE c == Encrypt(DW!Message(m.state), m.iv)
           p == [header |-> MESSAGE_HEADER, iv |-> m.iv, payload |-> c]
           read == WD!parse_packet(m.frame)
<1>1. p.iv = m.iv /\ p.header = MESSAGE_HEADER /\ p.payload = c /\ m.frame = lora_write(p)
  BY DEF Sealed
<1>2. m.iv \in DWP!IV /\ m.iv \in IV
  BY DEF SentMessage, IV, Byte, DWP!IV, DWP!Byte
<1> HIDE DEF p
<1>3. parse_packet(lora_write(p)).iv = p.iv <=> p.iv[12] = p.iv[13]
  <2>1. DWP!parse_packet(DWP!lora_write(p)).iv = p.iv <=> p.iv[12] = p.iv[13]
    BY <1>1, <1>2, EndsAssumptions, DWP!ReadRight
  <2> QED
    BY <2>1 DEF DWP!parse_packet, DWP!lora_write, DWP!SourceByte,
                DWP!FRAMING_SIZE, parse_packet, lora_write, SourceByte,
                FRAMING_SIZE
<1>4. read.iv = m.iv <=> m.iv[12] = m.iv[13]
  BY <1>1, <1>3
  DEF WD!parse_packet, WD!SourceByte, parse_packet, SourceByte
<1>5. /\ m.frame.payload = c
      /\ DOMAIN m.frame.bytes = 0 .. 16
      /\ m.frame.bytes[0] = MESSAGE_HEADER
  BY <1>1 DEF lora_write, FRAMING_SIZE
<1>6. WD!IsPacket(m.frame)
  <2>1. c \in Cipher
    BY <1>2 DEF SentMessage, Encrypt, Cipher, Text, DoorMessage, DW!Message
  <2> QED
    BY <1>5, <2>1, BaseAssumption DEF WD!IsPacket, WD!FRAMING_SIZE
<1>7. read.header = MESSAGE_HEADER /\ read.payload = c
  BY <1>5 DEF WD!parse_packet
<1>8. WD!Carries(m.frame) = WD!get_action(WD!Decrypt(c, read.iv))
  <2>1. m.frame # NoFrame
    BY LinkAssumption DEF SentMessage
  <2> QED
    BY <1>6, <1>7, <2>1 DEF WD!Carries, WD!MESSAGE_HEADER, MESSAGE_HEADER
<1>9. c.text = DW!Message(m.state) /\ c.iv = m.iv
  BY DEF Encrypt
<1> HIDE DEF c, read
<1>10. CASE m.iv[12] = m.iv[13]
  BY <1>4, <1>8, <1>9, <1>10 DEF WD!Decrypt, read
<1>11. CASE m.iv[12] # m.iv[13]
  <2>1. read.iv # c.iv
    BY <1>4, <1>9, <1>11
  <2> QED
    BY <1>8, <1>11, <2>1 DEF WD!Decrypt, WD!get_action
<1> QED
  BY <1>10, <1>11

(* The first Base2 counters of a start have zeros in bytes 12 and 13. *)
LEMMA EarlyBytesAgree ==
  ASSUME NEW m \in SentMessage, iv_bottom(m) < Base2
  PROVE  m.iv[12] = m.iv[13]
<1>1. m.iv \in DWP!IV
  BY DEF SentMessage, IV, Byte, DWP!IV, DWP!Byte
<1>2. /\ (DWP!to(m.iv, 8) \div DWP!Base2) % Base = m.iv[13]
      /\ (DWP!to(m.iv, 8) \div (DWP!Base2 * Base)) % Base = m.iv[12]
  BY <1>1, EndsAssumptions, DWP!MiddleDigits
<1>3. DWP!to(m.iv, 8) = iv_bottom(m) /\ DWP!Base2 = Base2
  BY DEF DWP!to, iv_bottom, to, DWP!Base2, Base2
<1>4. Base2 \in Nat /\ Base2 * Base \in Nat /\ Base2 <= Base2 * Base
  <2>1. \A a, b \in Nat : b >= 1 => a * b \in Nat /\ a <= a * b
    OBVIOUS
  <2>2. Base2 \in Nat
    BY <2>1, BaseAssumption DEF Base2
  <2> QED
    BY <2>1, <2>2, BaseAssumption
<1>5. \A n, b \in Nat : n < b => n \div b = 0
  OBVIOUS
<1>6. iv_bottom(m) \div Base2 = 0 /\ iv_bottom(m) \div (Base2 * Base) = 0
  <2> DEFINE n == iv_bottom(m)
             b == Base2 * Base
  <2>1. n \in Nat
    BY HalvesOfMessages
  <2> HIDE DEF n, b
  <2> QED
    BY <1>4, <1>5, <2>1 DEF n, b
<1> QED
  BY <1>2, <1>3, <1>6, Zenon

(***************************************************************************)
(* Of the messages that the receiver should accept, those are reported     *)
(* whose vectors have equal bytes 12 and 13, and the others are dropped    *)
(* (common.cpp:59-61, watchdog/main.cpp:239-269).                          *)
(***************************************************************************)
ReportedIfReadRight ==
  [][\A k \in DOMAIN sent :
       ReceiverWatches /\ radio = sent[k].frame /\ Acceptable(sent[k])
         => (ReportsNow(k) <=> sent[k].iv[12] = sent[k].iv[13])]_vars

(* What a turn of the receiver does with an acceptable message. *)
LEMMA AcceptableIsReported ==
  ASSUME IInv, NEW k \in DOMAIN sent, ReceiverWatches, radio = sent[k].frame,
         Acceptable(sent[k])
  PROVE  ReportsNow(k) <=> sent[k].iv[12] = sent[k].iv[13]
<1> DEFINE m == sent[k]
           p == WD!parse_packet(radio)
           action == WD!get_action(DW!Message(m.state))
           received == [top |-> WD!iv_top(p), bottom |-> WD!iv_bottom(p)]
           e == [action |-> action, iv |-> p.iv]
<1>1. m \in SentMessage /\ m.frame = Sealed(m)
  <2>1. m \in SentMessage
    BY DEF IInv, TypeOK
  <2>2. m.frame = Sealed(m)
    BY DEF IInv, FramesTell
  <2> QED
    BY <2>1, <2>2
<1>2. log \in Seq(WD!LogEntry)
  BY DEF IInv, TypeOK, WD!TypeOK
<1>3. /\ m.iv[12] = m.iv[13] => WD!Carries(radio) = action /\ p.iv = m.iv
      /\ m.iv[12] # m.iv[13] => WD!Carries(radio) = "nullopt"
  <2> HIDE DEF m
  <2> QED
    BY <1>1, MessageIsRead DEF m
<1>4. ASSUME m.iv[12] = m.iv[13] PROVE ReportsNow(k)
  <2>1. action # "nullopt"
    BY <1>1 DEF SentMessage, DW!DoorState, DW!Message, WD!get_action
  <2>2. WD!handle_packet(p, action)
    BY <1>3, <1>4, <2>1 DEF ReceiverWatches, WD!watch
  <2>3. received = [top |-> iv_top(m), bottom |-> iv_bottom(m)]
    BY <1>3, <1>4 DEF WD!iv_top, WD!iv_bottom, WD!to, iv_top, iv_bottom, to
  <2>4. iv = NoIv \/ (iv.top = received.top /\ WD!Newer(received))
    BY <2>3 DEF Acceptable, WD!Newer
  <2>5. log' = Append(log, e)
    BY <2>2, <2>4 DEF WD!handle_packet, WD!action_handler
  <2>6. e.action = action
    OBVIOUS
  <2> HIDE DEF e
  <2>7. Len(log') = Len(log) + 1 /\ log'[Len(log')] = e
    BY <1>2, <2>5
  <2> QED
    BY <2>6, <2>7 DEF ReportsNow
<1>5. ASSUME m.iv[12] # m.iv[13] PROVE ~ ReportsNow(k)
  <2>1. log' = log
    BY <1>3, <1>5 DEF ReceiverWatches, WD!watch
  <2>2. Len(log) \in Nat
    BY <1>2
  <2> QED
    BY <2>1, <2>2 DEF ReportsNow
<1> QED
  BY <1>4, <1>5

(***************************************************************************)
(* For every size of a byte, whatever was lost or repeated before: which   *)
(* messages the misread byte costs, exactly.                               *)
(***************************************************************************)
THEOREM ReadRightIsReported == Spec => ReportedIfReadRight
<1>1. IInv /\ [Next]_vars =>
        [\A k \in DOMAIN sent :
           ReceiverWatches /\ radio = sent[k].frame /\ Acceptable(sent[k])
             => (ReportsNow(k) <=> sent[k].iv[12] = sent[k].iv[13])]_vars
  BY AcceptableIsReported
<1>2. Spec => []IInv
  BY WellFramed
<1> QED
  BY <1>1, <1>2, PTL DEF Spec, ReportedIfReadRight

(***************************************************************************)
(* A message is reported as soon as the receiver looks at the radio, if it *)
(* is the first the receiver hears or a newer one of the same start of the *)
(* sender, and one of the first Base2 of its start: the byte parse_packet  *)
(* misreads does not matter yet (common.cpp:59-61,                         *)
(* watchdog/main.cpp:239-269).                                             *)
(***************************************************************************)
THEOREM EarlyMessagesAreReported == Spec => EarlyMessageReported
<1>1. IInv /\ [Next]_vars =>
        [\A k \in DOMAIN sent :
           ReceiverWatches /\ radio = sent[k].frame /\ Acceptable(sent[k])
             => (iv_bottom(sent[k]) < Base2 => ReportsNow(k))]_vars
  <2> SUFFICES ASSUME IInv, NEW k \in DOMAIN sent, ReceiverWatches,
                      radio = sent[k].frame, Acceptable(sent[k]),
                      iv_bottom(sent[k]) < Base2
               PROVE  ReportsNow(k)
    OBVIOUS
  <2>1. sent[k] \in SentMessage
    BY DEF IInv, TypeOK
  <2>2. sent[k].iv[12] = sent[k].iv[13]
    BY <2>1, EarlyBytesAgree
  <2> QED
    BY <2>2, AcceptableIsReported
<1>2. Spec => []IInv
  BY WellFramed
<1> QED
  BY <1>1, <1>2, PTL DEF Spec, EarlyMessageReported
=============================================================================
