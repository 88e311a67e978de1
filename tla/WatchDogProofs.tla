--------------------------- MODULE WatchDogProofs ---------------------------
(***************************************************************************)
(* Theorems about the receiver, for every set of frames it may hear, every *)
(* size of a byte and every number of reports.                             *)
(***************************************************************************)
EXTENDS WatchDog, TLAPS

(* The counter and the upper half of a vector are numbers: to adds and      *)
(* multiplies numbers (common.cpp:7-16).                                    *)
LEMMA ToIsNumber ==
  ASSUME NEW v \in IV, NEW at \in {0, 8}
  PROVE  to(v, at) \in Nat
<1> DEFINE digit(m, n) == m + Base * n
<1>1. /\ v[at] \in Nat /\ v[at+1] \in Nat /\ v[at+2] \in Nat /\ v[at+3] \in Nat
      /\ v[at+4] \in Nat /\ v[at+5] \in Nat /\ v[at+6] \in Nat
      /\ v[at+7] \in Nat
  BY BaseAssumption DEF IV, Byte
<1>2. \A m, n \in Nat : digit(m, n) \in Nat
  <2> SUFFICES ASSUME NEW m \in Nat, NEW n \in Nat PROVE digit(m, n) \in Nat
    OBVIOUS
  <2>1. Base * n \in Nat
    BY BaseAssumption
  <2> QED
    BY <2>1
<1>3. to(v, at) =
        digit(v[at+7], digit(v[at+6], digit(v[at+5], digit(v[at+4],
        digit(v[at+3], digit(v[at+2], digit(v[at+1], v[at])))))))
  BY DEF to
<1> HIDE DEF digit
<1> QED
  BY <1>1, <1>2, <1>3, Zenon

(* A message has an upper half and a counter.                               *)
LEMMA HalvesAreNumbers ==
  ASSUME NEW packet, packet.iv \in IV
  PROVE  iv_top(packet) \in Nat /\ iv_bottom(packet) \in Nat
BY ToIsNumber DEF iv_top, iv_bottom

(* A frame long enough to be a packet has a whole vector.                   *)
LEMMA ParsedVector ==
  ASSUME NEW frame \in Frame, IsPacket(frame)
  PROVE  parse_packet(frame).iv \in IV
<1>1. frame.bytes \in [0 .. FRAMING_SIZE - 1 -> Byte]
  BY DEF Frame, IsPacket, FRAMING_SIZE
<1>2. \A i \in 0 .. 15 : SourceByte(i) \in 0 .. FRAMING_SIZE - 1
  BY DEF SourceByte, FRAMING_SIZE
<1> QED
  BY <1>1, <1>2 DEF parse_packet, IV

-----------------------------------------------------------------------------
-----------------------------------------------------------------------------
(* One turn of the loop that reports something reports one packet, parsed   *)
(* from the radio, with one of the two messages or a warning.               *)
LEMMA WatchReports ==
  ASSUME TypeOK, watch, Carries(radio) # "nullopt"
  PROVE  /\ IsPacket(radio)
         /\ radio \in Frame
         /\ Carries(radio) \in DoorAction
         /\ parse_packet(radio).iv \in IV
<1>1. radio # NoFrame /\ IsPacket(radio)
  BY DEF Carries
<1>2. radio \in Frame
  BY <1>1 DEF TypeOK
<1>3. Carries(radio) \in DoorAction
  BY <1>1 DEF Carries, get_action, DoorAction
<1> QED
  BY <1>1, <1>2, <1>3, ParsedVector

(***************************************************************************)
(* The variables keep their types: the state of class WatchDog             *)
(* (main.cpp:61-74) and the log of its action handler.                     *)
(***************************************************************************)
LEMMA TypeStep == TypeOK /\ [Next]_vars => TypeOK'
<1> SUFFICES ASSUME TypeOK, [Next]_vars PROVE TypeOK'
  OBVIOUS
<1>1. CASE Start
  BY <1>1 DEF TypeOK, Start
<1>2. CASE Restart
  <2>1. log' \in Seq(LogEntry)
    BY <1>2 DEF Restart
  <2> QED
    BY <1>2, <2>1 DEF TypeOK, Restart
<1>3. ASSUME NEW frame \in Frames, Hear(frame) PROVE TypeOK'
  BY <1>3, WatchDogAssumption DEF TypeOK, Hear
<1>4. CASE receive_times_out
  BY <1>4 DEF TypeOK, receive_times_out
<1>5. CASE watch
  <2>1. /\ running' \in BOOLEAN
        /\ radio' \in Frame \cup {NoFrame}
        /\ mode' \in {"standby", "continuous", "single"}
    BY <1>5 DEF TypeOK, watch, parsePacket
  <2>2. CASE Carries(radio) = "nullopt"
    BY <1>5, <2>1, <2>2 DEF TypeOK, watch
  <2>3. CASE Carries(radio) # "nullopt"
    <3> DEFINE packet == parse_packet(radio)
               action == Carries(radio)
    <3>1. handle_packet(packet, action)
      BY <1>5, <2>3 DEF watch
    <3>2. packet.iv \in IV /\ action \in DoorAction
      BY <1>5, <2>3, WatchReports
    <3>3. [top |-> iv_top(packet), bottom |-> iv_bottom(packet)] \in IvTopBottom
      BY <3>2, HalvesAreNumbers DEF IvTopBottom
    <3> HIDE DEF packet, action
    <3>4. iv' \in IvTopBottom \cup {NoIv}
      BY <3>1, <3>3 DEF handle_packet, TypeOK, IvTopBottom
    <3>5. log' \in Seq(LogEntry)
      <4>1. \E a \in Action :
              log' = Append(log, [action |-> a, iv |-> packet.iv])
        BY <3>1, <3>2 DEF handle_packet, action_handler, Action, DoorAction
      <4> QED
        BY <4>1, <3>2 DEF TypeOK, LogEntry
    <3> QED
      BY <2>1, <3>4, <3>5 DEF TypeOK
  <2> QED
    BY <2>2, <2>3
<1>6. CASE UNCHANGED vars
  BY <1>6 DEF TypeOK, vars
<1> QED
  BY <1>1, <1>2, <1>3, <1>4, <1>5, <1>6 DEF Next

(* ... and have them at the start. *)
LEMMA TypeInit == Init => TypeOK
<1>1. Init => log \in Seq(LogEntry)
  BY DEF Init
<1> QED
  BY <1>1 DEF Init, TypeOK

(* The variables always have their types. *)
THEOREM TypeCorrect == Spec => []TypeOK
BY TypeInit, TypeStep, PTL DEF Spec

-----------------------------------------------------------------------------
(* The log has the numbers its entries came with. *)
LEMMA LogIsNumbered ==
  ASSUME TypeOK, NEW i \in DOMAIN log
  PROVE  Top(i) \in Nat /\ Bottom(i) \in Nat
<1>1. log[i] \in LogEntry
  BY DEF TypeOK
<1> QED
  BY <1>1, HalvesAreNumbers DEF Top, Bottom, LogEntry

(* A call of the action handler adds one entry and changes no other.        *)
LEMMA HandlerAppends ==
  ASSUME TypeOK, NEW action \in Action, NEW packet, packet.iv \in IV,
         NEW n \in Nat, n = Len(log) + 1, action_handler(action, packet)
  PROVE  /\ DOMAIN log = 1 .. n - 1
         /\ DOMAIN log' = 1 .. n
         /\ \A i \in DOMAIN log : /\ log'[i] = log[i]
                                  /\ Genuine(i)' <=> Genuine(i)
                                  /\ Top(i)' = Top(i)
                                  /\ Bottom(i)' = Bottom(i)
         /\ log'[n].action = action
         /\ Genuine(n)' <=> action \in DoorAction
         /\ Top(n)' = iv_top(packet)
         /\ Bottom(n)' = iv_bottom(packet)
<1> DEFINE e == [action |-> action, iv |-> packet.iv]
<1>1. log \in Seq(LogEntry) /\ e \in LogEntry
  BY DEF TypeOK, LogEntry
<1>2. log' = Append(log, e)
  BY DEF action_handler
<1> HIDE DEF e
<1>3. /\ DOMAIN log = 1 .. n - 1
      /\ DOMAIN log' = 1 .. n
      /\ \A i \in DOMAIN log : log'[i] = log[i]
      /\ log'[n] = e
  BY <1>1, <1>2
<1>4. \A i \in DOMAIN log : /\ Genuine(i)' <=> Genuine(i)
                            /\ Top(i)' = Top(i)
                            /\ Bottom(i)' = Bottom(i)
  BY <1>3 DEF Genuine, Top, Bottom
<1>5. /\ log'[n].action = action
      /\ log'[n].iv = packet.iv
  BY <1>3 DEF e
<1>6. /\ Genuine(n)' <=> action \in DoorAction
      /\ Top(n)' = iv_top(packet)
      /\ Bottom(n)' = iv_bottom(packet)
  BY <1>5 DEF Genuine, Top, Bottom, iv_top, iv_bottom, to
<1> QED
  BY <1>3, <1>4, <1>5, <1>6

-----------------------------------------------------------------------------
(***************************************************************************)
(* handle_packet (main.cpp:239-269) keeps the invariant.  The four cases   *)
(* are its branches: the first message, another upper half, a newer        *)
(* counter, a counter that is not newer.                                   *)
(***************************************************************************)
LEMMA HandlePacketStep ==
  ASSUME IInv, NEW packet, packet.iv \in IV, NEW action \in DoorAction,
         handle_packet(packet, action)
  PROVE  RemembersNewest' /\ ReportedInOrder' /\ WarningsJustified'
<1> DEFINE top == iv_top(packet)
           bottom == iv_bottom(packet)
<1> USE DEF IInv
<1>1. top \in Nat /\ bottom \in Nat
  BY HalvesAreNumbers
<1>2. PICK n \in Nat : n = Len(log) + 1 /\ n >= 1
  BY DEF TypeOK
<1>3. /\ DOMAIN log = 1 .. n - 1
      /\ \A i \in DOMAIN log : Top(i) \in Nat /\ Bottom(i) \in Nat
  BY <1>2, LogIsNumbered DEF TypeOK
<1>4. NoIv \notin IvTopBottom
  BY WatchDogAssumption
<1>5. iv # NoIv => iv.top \in Nat /\ iv.bottom \in Nat
  BY DEF TypeOK, IvTopBottom
<1>6. action \in Action
  BY DEF Action
<1>7. DoorAction \cap {"IvTopMismatch", "IvBottomOld"} = {}
  BY DEF DoorAction
\* What a call of the action handler makes of the log.
<1> DEFINE Adds(a) ==
             /\ DOMAIN log' = 1 .. n
             /\ \A i \in DOMAIN log : /\ log'[i] = log[i]
                                      /\ Genuine(i)' <=> Genuine(i)
                                      /\ Top(i)' = Top(i)
                                      /\ Bottom(i)' = Bottom(i)
             /\ log'[n].action = a
             /\ Genuine(n)' <=> a \in DoorAction
             /\ Top(n)' = top
             /\ Bottom(n)' = bottom
<1>8. \A a \in Action : action_handler(a, packet) => Adds(a)
  BY <1>2, HandlerAppends, Zenon
<1>9. CASE /\ iv = NoIv
           /\ iv' = [top |-> top, bottom |-> bottom]
           /\ action_handler(action, packet)
  <2>1. Adds(action)
    BY <1>6, <1>8, <1>9
  <2>2. log = <<>> /\ n = 1 /\ DOMAIN log = {}
    BY <1>2, <1>3, <1>9 DEF RemembersNewest
  <2>3. iv' # NoIv /\ iv'.top = top /\ iv'.bottom = bottom
    BY <1>1, <1>4, <1>9 DEF IvTopBottom
  <2>4. DOMAIN log' = {1} /\ Genuine(1)' /\ Top(1)' = top /\ Bottom(1)' = bottom
    BY <2>1, <2>2
  <2>5. RemembersNewest'
    BY <1>1, <2>3, <2>4 DEF RemembersNewest
  <2>6. ReportedInOrder'
    BY <2>4 DEF ReportedInOrder
  <2>7. log'[1].action = action
    BY <2>1, <2>2
  <2>8. WarningsJustified'
    BY <1>7, <2>4, <2>7 DEF WarningsJustified
  <2> QED
    BY <2>5, <2>6, <2>8
<1>10. CASE /\ iv # NoIv
            /\ iv.top # top
            /\ action_handler("IvTopMismatch", packet)
            /\ UNCHANGED iv
  <2>1. Adds("IvTopMismatch") /\ ~ Genuine(n)'
    BY <1>7, <1>8, <1>10 DEF Action
  <2> HIDE DEF top, bottom
  <2>2. PICK i \in DOMAIN log : Genuine(i) /\ Top(i) = iv.top
    BY <1>10 DEF RemembersNewest
  <2>3. RemembersNewest'
    BY <1>3, <1>10, <2>1 DEF RemembersNewest
  <2>4. ReportedInOrder'
    BY <1>3, <2>1 DEF ReportedInOrder
  <2>5. WarningsJustified'
    <3>1. i \in 1 .. n - 1 /\ Genuine(i)' /\ Top(i)' # Top(n)'
      BY <1>3, <1>10, <2>1, <2>2
    <3>2. log'[n].action = "IvTopMismatch" /\ DOMAIN log' = 1 .. n
      BY <2>1
    <3>3. ASSUME NEW j \in 1 .. n - 1
          PROVE  /\ log'[j].action = "IvTopMismatch" =>
                      \E k \in 1 .. j-1 : Genuine(k)' /\ Top(k)' # Top(j)'
                 /\ log'[j].action = "IvBottomOld" =>
                      \E k \in 1 .. j-1 :
                        /\ Genuine(k)'
                        /\ Top(k)' = Top(j)'
                        /\ Bottom(j)' <= Bottom(k)'
      <4>1. /\ log[j].action = "IvTopMismatch" =>
                 \E k \in 1 .. j-1 : Genuine(k) /\ Top(k) # Top(j)
            /\ log[j].action = "IvBottomOld" =>
                 \E k \in 1 .. j-1 :
                   Genuine(k) /\ Top(k) = Top(j) /\ Bottom(j) <= Bottom(k)
        BY <1>3 DEF WarningsJustified
      <4>2. \A k \in 1 .. j : /\ log'[k] = log[k]
                              /\ Genuine(k)' <=> Genuine(k)
                              /\ Top(k)' = Top(k)
                              /\ Bottom(k)' = Bottom(k)
        BY <1>3, <2>1
      <4> QED
        BY <4>1, <4>2
    <3> QED
      BY <1>2, <3>1, <3>2, <3>3 DEF WarningsJustified
  <2> QED
    BY <2>3, <2>4, <2>5
<1>11. CASE /\ iv # NoIv
            /\ iv.top = top
            /\ iv.bottom < bottom
            /\ iv' = [iv EXCEPT !.bottom = bottom]
            /\ action_handler(action, packet)
  <2>1. Adds(action) /\ Genuine(n)'
    BY <1>6, <1>8, <1>11
  <2>2. iv' # NoIv /\ iv'.top = top /\ iv'.bottom = bottom
    BY <1>1, <1>4, <1>11 DEF TypeOK, IvTopBottom
  <2> HIDE DEF top, bottom
  <2>3. \A i \in DOMAIN log : Genuine(i) => Top(i) = top /\ Bottom(i) < bottom
    BY <1>1, <1>3, <1>5, <1>11 DEF RemembersNewest
  <2>4. RemembersNewest'
    <3>1. \A i \in DOMAIN log' :
            Genuine(i)' => Top(i)' = iv'.top /\ Bottom(i)' <= iv'.bottom
      BY <1>1, <1>3, <2>1, <2>2, <2>3
    <3>2. n \in DOMAIN log' /\ Genuine(n)' /\ Top(n)' = iv'.top
                            /\ Bottom(n)' = iv'.bottom
      BY <1>2, <1>3, <2>1, <2>2
    <3> QED
      BY <2>2, <3>1, <3>2 DEF RemembersNewest
  <2>5. ReportedInOrder'
    BY <1>3, <2>1, <2>3 DEF ReportedInOrder
  <2>6. WarningsJustified'
    BY <1>3, <1>7, <2>1 DEF WarningsJustified
  <2> QED
    BY <2>4, <2>5, <2>6
<1>12. CASE /\ iv # NoIv
            /\ iv.top = top
            /\ ~ (iv.bottom < bottom)
            /\ action_handler("IvBottomOld", packet)
            /\ UNCHANGED iv
  <2>1. Adds("IvBottomOld") /\ ~ Genuine(n)'
    BY <1>7, <1>8, <1>12 DEF Action
  <2> HIDE DEF top, bottom
  <2>2. PICK i \in DOMAIN log :
          Genuine(i) /\ Top(i) = iv.top /\ Bottom(i) = iv.bottom
    BY <1>12 DEF RemembersNewest
  <2>3. RemembersNewest'
    <3>1. \A j \in DOMAIN log' :
            Genuine(j)' => Top(j)' = iv'.top /\ Bottom(j)' <= iv'.bottom
      BY <1>3, <1>12, <2>1 DEF RemembersNewest
    <3>2. i \in DOMAIN log' /\ Genuine(i)' /\ Top(i)' = iv'.top
                            /\ Bottom(i)' = iv'.bottom
      BY <1>3, <1>12, <2>1, <2>2
    <3> QED
      BY <1>12, <3>1, <3>2 DEF RemembersNewest
  <2>4. ReportedInOrder'
    BY <1>3, <2>1 DEF ReportedInOrder
  <2>5. WarningsJustified'
    <3>1. /\ i \in 1 .. n - 1
          /\ Genuine(i)' /\ Top(i)' = Top(n)' /\ Bottom(n)' <= Bottom(i)'
      BY <1>1, <1>3, <1>5, <1>12, <2>1, <2>2
    <3>2. log'[n].action = "IvBottomOld" /\ DOMAIN log' = 1 .. n
      BY <2>1
    <3>3. ASSUME NEW j \in 1 .. n - 1
          PROVE  /\ log'[j].action = "IvTopMismatch" =>
                      \E k \in 1 .. j-1 : Genuine(k)' /\ Top(k)' # Top(j)'
                 /\ log'[j].action = "IvBottomOld" =>
                      \E k \in 1 .. j-1 :
                        /\ Genuine(k)'
                        /\ Top(k)' = Top(j)'
                        /\ Bottom(j)' <= Bottom(k)'
      <4>1. /\ log[j].action = "IvTopMismatch" =>
                 \E k \in 1 .. j-1 : Genuine(k) /\ Top(k) # Top(j)
            /\ log[j].action = "IvBottomOld" =>
                 \E k \in 1 .. j-1 :
                   Genuine(k) /\ Top(k) = Top(j) /\ Bottom(j) <= Bottom(k)
        BY <1>3 DEF WarningsJustified
      <4>2. \A k \in 1 .. j : /\ log'[k] = log[k]
                              /\ Genuine(k)' <=> Genuine(k)
                              /\ Top(k)' = Top(k)
                              /\ Bottom(k)' = Bottom(k)
        BY <1>3, <2>1
      <4> QED
        BY <4>1, <4>2
    <3> QED
      BY <1>2, <3>1, <3>2, <3>3 DEF WarningsJustified
  <2> QED
    BY <2>3, <2>4, <2>5
<1> QED
  BY <1>9, <1>10, <1>11, <1>12 DEF handle_packet, Newer

(* Every step keeps the invariant: only a frame that carries a message, and *)
(* a restart, touch the memory and the log.                                 *)
LEMMA IInvStep == IInv /\ [Next]_vars => IInv'
<1> SUFFICES ASSUME IInv, [Next]_vars
             PROVE  RemembersNewest' /\ ReportedInOrder' /\ WarningsJustified'
  BY TypeStep DEF IInv
<1>1. CASE UNCHANGED <<iv, log>>
  BY <1>1 DEF IInv, RemembersNewest, ReportedInOrder, WarningsJustified,
              Genuine, Top, Bottom
<1>2. CASE Restart
  <2>1. iv' = NoIv /\ log' = <<>> /\ DOMAIN log' = {}
    BY <1>2 DEF Restart
  <2> QED
    BY <2>1 DEF RemembersNewest, ReportedInOrder, WarningsJustified
<1>3. CASE watch
  <2>1. CASE Carries(radio) = "nullopt"
    BY <1>1, <1>3, <2>1 DEF watch
  <2>2. CASE Carries(radio) # "nullopt"
    <3>1. handle_packet(parse_packet(radio), Carries(radio))
      BY <1>3, <2>2 DEF watch
    <3>2. parse_packet(radio).iv \in IV /\ Carries(radio) \in DoorAction
      BY <1>3, <2>2, WatchReports DEF IInv
    <3> QED
      BY <3>1, <3>2, HandlePacketStep
  <2> QED
    BY <2>1, <2>2
<1> QED
  BY <1>1, <1>2, <1>3 DEF Next, Start, Hear, receive_times_out, vars

(* The memory always means what RemembersNewest says of it. *)
LEMMA Invariant == Spec => []IInv
<1>1. Init => IInv
  <2>1. Init => log = <<>> /\ DOMAIN log = {} /\ iv = NoIv
    BY DEF Init
  <2> QED
    BY <2>1, TypeInit DEF IInv, RemembersNewest, ReportedInOrder,
                      WarningsJustified
<1> QED
  BY <1>1, IInvStep, PTL DEF Spec

(***************************************************************************)
(* Whatever is heard, in whatever order and however often, the door        *)
(* actions passed to the action handler since the start are of one start   *)
(* of the sender and of rising counters (main.cpp:248-265).                *)
(***************************************************************************)
THEOREM ReportsInOrder == Spec => []ReportedInOrder
<1>1. IInv => ReportedInOrder
  BY DEF IInv
<1> QED
  BY <1>1, Invariant, PTL

(***************************************************************************)
(* No warning comes without a reported message that it contradicts         *)
(* (main.cpp:254-260).                                                      *)
(***************************************************************************)
THEOREM WarningsAreJustified == Spec => []WarningsJustified
<1>1. IInv => WarningsJustified
  BY DEF IInv
<1> QED
  BY <1>1, Invariant, PTL
=============================================================================
