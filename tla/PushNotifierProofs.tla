-------------------------- MODULE PushNotifierProofs -------------------------
(***************************************************************************)
(* Theorems about the push handler of variant B, from the inside out: the  *)
(* buffer of its client, the handler that owns it, and the attempt it      *)
(* makes for each action.  They hold for every limit of the buffer, size   *)
(* of an answer, lifetime of a token and bound on the actions.             *)
(***************************************************************************)
EXTENDS PushNotifier, TLAPS

(***************************************************************************)
(* The requests and the buffer of the client (tcpclient.cpp).              *)
(***************************************************************************)
LEMMA ClientSends ==
  ASSUME Tcp!IInv, Tcp!TcpAssumption,
         NEW m \in Messages, Tcp!send_message(m)
  PROVE  Tcp!IInv'
<1> USE DEF Tcp!send_message, Tcp!TcpAssumption
<1>1. Tcp!TypeOK'
  BY DEF Tcp!IInv, Tcp!TypeOK, Tcp!PcbState
<1>2. wire = NoMessage /\ reply = <<>> /\ reply \in Seq(Tcp!Piece)
  <2>1. tcp_pcb = "nullptr"
    BY DEF Tcp!is_finished
  <2> QED
    BY <2>1 DEF Tcp!IInv, Tcp!TypeOK, Tcp!RequestKept, Tcp!ReplyFollows
<1>3. Tcp!RequestKept'
  BY <1>2 DEF Tcp!RequestKept
<1>4. Tcp!ReplyFollows' /\ Tcp!ResponseIsLatest'
  BY <1>2 DEF Tcp!ReplyFollows, Tcp!ResponseIsLatest
<1>5. Tcp!LengthKept' /\ Tcp!StartKept'
  BY DEF Tcp!LengthKept, Tcp!StartKept
<1> QED
  BY <1>1, <1>3, <1>4, <1>5 DEF Tcp!IInv

(* What ends a connection takes what was still on its way to the client     *)
(* with it.                                                                 *)
LEMMA ClientEnds ==
  ASSUME Tcp!IInv, Tcp!TcpAssumption, Tcp!LeftBehind,
         tcp_pcb' \in {"nullptr", "aborted"},
         UNCHANGED <<message, last_response, asked>>
  PROVE  Tcp!IInv'
<1> USE DEF Tcp!LeftBehind
<1>1. Tcp!TypeOK'
  BY DEF Tcp!IInv, Tcp!TypeOK, Tcp!PcbState
<1>2. Tcp!RequestKept' /\ Tcp!ReplyFollows'
  BY DEF Tcp!RequestKept, Tcp!ReplyFollows
<1>3. (Tcp!LengthKept /\ Tcp!StartKept /\ Tcp!ResponseIsLatest)'
  BY DEF Tcp!IInv, Tcp!LengthKept, Tcp!StartKept,
         Tcp!ResponseIsLatest, Tcp!Bytes, Tcp!BufferEnd
<1> QED
  BY <1>1, <1>2, <1>3 DEF Tcp!IInv

(* The request goes on the wire, nothing has come back yet.                 *)
LEMMA ClientConnects ==
  ASSUME Tcp!IInv, Tcp!TcpAssumption, Tcp!connected
  PROVE  Tcp!IInv'
<1>1. /\ message \in Messages /\ message = asked /\ last_response = <<>>
      /\ reply \in Seq(Tcp!Piece) /\ reply = <<>>
  BY DEF Tcp!IInv, Tcp!TypeOK, Tcp!RequestKept, Tcp!ReplyFollows, Tcp!connected
<1>2. /\ UNCHANGED <<last_response, asked, late, reply>>
      /\ tcp_pcb' = "connected" /\ message' = NoMessage
      /\ wire' \in {message, NoMessage}
  BY DEF Tcp!connected
<1>3. Tcp!TypeOK'
  BY <1>1, <1>2 DEF Tcp!IInv, Tcp!TypeOK, Tcp!PcbState
<1>4. Tcp!RequestKept' /\ Tcp!ReplyFollows'
  BY <1>1, <1>2 DEF Tcp!RequestKept, Tcp!ReplyFollows
<1>5. (Tcp!LengthKept /\ Tcp!StartKept /\ Tcp!ResponseIsLatest)'
  BY <1>1, <1>2
  DEF Tcp!LengthKept, Tcp!StartKept, Tcp!ResponseIsLatest
<1> QED
  BY <1>3, <1>4, <1>5 DEF Tcp!IInv

(* An answer starts at its beginning, and its pieces are without a gap.     *)
LEMMA ServerAnswers ==
  ASSUME Tcp!IInv, Tcp!TcpAssumption, Tcp!arrives
  PROVE  Tcp!IInv'
<1>1. /\ wire \in Messages /\ wire = asked /\ last_response = <<>>
      /\ tcp_pcb = "connected"
  BY DEF Tcp!IInv, Tcp!TypeOK, Tcp!RequestKept, Tcp!arrives
<1>2. /\ UNCHANGED <<tcp_pcb, message, last_response, asked, late>>
      /\ wire' = NoMessage
  BY DEF Tcp!arrives
<1>3. ASSUME NEW ends \in Replies
      PROVE  LET pieces == Tcp!Pieces(wire, ends)
             IN  /\ pieces \in Seq(Tcp!Piece)
                 /\ pieces # <<>> => pieces[1].offset = 0
                 /\ \A i \in DOMAIN pieces : pieces[i].of = asked
                 /\ \A i \in 1 .. Len(pieces) - 1 :
                      pieces[i+1].offset = pieces[i].offset + pieces[i].size
  <2> DEFINE pieces == Tcp!Pieces(wire, ends)
             Begin(i) == Tcp!Begin(ends, i)
  <2>1. ends \in Seq(Nat) /\ DOMAIN ends = 1 .. Len(ends) /\ Len(ends) \in Nat
    BY DEF Tcp!TcpAssumption
  <2>2. \A i \in 1 .. Len(ends) :
          Begin(i) \in Nat /\ ends[i] \in Nat /\ Begin(i) < ends[i]
    <3>1. \A i \in 1 .. Len(ends) : ends[i] \in Nat
      BY <2>1
    <3>2. \A i \in 1 .. Len(ends) : Begin(i) \in Nat
      BY <2>1, <3>1 DEF Tcp!Begin
    <3> QED
      BY <2>1, <3>1, <3>2 DEF Tcp!TcpAssumption
  <2>3. \A i \in 1 .. Len(ends) - 1 : Begin(i + 1) = ends[i]
    BY <2>1 DEF Tcp!Begin
  <2>4. ends # <<>> => Begin(1) = 0
    BY DEF Tcp!Begin
  <2> HIDE DEF Begin
  <2>5. pieces = [i \in 1 .. Len(ends) |->
                    [of |-> wire, offset |-> Begin(i), size |-> ends[i] - Begin(i)]]
    BY <2>1 DEF Tcp!Pieces, Begin
  <2> HIDE DEF pieces
  <2>6. \A i \in 1 .. Len(ends) : pieces[i] \in Tcp!Piece
    BY <1>1, <2>2, <2>5 DEF Tcp!Piece
  <2>7. pieces \in Seq(Tcp!Piece) /\ Len(pieces) = Len(ends)
    BY <2>1, <2>5, <2>6
  <2>8. pieces # <<>> => pieces[1].offset = 0
    BY <2>1, <2>4, <2>5, <2>7
  <2>9. \A i \in 1 .. Len(pieces) - 1 :
          pieces[i+1].offset = pieces[i].offset + pieces[i].size
    BY <2>1, <2>2, <2>3, <2>5, <2>7
  <2>10. \A i \in DOMAIN pieces : pieces[i].of = asked
    BY <1>1, <2>5
  <2> QED
    BY <2>7, <2>8, <2>9, <2>10 DEF pieces
<1>4. /\ reply' \in Seq(Tcp!Piece)
      /\ reply' # <<>> => reply'[1].offset = 0
      /\ \A i \in DOMAIN reply' : reply'[i].of = asked
      /\ \A i \in 1 .. Len(reply') - 1 :
           reply'[i+1].offset = reply'[i].offset + reply'[i].size
  <2>1. PICK ends \in Replies : reply' = Tcp!Pieces(wire, ends)
    BY DEF Tcp!arrives
  <2> QED
    BY <1>3, <2>1
<1>5. Tcp!TypeOK'
  BY <1>1, <1>2, <1>4 DEF Tcp!IInv, Tcp!TypeOK
<1>6. Tcp!RequestKept' /\ Tcp!ReplyFollows'
  BY <1>1, <1>2, <1>4
  DEF Tcp!RequestKept, Tcp!ReplyFollows, Tcp!BufferEnd
<1>7. (Tcp!LengthKept /\ Tcp!StartKept /\ Tcp!ResponseIsLatest)'
  BY <1>1, <1>2
  DEF Tcp!LengthKept, Tcp!StartKept, Tcp!ResponseIsLatest
<1> QED
  BY <1>5, <1>6, <1>7 DEF Tcp!IInv

(* A piece goes behind what is in the buffer, or starts it again.           *)
LEMMA ClientReceives ==
  ASSUME Tcp!IInv, Tcp!TcpAssumption, Tcp!recv
  PROVE  Tcp!IInv'
<1> DEFINE piece == reply[1]
           kept == IF Tcp!Full THEN <<>> ELSE last_response
           e == [of |-> piece.of, offset |-> piece.offset,
                 size |-> piece.size, at |-> Tcp!Bytes(kept)]
           n == Len(kept) + 1
<1>1. /\ reply \in Seq(Tcp!Piece) /\ Len(reply) \in Nat /\ Len(reply) > 0
      /\ last_response \in Seq(Tcp!Buffered)
      /\ ResponseLimit \in Nat
  BY DEF Tcp!IInv, Tcp!TypeOK, Tcp!recv, Tcp!TcpAssumption
<1>2. /\ reply' = Tail(reply) /\ UNCHANGED <<tcp_pcb, message, asked, wire, late>>
      /\ tcp_pcb = "connected" /\ wire = NoMessage
  BY DEF Tcp!recv, Tcp!IInv, Tcp!RequestKept
<1>10. last_response' = Append(kept, e)
  <2>1. Head(reply) = piece
    BY <1>1
  <2>2. Tcp!buffer_response(piece)
    BY <2>1 DEF Tcp!recv
  <2> QED
    BY <2>2 DEF Tcp!buffer_response
<1>3. /\ reply' \in Seq(Tcp!Piece) /\ Len(reply') = Len(reply) - 1
      /\ \A i \in 1 .. Len(reply) - 1 : reply'[i] = reply[i+1]
  BY <1>1, <1>2
<1>4. /\ piece \in Tcp!Piece /\ piece.of \in Messages
      /\ piece.offset \in Nat /\ piece.size \in Nat \ {0}
  <2>1. piece \in Tcp!Piece
    BY <1>1
  <2> QED
    BY <2>1 DEF Tcp!Piece
<1>5. piece.of = asked /\ piece.offset = Tcp!BufferEnd
  BY <1>1 DEF Tcp!IInv, Tcp!ReplyFollows
<1>6. kept \in Seq(Tcp!Buffered) /\ Len(kept) \in Nat
  BY <1>1
<1>7. Tcp!Bytes(kept) \in Nat
  <2>1. CASE kept = <<>>
    BY <2>1 DEF Tcp!Bytes
  <2>2. CASE kept # <<>>
    <3>1. kept[Len(kept)] \in Tcp!Buffered
      BY <1>6, <2>2
    <3> QED
      BY <2>2, <3>1 DEF Tcp!Bytes, Tcp!Buffered
  <2> QED
    BY <2>1, <2>2
<1>19. \/ kept = <<>> /\ Tcp!Full
       \/ kept = last_response /\ ~ Tcp!Full
  OBVIOUS
<1> HIDE DEF kept
<1>8. e \in Tcp!Buffered
  BY <1>4, <1>7 DEF Tcp!Buffered
<1>9. /\ e.of = asked /\ e.offset = Tcp!BufferEnd /\ e.offset \in Nat
      /\ e.size \in Nat \ {0} /\ e.at = Tcp!Bytes(kept)
      /\ e.offset = reply[1].offset /\ e.size = reply[1].size
  BY <1>4, <1>5
<1> HIDE DEF e, piece
<1>11. /\ last_response' \in Seq(Tcp!Buffered)
       /\ Len(last_response') = n /\ n \in Nat /\ n > 0
       /\ last_response' # <<>> /\ last_response'[n] = e
       /\ \A i \in 1 .. n - 1 : last_response'[i] = kept[i]
  BY <1>6, <1>8, <1>10
<1>12. /\ Tcp!Bytes(last_response') = e.at + e.size
       /\ Tcp!BufferEnd' = e.offset + e.size
  BY <1>11 DEF Tcp!Bytes, Tcp!BufferEnd
<1>13. Tcp!TypeOK'
  BY <1>2, <1>3, <1>11 DEF Tcp!IInv, Tcp!TypeOK
<1>14. Tcp!RequestKept'
  BY <1>2 DEF Tcp!RequestKept
<1>15. Tcp!ReplyFollows'
  <2>1. /\ \A i \in DOMAIN reply : reply[i].of = asked
        /\ \A i \in 1 .. Len(reply) - 1 :
             reply[i+1].offset = reply[i].offset + reply[i].size
    BY DEF Tcp!IInv, Tcp!ReplyFollows
  <2>2. reply' # <<>> => Len(reply) > 1
    BY <1>1, <1>3
  <2>3. reply' # <<>> => reply'[1].offset = e.offset + e.size
    BY <1>1, <1>3, <1>9, <2>1, <2>2
  <2>4. \A i \in DOMAIN reply' : reply'[i].of = asked'
    BY <1>1, <1>2, <1>3, <2>1
  <2>5. \A i \in 1 .. Len(reply') - 1 :
          reply'[i+1].offset = reply'[i].offset + reply'[i].size
    BY <1>1, <1>3, <2>1
  <2> QED
    BY <1>2, <1>12, <2>3, <2>4, <2>5 DEF Tcp!ReplyFollows
<1>16. Tcp!ResponseIsLatest'
  <2>1. Tcp!ResponseIsLatest
    BY DEF Tcp!IInv
  <2>2. ASSUME NEW i \in 1 .. n PROVE last_response'[i].of = asked'
    <3>1. CASE i = n
      BY <1>2, <1>9, <1>11, <3>1
    <3>2. CASE i < n
      <4>1. kept = last_response /\ i \in DOMAIN last_response
        BY <1>6, <1>19, <3>2
      <4> QED
        BY <1>2, <1>6, <1>11, <2>1, <3>2, <4>1 DEF Tcp!ResponseIsLatest
    <3> QED
      BY <1>6, <3>1, <3>2
  <2>3. kept # <<>> => n > 1 /\ e.offset = kept[n-1].offset + kept[n-1].size
    BY <1>1, <1>6, <1>9, <1>19 DEF Tcp!BufferEnd
  <2>4. ASSUME NEW i \in 1 .. n - 1
        PROVE  last_response'[i+1].offset =
                 last_response'[i].offset + last_response'[i].size
    <3>1. CASE i = n - 1
      BY <1>6, <1>11, <2>3, <2>4, <3>1
    <3>2. CASE i < n - 1
      <4>1. kept = last_response /\ i \in 1 .. Len(last_response) - 1
        BY <1>6, <1>19, <3>2
      <4> QED
        BY <1>6, <1>11, <2>1, <3>2, <4>1 DEF Tcp!ResponseIsLatest
    <3> QED
      BY <1>6, <3>1, <3>2
  <2> QED
    BY <1>11, <2>2, <2>4 DEF Tcp!ResponseIsLatest
<1>17. Tcp!LengthKept'
  <2>1. CASE kept = <<>>
    BY <1>9, <1>11, <1>12, <2>1 DEF Tcp!LengthKept, Tcp!Bytes
  <2>2. CASE kept # <<>>
    <3>1. kept = last_response /\ last_response'[1] = last_response[1]
      BY <1>6, <1>11, <1>19, <2>2
    <3>2. last_response[1] \in Tcp!Buffered
      BY <1>1, <2>2, <3>1
    <3> QED
      BY <1>9, <1>11, <1>12, <1>7, <2>2, <3>1, <3>2
      DEF Tcp!IInv, Tcp!LengthKept, Tcp!Buffered
  <2> QED
    BY <2>1, <2>2
<1>18. Tcp!StartKept'
  <2>1. Tcp!Bytes(kept) <= ResponseLimit
    BY <1>1, <1>7, <1>19 DEF Tcp!Full, Tcp!Bytes
  <2>2. Tcp!Bytes(last_response') <= ResponseLimit + e.size
    BY <1>1, <1>7, <1>9, <1>12, <2>1
  <2>3. e.offset <= ResponseLimit => last_response'[1].offset = 0
    <3>1. CASE last_response = <<>>
      BY <1>1, <1>6, <1>9, <1>11, <1>19, <3>1 DEF Tcp!BufferEnd
    <3>2. CASE last_response # <<>> /\ ~ Tcp!Full
      <4> DEFINE last == last_response[Len(last_response)]
      <4>1. last \in Tcp!Buffered
        BY <1>1, <3>2
      <4>2. last.offset \in Nat /\ last.size \in Nat /\ e.offset = last.offset + last.size
        BY <1>9, <3>2, <4>1 DEF Tcp!BufferEnd, Tcp!Buffered
      <4>3. last.offset <= ResponseLimit => last_response[1].offset = 0
        BY <3>2 DEF Tcp!IInv, Tcp!StartKept
      <4>4. last_response'[1] = last_response[1]
        BY <1>1, <1>6, <1>11, <1>19, <3>2
      <4> QED
        BY <1>1, <4>2, <4>3, <4>4
    <3>3. CASE last_response # <<>> /\ Tcp!Full
      <4>1. last_response[1] \in Tcp!Buffered
        BY <1>1, <3>3
      <4>2. e.offset = last_response[1].offset + Tcp!Bytes(last_response)
        BY <1>9, <3>3 DEF Tcp!IInv, Tcp!LengthKept
      <4>3. Tcp!Bytes(last_response) \in Nat
        <5>1. last_response[Len(last_response)] \in Tcp!Buffered
          BY <1>1, <3>3
        <5> QED
          BY <3>3, <5>1 DEF Tcp!Bytes, Tcp!Buffered
      <4> QED
        BY <1>1, <3>3, <4>1, <4>2, <4>3 DEF Tcp!Full, Tcp!Buffered
    <3> QED
      BY <3>1, <3>2, <3>3
  <2> QED
    BY <1>11, <2>2, <2>3 DEF Tcp!StartKept
<1> QED
  BY <1>13, <1>14, <1>15, <1>16, <1>17, <1>18 DEF Tcp!IInv

(* Each callback of lwIP, what a server reads, and nothing, keep the client *)
(* in order.                                                                *)
LEMMA ClientCallback ==
  ASSUME Tcp!IInv, Tcp!TcpAssumption,
         \/ Tcp!Callback \/ Tcp!arrives
         \/ \E m \in late : Tcp!arrives_late(m)
         \/ UNCHANGED tcpVars
  PROVE  Tcp!IInv'
<1>1. CASE Tcp!connected
  BY <1>1, ClientConnects
<1>2. CASE Tcp!recv
  BY <1>2, ClientReceives
<1>3. CASE Tcp!connect_failed \/ Tcp!recv_closed \/ Tcp!poll
           \/ Tcp!err \/ Tcp!err_abrt
  BY <1>3, ClientEnds
  DEF Tcp!connect_failed, Tcp!recv_closed, Tcp!poll,
      Tcp!err, Tcp!err_abrt, Tcp!handle_result, Tcp!close
<1>4. CASE Tcp!arrives
  BY <1>4, ServerAnswers
<1>5. CASE \/ \E m \in late : Tcp!arrives_late(m)
           \/ UNCHANGED tcpVars
  <2>1. /\ UNCHANGED <<tcp_pcb, message, last_response, asked, wire, reply>>
        /\ late' \subseteq late
    BY <1>5 DEF tcpVars, Tcp!arrives_late
  <2> QED
    BY <2>1
    DEF Tcp!IInv, Tcp!TypeOK, Tcp!ReplyFollows,
        Tcp!RequestKept, Tcp!LengthKept, Tcp!ResponseIsLatest,
        Tcp!StartKept, Tcp!BufferEnd, Tcp!Bytes
<1> QED
  BY <1>1, <1>2, <1>3, <1>4, <1>5 DEF Tcp!Callback

-----------------------------------------------------------------------------
(* What the invariant says of the handler's variables.                      *)
LEMMA HandlerFacts ==
  ASSUME ClientInv
  PROVE  /\ time \in StartTime .. MaxTime /\ rtc \in Time \cup {Unset}
         /\ actions \in Nat /\ actions <= MaxActions
         /\ auth_token \in Token /\ last_oauth_timestamp \in Readings
         /\ time \in Nat /\ time >= StartTime /\ last_oauth_timestamp \in Nat
         /\ last_expires_in \in Nat /\ delivered \in Seq(Action)
         /\ issued \in [Action -> {NoToken} \cup Grant]
         /\ highest \in Nat /\ set_back \in BOOLEAN /\ taken \in Nat
         /\ unixnowseconds \subseteq Readings /\ Readings \subseteq Nat
         /\ Tcp!IInv /\ Tcp!TypeOK
<1>1. /\ rtc \in Time \cup {Unset} /\ actions \in Nat /\ actions <= MaxActions
      /\ delivered \in Seq(Action)
  BY NotifierAssumption DEF ClientInv, TypeOK
<1>2. unixnowseconds \subseteq Readings
  BY <1>1 DEF unixnowseconds, Readings
<1>3. time \in Nat /\ time >= StartTime /\ Readings \subseteq Nat
  <2>1. time \in StartTime .. MaxTime
    BY DEF ClientInv, TypeOK
  <2>2. StartTime \in Nat /\ MaxTime + Fast \in Nat /\ Garbage \subseteq Nat
    BY NotifierAssumption
  <2>3. Time \subseteq Nat
    BY <2>2 DEF Time
  <2> QED
    BY <2>1, <2>2, <2>3 DEF Readings
<1> QED
  BY <1>1, <1>2, <1>3 DEF ClientInv, TypeOK

(***************************************************************************)
(* The handler's own steps (watchdog/main.cpp:143-190).                    *)
(***************************************************************************)
LEMMA ActionStarts ==
  ASSUME ClientInv, action_handler
  PROVE  ClientInv'
<1> USE NotifierAssumption, HandlerFacts DEF action_handler
<1>1. PICK now \in unixnowseconds :
        /\ \/ auth_token' = NoToken /\ pc' = "oauth_lookup" /\ taken' = 0
           \/ /\ UNCHANGED <<auth_token, taken>>
              /\ pc' = IF auth_token = NoToken THEN "loop" ELSE "fcm_lookup"
        /\ GoesBy(now)
  OBVIOUS
<1>2. /\ pc = "loop" /\ pc' \in {"loop", "oauth_lookup", "fcm_lookup"}
      /\ actions' = actions + 1 /\ actions' \in 0 .. MaxActions
      /\ auth_token' \in Token
      /\ pc' = "fcm_lookup" => auth_token' # NoToken
      /\ UNCHANGED <<time, rtc, last_oauth_timestamp, last_expires_in, issued,
                     delivered, tcpVars>>
  BY <1>1 DEF clocks, servers, Token
<1>3. highest' \in Nat /\ set_back' \in BOOLEAN /\ taken' \in Nat
  <2>1. now \in Nat
    BY <1>1
  <2> QED
    BY <1>1, <2>1 DEF GoesBy
<1>4. Tcp!IInv'
  BY <1>2, ClientCallback
<1>5. TypeOK'
  BY <1>2, <1>3, <1>4 DEF ClientInv, TypeOK, Tcp!IInv
<1>6. ClientIsHandlers'
  BY <1>2 DEF ClientInv, ClientIsHandlers, Waiting, tcpVars
<1> QED
  BY <1>4, <1>5, <1>6 DEF ClientInv

(* A request is made, for the action at hand.                               *)
LEMMA RequestIsSent ==
  ASSUME ClientInv, oauth_send \/ fcm_send
  PROVE  ClientInv'
<1> USE NotifierAssumption, HandlerFacts
<1>1. actions \in Action
  BY DEF ClientInv, ClientIsHandlers, Action, oauth_send, fcm_send
<1>2. /\ pc' \in {"oauth_wait", "fcm_wait"}
      /\ UNCHANGED <<time, rtc, actions, auth_token, last_oauth_timestamp,
                     last_expires_in, issued, delivered, highest, set_back, taken>>
      /\ actions > 0
  BY <1>1 DEF oauth_send, fcm_send, clocks, token, servers, history, Action
<1>3. PICK request \in Messages :
        /\ Tcp!send_message(request)
        /\ request.action = actions
        /\ pc' = "oauth_wait" => request.to = "oauth2"
        /\ pc' = "fcm_wait" => request.to = "fcm"
  <2>1. CASE oauth_send
    <3>1. PICK request \in oauth2_requests : Tcp!send_message(request)
      BY <2>1 DEF oauth_send
    <3>2. PICK iat \in Readings \cup {Unset} :
            request = [to |-> "oauth2", action |-> actions, iat |-> iat]
      <4> DEFINE Signed == UNION {sign(now) : now \in unixnowseconds}
                 Encoded == UNION {base64(signed) : signed \in Signed}
      <4>1. Signed \subseteq Readings \cup {Unset}
        BY DEF sign
      <4> HIDE DEF Signed
      <4>2. Encoded \subseteq Readings \cup {Unset}
        BY <4>1 DEF base64
      <4>3. oauth2_requests =
              {[to |-> "oauth2", action |-> actions, iat |-> encoded] :
                 encoded \in Encoded}
        BY DEF oauth2_requests, Signed
      <4> HIDE DEF Encoded
      <4> QED
        BY <3>1, <4>2, <4>3
    <3>3. request \in Messages
      BY <1>1, <3>2 DEF Messages, OAuth2Request
    <3>4. request.action = actions /\ request.to = "oauth2" /\ pc' = "oauth_wait"
      BY <2>1, <3>2 DEF oauth_send
    <3> QED
      BY <3>1, <3>3, <3>4
  <2>2. CASE fcm_send
    <3>1. auth_token \in Action
      BY <2>2 DEF ClientInv, ClientIsHandlers, fcm_send, Token
    <3>2. fcm_request \in Messages
      BY <1>1, <3>1 DEF fcm_request, Messages, FcmRequest
    <3>3. fcm_request.action = actions /\ fcm_request.to = "fcm"
      BY DEF fcm_request
    <3> QED
      BY <2>2, <3>2, <3>3 DEF fcm_send
  <2> QED
    BY <2>1, <2>2
<1>4. Tcp!IInv'
  BY <1>3, ClientSends
<1>5. asked' = request /\ request # NoMessage
  BY <1>3 DEF Tcp!send_message, Tcp!TcpAssumption
<1>6. TypeOK'
  BY <1>2, <1>4 DEF ClientInv, TypeOK, Tcp!IInv
<1>7. ClientIsHandlers'
  BY <1>2, <1>3, <1>5 DEF ClientIsHandlers, Waiting
<1> QED
  BY <1>4, <1>6, <1>7 DEF ClientInv

(* The handler goes on without one, or with what the client has got.        *)
LEMMA HandlerGoesOn ==
  ASSUME ClientInv,
         oauth_lookup_failed \/ oauth_finished
         \/ fcm_lookup_failed \/ fcm_finished
  PROVE  ClientInv'
<1> USE NotifierAssumption, HandlerFacts
<1>1. /\ pc' \in {"loop", "fcm_lookup"}
      /\ pc' = "fcm_lookup" => auth_token' # NoToken
      /\ pc # "loop"
      /\ pc \in {"oauth_wait", "fcm_wait"} => tcp_pcb = "nullptr"
      /\ UNCHANGED <<time, rtc, actions, issued, delivered, tcpVars>>
  BY DEF oauth_lookup_failed, oauth_finished, fcm_lookup_failed,
         fcm_finished, AfterOAuth, clocks, token, servers,
         Tcp!is_finished
<1>2. /\ auth_token' \in Token /\ last_oauth_timestamp' \in Readings
      /\ last_expires_in' \in Nat
      /\ highest' \in Nat /\ set_back' \in BOOLEAN /\ taken' \in Nat
  <2>1. CASE UNCHANGED <<token, history>>
    BY <2>1 DEF token, history
  <2>2. CASE oauth_finished /\ ~ UNCHANGED <<token, history>>
    <3> DEFINE n == last_response[1].of.action
    <3>1. /\ parse_response /\ last_oauth_timestamp' \in unixnowseconds
          /\ last_expires_in' = issued[n].expires_in /\ auth_token' = n
          /\ GoesBy(last_oauth_timestamp') /\ taken' = time
      BY <2>2 DEF oauth_finished
    <3>2. n \in Action
      <4>1. last_response[1] \in Tcp!Buffered /\ last_response[1].of.to = "oauth2"
        BY <3>1 DEF parse_response, Tcp!TypeOK
      <4>2. last_response[1].of \in Messages
        BY <4>1 DEF Tcp!Buffered
      <4> QED
        BY <4>2 DEF Messages, OAuth2Request, FcmRequest
    <3>3. issued[n] \in Grant
      BY <3>1, <3>2 DEF parse_response
    <3>4. issued[n].expires_in \in Nat
      BY <3>3 DEF Grant
    <3>5. highest' \in Nat /\ set_back' \in BOOLEAN
      <4>1. last_oauth_timestamp' \in Nat
        BY <3>1
      <4> QED
        BY <3>1, <4>1 DEF GoesBy
    <3> QED
      BY <3>1, <3>2, <3>4, <3>5 DEF Token
  <2> QED
    BY <2>1, <2>2 DEF oauth_lookup_failed, oauth_finished,
                      fcm_lookup_failed, fcm_finished
<1>3. Tcp!IInv'
  BY <1>1, ClientCallback
<1>4. TypeOK'
  BY <1>1, <1>2, <1>3 DEF ClientInv, TypeOK, Tcp!IInv
<1>5. ClientIsHandlers'
  BY <1>1 DEF ClientInv, ClientIsHandlers, Waiting, tcpVars
<1> QED
  BY <1>3, <1>4, <1>5 DEF ClientInv

(* What a server makes of a request keeps its type.                         *)
LEMMA ServersKeepTypes ==
  ASSUME ClientInv, NEW request \in Messages, Served(request)
  PROVE  /\ issued' \in [Action -> {NoToken} \cup Grant]
         /\ \/ UNCHANGED delivered
            \/ /\ request.to = "fcm"
               /\ delivered' = Append(delivered, request.action)
         /\ request.action \in Action
         /\ delivered' \in Seq(Action)
<1> USE NotifierAssumption, HandlerFacts
<1>1. request.action \in Action
  BY DEF Messages, OAuth2Request, FcmRequest
<1>2. CASE UNCHANGED servers
  BY <1>1, <1>2 DEF servers
<1>3. CASE /\ UNCHANGED delivered
           /\ \E seconds \in Lifetimes :
                issued' = [issued EXCEPT ![request.action] =
                             [until |-> time + seconds, expires_in |-> seconds]]
  <2>1. PICK seconds \in Lifetimes :
          issued' = [issued EXCEPT ![request.action] =
                       [until |-> time + seconds, expires_in |-> seconds]]
    BY <1>3
  <2>2. seconds \in Nat /\ time \in Nat
    OBVIOUS
  <2>3. [until |-> time + seconds, expires_in |-> seconds] \in Grant
    BY <2>2 DEF Grant
  <2>4. issued' \in [Action -> {NoToken} \cup Grant]
    BY <2>1, <2>3
  <2> QED
    BY <1>1, <1>3, <2>4
<1>4. CASE /\ request.to = "fcm" /\ UNCHANGED issued
           /\ delivered' = Append(delivered, request.action)
  <2>1. delivered' \in Seq(Action)
    BY <1>1, <1>4
  <2> QED
    BY <1>1, <1>4, <2>1
<1> QED
  BY <1>2, <1>3, <1>4 DEF Served

(* The callbacks, the servers and the clocks leave the handler alone.       *)
LEMMA WorldGoesOn ==
  ASSUME ClientInv,
         \/ Network \/ Arrives \/ ArrivesLate
         \/ Tick \/ NtpAnswers \/ UNCHANGED vars
  PROVE  ClientInv'
<1> USE NotifierAssumption, HandlerFacts
<1>1. /\ UNCHANGED <<pc, actions, auth_token, last_oauth_timestamp,
                     last_expires_in, highest, set_back, taken>>
      /\ \/ Tcp!Callback \/ Tcp!arrives
         \/ \E m \in late : Tcp!arrives_late(m)
         \/ UNCHANGED tcpVars
  BY DEF Network, Arrives, ArrivesLate, Tick, NtpAnswers, vars, token,
         history, tcpVars
<1>2. Tcp!IInv'
  BY <1>1, ClientCallback
<1>3. time' \in StartTime .. MaxTime /\ rtc' \in Time \cup {Unset}
  <2>1. CASE UNCHANGED <<time, rtc>>
    BY <2>1
  <2>2. CASE Tick
    <3>1. time' \in StartTime .. MaxTime
      <4>1. time' = time + 1 /\ time < MaxTime
        BY <2>2 DEF Tick
      <4> QED
        BY <4>1
    <3>2. rtc # Unset => rtc \in Nat
      BY DEF Time
    <3>3. \/ rtc' = Unset
          \/ rtc # Unset /\ rtc' \in {rtc + 1, rtc + 2} /\ rtc' <= time' + Fast
      BY <2>2 DEF Tick
    <3>4. rtc' = Unset \/ (rtc' \in Nat /\ rtc' <= MaxTime + Fast)
      <4>1. time' \in Nat /\ time' <= MaxTime /\ MaxTime \in Nat /\ Fast \in Nat
        BY <3>1
      <4> HIDE NotifierAssumption, HandlerFacts
      <4> QED
        BY <3>2, <3>3, <4>1
    <3> QED
      BY <3>1, <3>4 DEF Time
  <2>3. CASE NtpAnswers
    BY <2>3 DEF NtpAnswers, Time
  <2> QED
    BY <2>1, <2>2, <2>3 DEF Network, Arrives, ArrivesLate, vars, clocks
<1>4. issued' \in [Action -> {NoToken} \cup Grant] /\ delivered' \in Seq(Action)
  <2>1. CASE Arrives
    <3>1. wire \in Messages /\ Served(wire)
      BY <2>1 DEF Arrives, Tcp!arrives, Tcp!TypeOK
    <3> QED
      BY <3>1, ServersKeepTypes
  <2>2. CASE ArrivesLate
    <3>1. PICK request \in late : Served(request)
      BY <2>2 DEF ArrivesLate
    <3>2. request \in Messages
      BY <3>1 DEF Tcp!TypeOK, Tcp!TcpAssumption
    <3> QED
      BY <3>1, <3>2, ServersKeepTypes
  <2>3. CASE UNCHANGED servers
    BY <2>3 DEF servers
  <2> QED
    BY <2>1, <2>2, <2>3 DEF Network, Tick, NtpAnswers, vars, servers
<1>5. /\ UNCHANGED asked
      /\ tcp_pcb = "nullptr" => tcp_pcb' = "nullptr"
  BY DEF Network, Arrives, ArrivesLate, Tick, NtpAnswers, vars, tcpVars,
         Tcp!Callback, Tcp!connected, Tcp!arrives, Tcp!arrives_late,
         Tcp!connect_failed, Tcp!recv, Tcp!recv_closed,
         Tcp!poll, Tcp!err, Tcp!err_abrt, Tcp!Alive,
         Tcp!handle_result, Tcp!close
<1>6. TypeOK'
  BY <1>1, <1>2, <1>3, <1>4 DEF ClientInv, TypeOK, Tcp!IInv
<1>7. ClientIsHandlers'
  BY <1>1, <1>5 DEF ClientInv, ClientIsHandlers, Waiting
<1> QED
  BY <1>2, <1>6, <1>7 DEF ClientInv

LEMMA ClientStep ==
  ASSUME ClientInv, [Next]_vars
  PROVE  ClientInv'
<1>1. CASE action_handler
  BY <1>1, ActionStarts
<1>2. CASE Handler
  BY <1>2, RequestIsSent, HandlerGoesOn DEF Handler
<1>3. CASE \/ Network \/ Arrives \/ ArrivesLate
           \/ Tick \/ NtpAnswers \/ UNCHANGED vars
  BY <1>3, WorldGoesOn
<1> QED
  BY <1>1, <1>2, <1>3 DEF Next

-----------------------------------------------------------------------------
(***************************************************************************)
(* What Firebase has accepted and what is still under way to it.           *)
(***************************************************************************)
LEMMA FeedFacts ==
  ASSUME ClientInv
  PROVE  /\ Feed!Accepted \subseteq Action /\ Adrift \subseteq Action
         /\ Action \subseteq Nat
         /\ \A request \in late :
              request.action \in Action /\ request.action \in Adrift
<1>1. late \subseteq FcmRequest /\ delivered \in Seq(Action)
  BY HandlerFacts DEF Tcp!TypeOK, Lasting
<1>2. \A request \in late :
        request.action \in Action /\ request.action \in Adrift
  BY <1>1 DEF FcmRequest, Adrift
<1>3. Feed!Accepted \subseteq Action
  BY <1>1 DEF Feed!Accepted
<1> QED
  BY <1>2, <1>3 DEF Adrift, Action

(* One more action is accepted, for the first time.                         *)
LEMMA OneMoreAccepted ==
  ASSUME delivered \in Seq(Action), NEW n \in Action,
         delivered' = Append(delivered, n)
  PROVE  /\ Feed!Accepted' = Feed!Accepted \cup {n}
         /\ n \notin Feed!Accepted
            /\ (\A i, j \in DOMAIN delivered : i # j => delivered[i] # delivered[j])
            => \A i, j \in DOMAIN delivered' : i # j => delivered'[i] # delivered'[j]
<1> DEFINE k == Len(delivered)
<1>1. k \in Nat /\ DOMAIN delivered = 1 .. k /\ DOMAIN delivered' = 1 .. k + 1
  OBVIOUS
<1>2. /\ \A i \in 1 .. k : delivered'[i] = delivered[i]
      /\ delivered'[k+1] = n
  OBVIOUS
<1>3. 1 .. k + 1 = (1 .. k) \cup {k + 1}
  BY <1>1
<1> HIDE DEF k
<1>4. Feed!Accepted' = Feed!Accepted \cup {n}
  BY <1>1, <1>2, <1>3 DEF Feed!Accepted
<1>5. ASSUME n \notin Feed!Accepted,
             \A i, j \in DOMAIN delivered : i # j => delivered[i] # delivered[j],
             NEW i \in DOMAIN delivered', NEW j \in DOMAIN delivered', i # j
      PROVE  delivered'[i] # delivered'[j]
  <2>1. \A l \in 1 .. k : delivered[l] # n
    BY <1>1, <1>5 DEF Feed!Accepted
  <2>2. i \in 1 .. k \/ i = k + 1
    BY <1>1, <1>5
  <2>3. j \in 1 .. k \/ j = k + 1
    BY <1>1, <1>5
  <2> QED
    BY <1>1, <1>2, <1>5, <2>1, <2>2, <2>3
<1> QED
  BY <1>4, <1>5

(* The request on the wire is the handler's for the action at hand.         *)
LEMMA WireIsHandlers ==
  ASSUME ClientInv, wire # NoMessage
  PROVE  /\ wire \in Messages /\ tcp_pcb = "connected"
         /\ actions \in Action /\ wire.action = actions
         /\ wire.to = "fcm" => pc = "fcm_wait" /\ NotSent
         /\ wire \in Lasting => wire.to = "fcm"
<1>1. wire \in Messages /\ wire = asked /\ tcp_pcb = "connected"
  BY HandlerFacts DEF Tcp!IInv, Tcp!TypeOK, Tcp!RequestKept
<1>2. Waiting /\ wire.action = actions /\ (wire.to = "fcm" => pc = "fcm_wait")
  BY <1>1 DEF ClientInv, ClientIsHandlers, Waiting
<1>3. wire.action \in Action
  BY <1>1 DEF Messages, OAuth2Request, FcmRequest
<1>4. wire \in Lasting => wire.to = "fcm"
  BY DEF Lasting, FcmRequest
<1> QED
  BY <1>1, <1>2, <1>3, <1>4 DEF NotSent

(* Nothing is accepted, nothing left behind: what holds goes on holding as  *)
(* long as no message is taken back into the handler's hands.               *)
LEMMA FeedUnchanged ==
  ASSUME ClientInv, FeedInv, UNCHANGED <<delivered, late>>,
         \/ actions' = actions /\ (NotSent' => NotSent)
         \/ actions' = actions + 1
  PROVE  FeedInv'
<1>1. Feed!Accepted' = Feed!Accepted /\ Adrift' = Adrift
  BY DEF Feed!Accepted, Adrift
<1>2. HandledIsNew'
  BY <1>1, FeedFacts, HandlerFacts DEF FeedInv, HandledIsNew
<1>3. GivenUpOnce' /\ Feed!AcceptedOnce'
  BY <1>1 DEF FeedInv, GivenUpOnce, Feed!AcceptedOnce
<1> QED
  BY <1>2, <1>3 DEF FeedInv

(* A connection ends, by the client or with the power: the message on its   *)
(* wire is adrift from now on.                                              *)
LEMMA RequestGivenUp ==
  ASSUME ClientInv, FeedInv, UNCHANGED <<delivered, actions>>,
         late' = late \cup ({wire} \cap Lasting),
         NotSent' => NotSent /\ wire \notin Lasting
  PROVE  FeedInv' /\ [Feed!Next]_(Feed!vars)
<1> USE NotifierAssumption
<1>1. CASE wire \notin Lasting
  <2>1. late' = late
    BY <1>1
  <2>2. FeedInv'
    BY <2>1, FeedUnchanged
  <2>3. UNCHANGED Feed!vars
    BY <2>1 DEF Feed!vars, Adrift
  <2> QED
    BY <2>2, <2>3
<1>2. CASE wire \in Lasting
  <2>1. wire # NoMessage
    BY <1>2 DEF Tcp!TcpAssumption
  <2>2. /\ wire.action = actions /\ actions \in Action /\ NotSent
        /\ late' = late \cup {wire}
    BY <1>2, <2>1, WireIsHandlers
  <2>3. Adrift' = Adrift \cup {actions} /\ Feed!Accepted' = Feed!Accepted
    BY <2>2 DEF Adrift, Feed!Accepted
  <2>4. \A n \in Feed!Accepted \cup Adrift : n < actions /\ n \in Nat
    BY <2>2, FeedFacts DEF FeedInv, HandledIsNew
  <2>5. actions \notin Feed!Accepted \cup Adrift /\ actions \in Nat
    BY <2>4, HandlerFacts
  <2>6. HandledIsNew'
    <3>1. ~ NotSent'
      BY <1>2
    <3>2. \A n \in Feed!Accepted \cup Adrift \cup {actions} : n <= actions
      BY <2>4, <2>5
    <3> QED
      BY <2>3, <3>1, <3>2 DEF HandledIsNew
  <2>7. GivenUpOnce'
    <3>1. \A m \in late : m.action \in Adrift
      BY FeedFacts
    <3> QED
      BY <2>2, <2>5, <3>1 DEF FeedInv, GivenUpOnce
  <2>8. Feed!AcceptedOnce'
    BY <2>3, <2>5 DEF FeedInv, Feed!AcceptedOnce
  <2>9. actions \in 1 .. actions
    BY <2>2, <2>5 DEF Action
  <2>10. Feed!GiveUp(actions)
    BY <2>3, <2>4, <2>9 DEF Feed!GiveUp, Feed!IsNew
  <2> QED
    BY <2>6, <2>7, <2>8, <2>9, <2>10 DEF FeedInv, Feed!Next
<1> QED
  BY <1>1, <1>2

(* The server reads the request of the connection: if Firebase accepts it,  *)
(* it has seen no action as new.                                            *)
LEMMA AcceptedInTime ==
  ASSUME ClientInv, FeedInv, Arrives
  PROVE  FeedInv' /\ [Feed!Next]_(Feed!vars)
<1> USE HandlerFacts
<1>1. /\ wire # NoMessage /\ wire' = NoMessage /\ Served(wire)
      /\ UNCHANGED <<pc, actions, tcp_pcb, late>>
  BY DEF Arrives, Tcp!arrives
<1>2. /\ wire \in Messages /\ actions \in Action /\ wire.action = actions
      /\ wire.to = "fcm" => pc = "fcm_wait" /\ tcp_pcb = "connected" /\ NotSent
  BY <1>1, WireIsHandlers
<1>3. CASE UNCHANGED delivered
  <2>1. NotSent' => NotSent
    BY <1>1 DEF NotSent
  <2>2. FeedInv'
    BY <1>1, <1>3, <2>1, FeedUnchanged
  <2>3. UNCHANGED Feed!vars
    BY <1>1, <1>3 DEF Feed!vars, Adrift
  <2> QED
    BY <2>2, <2>3
<1>4. CASE wire.to = "fcm" /\ delivered' = Append(delivered, actions)
  <2>1. Adrift' = Adrift
    BY <1>1 DEF Adrift
  <2>2. \A n \in Feed!Accepted \cup Adrift : n < actions /\ n \in Nat
    BY <1>2, <1>4, FeedFacts DEF FeedInv, HandledIsNew
  <2>3. actions \notin Feed!Accepted \cup Adrift /\ actions \in Nat
    BY <2>2
  <2>4. /\ Feed!Accepted' = Feed!Accepted \cup {actions}
        /\ \A i, j \in DOMAIN delivered' : i # j => delivered'[i] # delivered'[j]
    BY <1>2, <1>4, <2>3, OneMoreAccepted DEF FeedInv, Feed!AcceptedOnce
  <2>5. ~ NotSent'
    BY <1>1, <1>2, <1>4 DEF NotSent
  <2>6. HandledIsNew'
    <3>1. \A n \in Feed!Accepted \cup Adrift \cup {actions} : n <= actions
      BY <2>2, <2>3
    <3> QED
      BY <1>1, <2>1, <2>4, <2>5, <3>1 DEF HandledIsNew
  <2>7. GivenUpOnce'
    BY <1>1 DEF FeedInv, GivenUpOnce
  <2>8. Feed!AcceptedOnce'
    BY <2>1, <2>3, <2>4 DEF FeedInv, Feed!AcceptedOnce
  <2>9. actions \in 1 .. actions
    BY <1>2, <2>3 DEF Action
  <2>10. Feed!Deliver(actions)
    BY <1>1, <1>4, <2>1, <2>2, <2>9 DEF Feed!Deliver, Feed!IsNew
  <2> QED
    BY <2>6, <2>7, <2>8, <2>9, <2>10 DEF FeedInv, Feed!Next
<1>5. \/ UNCHANGED delivered
      \/ wire.to = "fcm" /\ delivered' = Append(delivered, actions)
  BY <1>1, <1>2, ServersKeepTypes
<1> QED
  BY <1>3, <1>4, <1>5

(* It reads one given up: that was not accepted before, and is not again.   *)
LEMMA AcceptedLate ==
  ASSUME ClientInv, FeedInv, ArrivesLate
  PROVE  FeedInv' /\ [Feed!Next]_(Feed!vars)
<1> USE HandlerFacts
<1>1. PICK request \in late : Tcp!arrives_late(request) /\ Served(request)
  BY DEF ArrivesLate
<1> DEFINE n == request.action
<1>2. /\ late' = late \ {request} /\ UNCHANGED <<pc, actions, tcp_pcb, wire>>
  BY <1>1 DEF ArrivesLate, Tcp!arrives_late
<1>3. /\ n \in Action /\ n \in Adrift /\ request \in Messages
      /\ n \notin Feed!Accepted
  BY FeedFacts DEF Tcp!TypeOK, Lasting, Messages, FeedInv, Feed!AcceptedOnce
<1>4. Adrift' = Adrift \ {n}
  BY <1>2 DEF Adrift, FeedInv, GivenUpOnce
<1>5. \/ UNCHANGED delivered
      \/ delivered' = Append(delivered, n)
  BY <1>1, <1>3, ServersKeepTypes
<1> HIDE DEF n
<1>6. /\ Feed!Accepted' \subseteq Feed!Accepted \cup {n}
      /\ \A i, j \in DOMAIN delivered' : i # j => delivered'[i] # delivered'[j]
  <2>1. CASE UNCHANGED delivered
    BY <2>1 DEF FeedInv, Feed!AcceptedOnce, Feed!Accepted
  <2>2. CASE delivered' = Append(delivered, n)
    BY <1>3, <2>2, OneMoreAccepted DEF FeedInv, Feed!AcceptedOnce
  <2> QED
    BY <1>5, <2>1, <2>2
<1>7. NotSent' => NotSent
  BY <1>2 DEF NotSent
<1>8. HandledIsNew'
  BY <1>2, <1>3, <1>4, <1>6, <1>7 DEF FeedInv, HandledIsNew
<1>9. GivenUpOnce'
  BY <1>2 DEF FeedInv, GivenUpOnce
<1>10. Feed!AcceptedOnce'
  BY <1>4, <1>6 DEF FeedInv, Feed!AcceptedOnce
<1>11. n \in 1 .. actions
  BY <1>3 DEF FeedInv, HandledIsNew, Action
<1>12. Feed!ArriveLate(n)
  BY <1>2, <1>3, <1>4, <1>5 DEF Feed!ArriveLate
<1> QED
  BY <1>8, <1>9, <1>10, <1>11, <1>12 DEF FeedInv, Feed!Next

LEMMA FeedStep ==
  ASSUME ClientInv, FeedInv, [Next]_vars
  PROVE  FeedInv' /\ [Feed!Next]_(Feed!vars)
<1> USE HandlerFacts
<1>1. CASE action_handler
  <2>1. actions' = actions + 1 /\ UNCHANGED <<delivered, late>>
    BY <1>1 DEF action_handler, servers, tcpVars
  <2>2. FeedInv'
    BY <2>1, FeedUnchanged
  <2>3. Feed!Hand
    BY <2>1 DEF Feed!Hand, Adrift
  <2> QED
    BY <2>2, <2>3 DEF Feed!Next
<1>2. CASE Handler \/ Tick \/ NtpAnswers \/ UNCHANGED vars
  <2>1. UNCHANGED <<delivered, late, actions>>
    BY <1>2
    DEF Handler, oauth_lookup_failed, oauth_send,
        oauth_finished, fcm_lookup_failed, fcm_send,
        fcm_finished, Tick, NtpAnswers, vars, servers, tcpVars,
        Tcp!send_message
  <2>2. NotSent' => NotSent
    <3>1. CASE Handler
      BY <3>1
      DEF Handler, oauth_lookup_failed, oauth_send,
          oauth_finished, fcm_lookup_failed, fcm_send,
          fcm_finished, AfterOAuth, NotSent
    <3>2. CASE UNCHANGED <<pc, tcp_pcb, wire>>
      BY <3>2 DEF NotSent
    <3> QED
      BY <1>2, <3>1, <3>2 DEF Tick, NtpAnswers, vars, tcpVars
  <2>3. FeedInv'
    BY <2>1, <2>2, FeedUnchanged
  <2>4. UNCHANGED Feed!vars
    BY <2>1 DEF Feed!vars, Adrift
  <2> QED
    BY <2>3, <2>4
<1>3. CASE Network
  <2>1. UNCHANGED <<delivered, actions, pc>> /\ Tcp!Callback
    BY <1>3 DEF Network, servers
  <2>2. CASE Tcp!connected \/ Tcp!recv
    <3>1. late' = late /\ (NotSent' => NotSent)
      BY <2>1, <2>2 DEF Tcp!connected, Tcp!recv, NotSent
    <3>2. FeedInv'
      BY <2>1, <3>1, FeedUnchanged
    <3>3. UNCHANGED Feed!vars
      BY <2>1, <3>1 DEF Feed!vars, Adrift
    <3> QED
      BY <3>2, <3>3
  <2>3. CASE Tcp!LeftBehind /\ tcp_pcb' \in {"nullptr", "aborted"}
    <3>1. late' = late \cup ({wire} \cap Lasting) /\ wire' = NoMessage
      BY <2>3 DEF Tcp!LeftBehind
    <3>2. NotSent' => pc # "fcm_wait" /\ NotSent
      BY <2>1, <2>3, <3>1 DEF NotSent
    <3>3. wire \in Lasting => pc = "fcm_wait"
      BY WireIsHandlers, NotifierAssumption DEF Tcp!TcpAssumption
    <3> QED
      BY <2>1, <3>1, <3>2, <3>3, RequestGivenUp
  <2> QED
    BY <2>1, <2>2, <2>3
    DEF Tcp!Callback, Tcp!connect_failed, Tcp!recv_closed, Tcp!poll,
        Tcp!err, Tcp!err_abrt, Tcp!handle_result, Tcp!close
<1>4. CASE Arrives \/ ArrivesLate
  BY <1>4, AcceptedInTime, AcceptedLate
<1> QED
  BY <1>1, <1>2, <1>3, <1>4 DEF Next
-----------------------------------------------------------------------------
(***************************************************************************)
(* The clocks and the token.                                               *)
(***************************************************************************)
LEMMA ClocksStep ==
  ASSUME ClientInv, ClocksAgree, [Next]_vars
  PROVE  ClocksAgree'
<1> USE NotifierAssumption, HandlerFacts
<1>1. /\ time \in Nat /\ (rtc # Unset => rtc \in Nat) /\ Fast \in Nat
      /\ last_oauth_timestamp \in Nat /\ taken \in Nat
  BY DEF Time
<1>2. CASE UNCHANGED <<time, rtc, token, taken>>
  BY <1>2 DEF ClocksAgree, token
<1>3. CASE action_handler
  <2>1. /\ UNCHANGED <<time, rtc, last_oauth_timestamp>>
        /\ auth_token' = NoToken \/ UNCHANGED <<auth_token, taken>>
    BY <1>3 DEF action_handler, clocks
  <2> QED
    BY <2>1 DEF ClocksAgree
<1>4. CASE oauth_finished
  <2>1. UNCHANGED <<time, rtc>>
    BY <1>4 DEF oauth_finished, clocks
  <2>2. CASE UNCHANGED <<token, history>>
    BY <1>2, <2>1, <2>2 DEF history
  <2>3. CASE last_oauth_timestamp' \in unixnowseconds /\ taken' = time
    <3>1. CASE rtc = Unset
      BY <2>1, <2>3, <3>1 DEF ClocksAgree, unixnowseconds
    <3>2. CASE rtc # Unset
      BY <2>1, <2>3, <3>2 DEF ClocksAgree, unixnowseconds
    <3> QED
      BY <3>1, <3>2
  <2> QED
    BY <1>4, <2>2, <2>3 DEF oauth_finished
<1>5. CASE Tick
  <2>1. /\ time' = time + 1 /\ UNCHANGED <<auth_token, last_oauth_timestamp, taken>>
        /\ \/ rtc = Unset /\ rtc' = Unset
           \/ rtc # Unset /\ rtc' \in {rtc + 1, rtc + 2} /\ rtc' <= time' + Fast
    BY <1>5 DEF Tick, token, history
  <2> HIDE NotifierAssumption, HandlerFacts
  <2> QED
    BY <1>1, <2>1 DEF ClocksAgree
<1>6. CASE NtpAnswers
  <2>1. rtc' = time /\ UNCHANGED <<time, auth_token, last_oauth_timestamp, taken>>
    BY <1>6 DEF NtpAnswers, token, history
  <2> HIDE NotifierAssumption, HandlerFacts
  <2> QED
    BY <1>1, <2>1 DEF ClocksAgree
<1>7. CASE \/ oauth_lookup_failed \/ oauth_send
           \/ fcm_lookup_failed \/ fcm_send \/ fcm_finished
           \/ Network \/ Arrives \/ ArrivesLate \/ UNCHANGED vars
  BY <1>2, <1>7
  DEF oauth_lookup_failed, oauth_send, fcm_lookup_failed, fcm_send,
      fcm_finished, Network, Arrives, ArrivesLate, vars, clocks, token,
      history
<1> QED
  BY <1>3, <1>4, <1>5, <1>6, <1>7 DEF Next, Handler

(* What the handler does about its token when an action comes.              *)
LEMMA DueStep ==
  ASSUME ClientInv, ClocksAgree, NoTokenIsDue, action_handler
  PROVE  /\ NoTokenIsDue'
         /\ rtc # Unset /\ pc' = "loop" => set_back'
         /\ rtc # Unset /\ pc' = "fcm_lookup" /\ ~ PassedGarbage =>
              time <= taken + last_expires_in + Fast
<1> USE NotifierAssumption, HandlerFacts
<1>1. PICK now \in unixnowseconds :
        /\ \/ RenewalDue(now) /\ auth_token' = NoToken /\ pc' = "oauth_lookup"
           \/ /\ ~ RenewalDue(now) /\ UNCHANGED auth_token
              /\ pc' = IF auth_token = NoToken THEN "loop" ELSE "fcm_lookup"
        /\ GoesBy(now)
  BY DEF action_handler
<1>2. UNCHANGED <<last_oauth_timestamp, last_expires_in>>
  BY DEF action_handler
<1>3. /\ now \in Nat /\ last_oauth_timestamp \in Nat /\ highest \in Nat
      /\ last_expires_in \in Nat /\ time \in Nat /\ time >= StartTime
      /\ StartTime \in Nat /\ StartTime > DefaultLifetime /\ taken \in Nat
      /\ DefaultLifetime \in Nat /\ Fast \in Nat /\ set_back \in BOOLEAN
  BY <1>1
<1>4. rtc # Unset => now = rtc /\ time <= now
  BY <1>1 DEF unixnowseconds, ClocksAgree
<1>5. ~ set_back' =>
        ~ set_back /\ highest <= now /\ highest' = now /\ last_oauth_timestamp <= now
  <2> SUFFICES ASSUME ~ set_back'
               PROVE  /\ ~ set_back /\ highest <= now /\ highest' = now
                      /\ last_oauth_timestamp <= now
    OBVIOUS
  <2>1. ~ set_back /\ ~ (now < highest)
    BY <1>1, Zenon DEF GoesBy
  <2>2. highest' = now
    BY <1>1, Zenon DEF GoesBy
  <2>3. last_oauth_timestamp <= highest
    BY <2>1 DEF NoTokenIsDue
  <2> HIDE NotifierAssumption, HandlerFacts
  <2> QED
    BY <1>3, <2>1, <2>2, <2>3
<1> HIDE NotifierAssumption, HandlerFacts
<1>6. RenewalDue(now) <=>
        now < last_oauth_timestamp \/ now - last_oauth_timestamp > last_expires_in
  BY DEF RenewalDue
<1>7. ~ set_back' /\ auth_token = NoToken =>
        \/ last_oauth_timestamp = 0 /\ last_expires_in = DefaultLifetime
        \/ now - last_oauth_timestamp > last_expires_in
  BY <1>3, <1>5 DEF NoTokenIsDue
<1>8. NoTokenIsDue'
  <2> SUFFICES ASSUME ~ set_back'
               PROVE  /\ last_oauth_timestamp' <= highest'
                      /\ auth_token' = NoToken =>
                           \/ last_oauth_timestamp' = 0 /\ last_expires_in' = DefaultLifetime
                           \/ highest' - last_oauth_timestamp' > last_expires_in'
    BY DEF NoTokenIsDue
  <2>1. CASE RenewalDue(now)
    BY <1>2, <1>3, <1>5, <1>6, <2>1
  <2>2. CASE UNCHANGED auth_token
    BY <1>2, <1>5, <1>7, <2>2
  <2> QED
    BY <1>1, <2>1, <2>2
<1>9. rtc # Unset /\ pc' = "loop" => set_back'
  <2> SUFFICES ASSUME rtc # Unset, pc' = "loop", ~ set_back' PROVE FALSE
    OBVIOUS
  <2>1. ~ RenewalDue(now) /\ auth_token = NoToken
    BY <1>1
  <2> QED
    BY <1>3, <1>4, <1>6, <1>7, <2>1
<1>10. rtc # Unset /\ pc' = "fcm_lookup" /\ ~ PassedGarbage =>
         time <= taken + last_expires_in + Fast
  <2> SUFFICES ASSUME rtc # Unset, pc' = "fcm_lookup", ~ PassedGarbage
               PROVE  time <= taken + last_expires_in + Fast
    OBVIOUS
  <2>1. ~ RenewalDue(now) /\ auth_token # NoToken
    BY <1>1
  <2>2. last_oauth_timestamp <= now /\ now - last_oauth_timestamp <= last_expires_in
    BY <1>3, <1>6, <2>1
  <2>3. last_oauth_timestamp <= taken + Fast
    <3>1. SUFFICES ASSUME last_oauth_timestamp > taken + Fast PROVE FALSE
      BY <1>3
    <3>2. last_oauth_timestamp \in taken + Fast + 1 .. rtc
      BY <1>3, <1>4, <2>2, <3>1
    <3>3. last_oauth_timestamp \in Garbage
      BY <1>3, <2>1, <3>1 DEF ClocksAgree
    <3> QED
      BY <3>2, <3>3 DEF PassedGarbage
  <2> QED
    BY <1>3, <1>4, <2>2, <2>3
<1> QED
  BY <1>8, <1>9, <1>10

LEMMA NoTokenIsDueStep ==
  ASSUME ClientInv, ClocksAgree, NoTokenIsDue, [Next]_vars
  PROVE  NoTokenIsDue'
<1>1. CASE action_handler
  BY <1>1, DueStep
<1>2. CASE UNCHANGED <<token, history>>
  BY <1>2 DEF NoTokenIsDue, token, history
<1>3. CASE oauth_finished /\ ~ UNCHANGED <<token, history>>
  <2>1. /\ parse_response /\ auth_token' = last_response[1].of.action
        /\ GoesBy(last_oauth_timestamp')
    BY <1>3 DEF oauth_finished
  <2>2. auth_token' # NoToken
    <3>1. last_response[1] \in Tcp!Buffered
      BY <2>1, HandlerFacts DEF parse_response, Tcp!TypeOK
    <3>2. last_response[1].of \in Messages
      BY <3>1 DEF Tcp!Buffered
    <3>3. auth_token' \in Action
      BY <2>1, <3>2 DEF Messages, OAuth2Request, FcmRequest
    <3> QED
      BY <3>3, NotifierAssumption DEF Action
  <2>3. last_oauth_timestamp' \in Nat
    BY <1>3, HandlerFacts DEF oauth_finished
  <2>4. ~ set_back' => last_oauth_timestamp' <= highest'
    BY <2>1, <2>3 DEF GoesBy
  <2> QED
    BY <2>2, <2>4 DEF NoTokenIsDue
<1> QED
  BY <1>1, <1>2, <1>3
  DEF Next, Handler, oauth_lookup_failed, oauth_send, oauth_finished,
      fcm_lookup_failed, fcm_send, fcm_finished, Network, Arrives,
      ArrivesLate, Tick, NtpAnswers, vars, token, history

-----------------------------------------------------------------------------
(* The invariant, at the start and from step to step.                       *)
LEMMA InitIsOrdered == Init => IInv
<1> SUFFICES ASSUME Init PROVE IInv
  OBVIOUS
<1> USE NotifierAssumption
<1>1. /\ delivered = <<>> /\ last_response = <<>> /\ reply = <<>>
      /\ tcp_pcb = "nullptr" /\ message = NoMessage /\ asked = NoMessage
      /\ wire = NoMessage /\ late = {} /\ pc = "loop" /\ actions = 0
      /\ time = StartTime /\ rtc = Unset /\ auth_token = NoToken
      /\ last_oauth_timestamp = 0 /\ last_expires_in = DefaultLifetime
      /\ issued = [n \in Action |-> NoToken]
      /\ highest = 0 /\ set_back = FALSE /\ taken = 0
  BY DEF Init, Tcp!Init
<1>2. /\ delivered \in Seq(Action) /\ last_response \in Seq(Tcp!Buffered)
      /\ reply \in Seq(Tcp!Piece)
      /\ DOMAIN delivered = {} /\ DOMAIN last_response = {} /\ DOMAIN reply = {}
      /\ Len(delivered) = 0 /\ Len(last_response) = 0 /\ Len(reply) = 0
  BY <1>1
<1>3. Tcp!TypeOK
  BY <1>1, <1>2 DEF Tcp!TypeOK, Tcp!PcbState
<1>4. Tcp!IInv
  <2>1. Tcp!ReplyFollows /\ Tcp!RequestKept
    BY <1>1, <1>2 DEF Tcp!ReplyFollows, Tcp!RequestKept
  <2>2. Tcp!LengthKept /\ Tcp!ResponseIsLatest /\ Tcp!StartKept
    BY <1>1, <1>2
    DEF Tcp!LengthKept, Tcp!ResponseIsLatest, Tcp!StartKept
  <2> QED
    BY <1>3, <2>1, <2>2 DEF Tcp!IInv
<1>5. TypeOK
  <2>1. issued \in [Action -> {NoToken} \cup Grant]
    BY <1>1
  <2>2. 0 \in Readings /\ time \in StartTime .. MaxTime
    BY <1>1 DEF Readings, Time
  <2>3. set_back \in BOOLEAN /\ highest \in Nat /\ taken \in Nat
    BY <1>1
  <2>4. /\ rtc \in Time \cup {Unset} /\ actions \in 0 .. MaxActions
        /\ pc \in {"loop", "oauth_lookup", "oauth_wait", "fcm_lookup", "fcm_wait"}
        /\ auth_token \in Token /\ last_oauth_timestamp \in Readings
        /\ last_expires_in \in Nat
    BY <1>1, <2>2 DEF Token
  <2> QED
    BY <1>2, <1>3, <2>1, <2>2, <2>3, <2>4 DEF TypeOK
<1>6. ClientIsHandlers
  BY <1>1 DEF ClientIsHandlers, Waiting
<1>7. FeedInv
  BY <1>1, <1>2 DEF FeedInv, HandledIsNew, GivenUpOnce, Feed!AcceptedOnce,
                    Feed!Accepted, Adrift
<1>8. ClocksAgree /\ NoTokenIsDue
  BY <1>1 DEF ClocksAgree, NoTokenIsDue
<1> QED
  BY <1>4, <1>5, <1>6, <1>7, <1>8 DEF IInv, ClientInv

LEMMA HandlerStep == IInv /\ [Next]_vars => IInv'
BY ClientStep, FeedStep, ClocksStep, NoTokenIsDueStep DEF IInv

LEMMA HandlerInvariant == Spec => []IInv
BY InitIsOrdered, HandlerStep, PTL DEF Spec

(***************************************************************************)
(* The variables of the handler and of its client keep their types,        *)
(* whatever the servers and the network do (watchdog/main.cpp:87-190,      *)
(* tcpclient.cpp:33-50).                                                   *)
(***************************************************************************)
THEOREM TypeCorrect == Spec => []TypeOK
<1>1. IInv => TypeOK
  BY DEF IInv, ClientInv
<1> QED
  BY <1>1, HandlerInvariant, PTL

(***************************************************************************)
(* What is in the buffer is a contiguous part of the answer to the latest  *)
(* request, although OAuth2 and FCM share one client and answers end       *)
(* early, come in pieces or are lost (tcpclient.cpp:46, 133-151).          *)
(***************************************************************************)
THEOREM ResponsesAreLatest == Spec => []ResponseIsLatest
<1>1. IInv => ResponseIsLatest
  BY DEF IInv, ClientInv, Tcp!IInv, ResponseIsLatest
<1> QED
  BY <1>1, HandlerInvariant, PTL

(***************************************************************************)
(* The buffer keeps the beginning of an answer up to its limit, for every  *)
(* limit, and passes that by one piece at most (tcpclient.cpp:171-179).    *)
(***************************************************************************)
THEOREM StartsAreKept == Spec => []StartKept
<1>1. IInv => StartKept
  BY DEF IInv, ClientInv, Tcp!IInv, StartKept
<1> QED
  BY <1>1, HandlerInvariant, PTL

(***************************************************************************)
(* Firebase accepts each action at most once; while the handler waits for  *)
(* the answer, one newer than all before it, and later only what was given *)
(* up with its message under way.  A step of the handler, the client, the  *)
(* servers or the clocks is one of ActionFeed or changes nothing of it     *)
(* (main.cpp:143-190, tcpclient.cpp:58-65, 133-169).                       *)
(***************************************************************************)
THEOREM FeedsActions == Spec => ImplementsActionFeed
<1>1. Init => Feed!Init
  BY DEF Init, Tcp!Init, Feed!Init, Adrift
<1>2. IInv /\ [Next]_vars => [Feed!Next]_(Feed!vars)
  BY FeedStep DEF IInv
<1> QED
  BY <1>1, <1>2, HandlerInvariant, PTL
  DEF Spec, ImplementsActionFeed, Feed!Spec

(***************************************************************************)
(* The token taken is the one granted to the request of the action being   *)
(* handled (main.cpp:160-170).                                             *)
(***************************************************************************)
LEMMA RenewalStep ==
  ASSUME IInv, [Next]_vars,
         last_oauth_timestamp' # last_oauth_timestamp
  PROVE  auth_token' = actions
<1>1. oauth_finished
  BY DEF Next, Handler, action_handler,
      oauth_lookup_failed, oauth_send, fcm_lookup_failed,
      fcm_send, fcm_finished, Network, Arrives, ArrivesLate,
      Tick, NtpAnswers, token, vars
<1>2. /\ last_response # <<>> /\ pc = "oauth_wait"
      /\ auth_token' = last_response[1].of.action
  BY <1>1 DEF oauth_finished, parse_response, token
<1>3. last_response[1].of = asked
  BY <1>2, HandlerFacts
  DEF IInv, Tcp!IInv, Tcp!TypeOK, Tcp!ResponseIsLatest
<1>4. asked.action = actions
  BY <1>2 DEF IInv, ClientInv, ClientIsHandlers, Waiting
<1> QED
  BY <1>2, <1>3, <1>4

THEOREM RenewalsTakeOwnGrant == Spec => RenewalTakesOwnGrant
<1>1. IInv /\ [Next]_vars =>
        [last_oauth_timestamp' # last_oauth_timestamp => auth_token' = actions]_vars
  BY RenewalStep
<1> QED
  BY <1>1, HandlerInvariant, PTL DEF Spec, RenewalTakesOwnGrant

(***************************************************************************)
(* Once NTP has answered, an action is dropped without a lookup only when  *)
(* a time the handler has gone by was smaller than one before, for every   *)
(* pace and setting of the clock (main.cpp:143-152).                       *)
(***************************************************************************)
THEOREM ActionsAreTried == Spec => EveryActionTried
<1>1. IInv /\ [Next]_vars =>
        [action_handler /\ rtc # Unset /\ pc' = "loop" => set_back']_vars
  BY DueStep DEF IInv
<1> QED
  BY <1>1, HandlerInvariant, PTL DEF Spec, EveryActionTried

(***************************************************************************)
(* Nor is a token kept longer than it was granted for, but for what the    *)
(* clock is fast, wherever NTP sets it back to (main.cpp:150).             *)
(***************************************************************************)
THEOREM TokensAreNotOutlived == Spec => TokenNotOutlived
<1>1. IInv /\ [Next]_vars =>
        [action_handler /\ rtc # Unset /\ pc' = "fcm_lookup" /\ ~ PassedGarbage
           => time <= taken + last_expires_in + Fast]_vars
  BY DueStep DEF IInv
<1> QED
  BY <1>1, HandlerInvariant, PTL DEF Spec, TokenNotOutlived

(* The handler starts again with no request of its own; the one it was      *)
(* waiting for may still be under way.                                      *)
LEMMA HandlerStartsAgain ==
  ASSUME IInv, Tcp!LeftBehind,
         last_response' = <<>>, tcp_pcb' = "nullptr",
         message' = NoMessage, asked' = NoMessage,
         pc' = "loop", rtc' = Unset, auth_token' = NoToken,
         last_oauth_timestamp' = 0, last_expires_in' = DefaultLifetime,
         highest' = 0, set_back' = FALSE, taken' = 0,
         UNCHANGED <<time, actions, issued, delivered>>
  PROVE  IInv' /\ [Feed!Next]_(Feed!vars)
<1> USE NotifierAssumption, HandlerFacts
<1>1. /\ last_response' = <<>> /\ reply' = <<>> /\ tcp_pcb' = "nullptr"
      /\ message' = NoMessage /\ asked' = NoMessage /\ wire' = NoMessage
      /\ pc' = "loop" /\ rtc' = Unset /\ auth_token' = NoToken
      /\ last_oauth_timestamp' = 0 /\ last_expires_in' = DefaultLifetime
      /\ late' = late \cup ({wire} \cap Lasting)
      /\ highest' = 0 /\ set_back' = FALSE /\ taken' = 0
      /\ UNCHANGED <<time, actions, issued, delivered>>
  BY DEF Tcp!LeftBehind
<1>2. /\ last_response' \in Seq(Tcp!Buffered) /\ reply' \in Seq(Tcp!Piece)
      /\ DOMAIN last_response' = {} /\ DOMAIN reply' = {}
      /\ Len(last_response') = 0 /\ Len(reply') = 0
  BY <1>1
<1>3. late' \subseteq Lasting
  BY <1>1 DEF IInv, Tcp!TypeOK
<1>4. Tcp!TypeOK'
  BY <1>1, <1>2, <1>3 DEF Tcp!TypeOK, Tcp!PcbState
<1>5. Tcp!IInv'
  <2>1. Tcp!ReplyFollows' /\ Tcp!RequestKept'
    BY <1>1, <1>2 DEF Tcp!ReplyFollows, Tcp!RequestKept
  <2>2. (Tcp!LengthKept /\ Tcp!ResponseIsLatest /\ Tcp!StartKept)'
    BY <1>1, <1>2
    DEF Tcp!LengthKept, Tcp!ResponseIsLatest, Tcp!StartKept
  <2> QED
    BY <1>4, <2>1, <2>2 DEF Tcp!IInv
<1>6. TypeOK'
  <2>1. 0 \in Readings
    BY DEF Readings, Time
  <2> QED
    BY <1>1, <1>4, <2>1 DEF IInv, ClientInv, TypeOK, Token
<1>7. ClientIsHandlers'
  BY <1>1 DEF ClientIsHandlers, Waiting
<1>8. FeedInv' /\ [Feed!Next]_(Feed!vars)
  <2>1. ~ NotSent'
    BY <1>1 DEF NotSent
  <2> QED
    BY <1>1, <2>1, RequestGivenUp DEF IInv
<1>9. ClocksAgree' /\ NoTokenIsDue'
  BY <1>1 DEF ClocksAgree, NoTokenIsDue
<1> QED
  BY <1>5, <1>6, <1>7, <1>8, <1>9 DEF IInv, ClientInv
=============================================================================
