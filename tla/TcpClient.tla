------------------------------ MODULE TcpClient -----------------------------
(***************************************************************************)
(* The client of the watchdog's HTTPS requests (watchdog/tcpclient.cpp):   *)
(* one connection at a time, driven by the callbacks that lwIP makes from  *)
(* its background interrupt while the caller polls is_finished().          *)
(*                                                                         *)
(* lwIP and the network are external.  altcp_write only queues a request:  *)
(* the server reads it later, maybe after the client has closed the        *)
(* connection (altcp_close sends its FIN behind what is queued), or never. *)
(* lwIP delivers what the server sends in pieces, calls the poll callback  *)
(* of a connection it is working on sooner or later, and reports an error  *)
(* once, after which it has dropped the connection.  A connection whose    *)
(* altcp_connect failed is never polled.                                   *)
(***************************************************************************)
EXTENDS Naturals, Sequences

CONSTANTS
  Messages,       \* the requests a caller may send
  Lasting,        \* those a server may act on when nobody hears its answer
  NoMessage,      \* the empty string
  Replies,        \* what a server may send: where its pieces end
  ResponseLimit   \* 3072

(* Where piece i of a reply begins. *)
Begin(ends, i) == IF i = 1 THEN 0 ELSE ends[i-1]

(* What a module that uses the client assumes of these constants. *)
TcpAssumption ==
  /\ NoMessage \notin Messages /\ Lasting \subseteq Messages
  /\ Replies \subseteq Seq(Nat)
  /\ \A ends \in Replies : \A i \in DOMAIN ends : Begin(ends, i) < ends[i]
  /\ ResponseLimit \in Nat

VARIABLES
  tcp_pcb,        \* what lwIP knows of the connection the client holds
  message,        \* TcpClientPrivate::message
  last_response,  \* TcpClientPrivate::last_response: the pieces in it
  asked,          \* the request of the latest send_message (history)
  wire,           \* the request written on this connection, not yet read
                  \* by the server
  late,           \* those of Lasting that are under way on connections the
                  \* client has closed
  reply           \* pieces the server has sent and lwIP has not delivered

vars == <<tcp_pcb, message, last_response, asked, wire, late, reply>>

(* "new": created, but altcp_connect failed.  "aborted": freed by lwIP,    *)
(* which told the client ERR_ABRT.                                          *)
PcbState == {"nullptr", "new", "connecting", "connected", "aborted"}

(* A piece of a reply, by the request it answers and its place in it; once *)
(* it is in the buffer, also by its place there.                            *)
Piece == [of : Messages, offset : Nat, size : Nat \ {0}]

Buffered == [of : Messages, offset : Nat, size : Nat \ {0}, at : Nat]

(* The length of the buffer's string. *)
Bytes(buffer) ==
  IF buffer = <<>> THEN 0
  ELSE LET last == buffer[Len(buffer)] IN last.at + last.size

(* What a reply looks like when it is on its way. *)
Pieces(request, ends) ==
  [i \in DOMAIN ends |->
     [of |-> request, offset |-> Begin(ends, i),
      size |-> ends[i] - Begin(ends, i)]]

TypeOK ==
  /\ tcp_pcb \in PcbState
  /\ message \in Messages \cup {NoMessage}
  /\ last_response \in Seq(Buffered)
  /\ asked \in Messages \cup {NoMessage}
  /\ wire \in Messages \cup {NoMessage}
  /\ late \subseteq Lasting
  /\ reply \in Seq(Piece)

Init ==
  /\ tcp_pcb = "nullptr"
  /\ message = NoMessage
  /\ last_response = <<>>
  /\ asked = NoMessage
  /\ wire = NoMessage
  /\ late = {}
  /\ reply = <<>>

is_finished == tcp_pcb = "nullptr"

-----------------------------------------------------------------------------
\* Mutant: last_response is not reset.
send_message_appending(m) ==
  /\ is_finished
  /\ message' = m
  /\ asked' = m
  /\ tcp_pcb' \in {"nullptr", "connecting"}
  /\ UNCHANGED <<last_response, wire, late, reply>>

(* send_message of the caller.  It fails when no pcb can be had, it leaves *)
(* the pcb behind when altcp_connect fails at once (no route, no memory).   *)
send_message(m) ==
  /\ is_finished
  /\ last_response' = <<>>
  /\ message' = m
  /\ asked' = m
  /\ \/ UNCHANGED tcp_pcb
     \/ tcp_pcb' = "new"
     \/ tcp_pcb' = "connecting"
  /\ UNCHANGED <<wire, late, reply>>

(* What the client hears no more of: pieces of an answer are dropped, a    *)
(* request the server has not read stays under way.                         *)
LeftBehind ==
  /\ late' = late \cup ({wire} \cap Lasting)
  /\ wire' = NoMessage
  /\ reply' = <<>>

(* close: the callbacks are taken back before lwIP gets the pcb.            *)
close == tcp_pcb' = "nullptr" /\ LeftBehind

handle_result == close /\ UNCHANGED <<message, last_response, asked>>

Alive == tcp_pcb \in {"connecting", "connected"}

-----------------------------------------------------------------------------
(* Callbacks.  The TLS connection stands: the request is written; when      *)
(* altcp_write has no room it is lost, and forgotten all the same.          *)
connected ==
  /\ tcp_pcb = "connecting"
  /\ tcp_pcb' = "connected"
  /\ message' = NoMessage
  /\ wire' \in {message, NoMessage}
  /\ UNCHANGED <<last_response, asked, late, reply>>

connect_failed ==
  /\ tcp_pcb = "connecting"
  /\ handle_result

(* A full buffer is emptied before the piece is added. *)
\* Mutant: >= for >.
FullAtLimit == Bytes(last_response) >= ResponseLimit

Full == Bytes(last_response) > ResponseLimit

buffer_response(piece) ==
  LET kept == IF Full THEN <<>> ELSE last_response
  IN  last_response' =
        Append(kept, [of |-> piece.of, offset |-> piece.offset,
                      size |-> piece.size, at |-> Bytes(kept)])

recv ==
  /\ tcp_pcb = "connected"
  /\ reply # <<>>
  /\ buffer_response(Head(reply))
  /\ reply' = Tail(reply)
  /\ UNCHANGED <<tcp_pcb, message, asked, wire, late>>

(* The server has closed its side. *)
recv_closed ==
  /\ tcp_pcb = "connected"
  /\ reply = <<>>
  /\ handle_result

\* Mutant: the poll callback only logs.
poll_logging == Alive /\ UNCHANGED vars

poll ==
  /\ Alive
  /\ handle_result

(* err: the connection is lost.  ERR_ABRT is ignored by the callback. *)
err ==
  /\ Alive
  /\ handle_result

err_abrt ==
  /\ Alive
  /\ tcp_pcb' = "aborted"
  /\ LeftBehind
  /\ UNCHANGED <<message, last_response, asked>>

Callback ==
  \/ connected \/ connect_failed \/ recv \/ recv_closed
  \/ poll \/ err \/ err_abrt

(* The server reads the request of the connection, and sends an answer.     *)
arrives ==
  /\ wire # NoMessage
  /\ wire' = NoMessage
  /\ \E ends \in Replies : reply' = Pieces(wire, ends)
  /\ UNCHANGED <<tcp_pcb, message, last_response, asked, late>>

(* It reads one whose connection the client has closed; an answer to it is  *)
(* lost.                                                                    *)
arrives_late(m) ==
  /\ m \in late
  /\ late' = late \ {m}
  /\ UNCHANGED <<tcp_pcb, message, last_response, asked, wire, reply>>

Next ==
  \/ \E m \in Messages : send_message(m)
  \/ Callback
  \/ arrives
  \/ \E m \in Lasting : arrives_late(m)

(* lwIP polls every connection it works on, each ten half seconds. *)
Spec == Init /\ [][Next]_vars /\ WF_vars(poll)

-----------------------------------------------------------------------------
(***************************************************************************)
(* What get_last_response returns is a contiguous part of the answer to    *)
(* the latest request: nothing of an earlier connection is left in it or   *)
(* arrives late (tcpclient.cpp:46, 133-151).                               *)
(***************************************************************************)
ResponseIsLatest ==
  /\ \A i \in DOMAIN last_response : last_response[i].of = asked
  /\ \A i \in 1 .. Len(last_response) - 1 :
       last_response[i+1].offset = last_response[i].offset + last_response[i].size

(***************************************************************************)
(* The beginning of an answer, which HTTP::read needs, is only given up    *)
(* for a piece that comes after ResponseLimit bytes, and the buffer never  *)
(* holds more than one piece above the limit (tcpclient.cpp:171-179).      *)
(***************************************************************************)
StartKept ==
  last_response # <<>> =>
    LET last == last_response[Len(last_response)]
    IN  /\ last.offset <= ResponseLimit => last_response[1].offset = 0
        /\ Bytes(last_response) <= ResponseLimit + last.size

(***************************************************************************)
(* Why: what is in the buffer and what is still on its way lie one behind  *)
(* the other, all of the latest request; and the buffer knows its length.  *)
(***************************************************************************)
BufferEnd ==
  IF last_response = <<>> THEN 0
  ELSE LET last == last_response[Len(last_response)]
       IN  last.offset + last.size

ReplyFollows ==
  /\ reply # <<>> => tcp_pcb = "connected" /\ reply[1].offset = BufferEnd
  /\ \A i \in DOMAIN reply : reply[i].of = asked
  /\ \A i \in 1 .. Len(reply) - 1 :
       reply[i+1].offset = reply[i].offset + reply[i].size

RequestKept ==
  /\ tcp_pcb = "connecting" =>
       message = asked /\ asked # NoMessage /\ last_response = <<>>
  /\ wire # NoMessage =>
       /\ tcp_pcb = "connected" /\ wire = asked
       /\ last_response = <<>> /\ reply = <<>>

LengthKept ==
  last_response # <<>> =>
    BufferEnd = last_response[1].offset + Bytes(last_response)

IInv ==
  /\ TypeOK /\ ReplyFollows /\ RequestKept /\ LengthKept
  /\ ResponseIsLatest /\ StartKept
=============================================================================
