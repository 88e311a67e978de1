------------------------------ MODULE Notifier ------------------------------
(***************************************************************************)
(* The notifier beside variant A (notifier/main.py): it reads the lines    *)
(* that the watchdog prints to its serial port and posts a Firebase        *)
(* message for each that holds an action word.  Any error ends the         *)
(* process; systemd starts it again after 30 seconds                       *)
(* (notifier/garagealarm.service).                                         *)
(*                                                                         *)
(* The lines with action words are numbered as they are printed; the other *)
(* lines are not told apart from one another.  The port, Google's servers  *)
(* and systemd are external.                                               *)
(***************************************************************************)
EXTENDS Naturals, Sequences

CONSTANTS
  MaxLines,      \* bound on the action words printed
  BufferLimit,   \* lines the port holds
  Other          \* a line without an action word

ASSUME NotifierAssumption ==
  /\ MaxLines \in Nat
  /\ BufferLimit \in Nat \ {0}
  /\ Other \notin Nat

VARIABLES
  pc,         \* "down", "readline", "token", "post", "response"
  serial,     \* lines the port holds for the process
  printed,    \* action words printed so far
  line,       \* the line being handled
  delivered,  \* actions Firebase has accepted, oldest first
  adrift      \* those posted by a process that has ended, whose messages may
              \* still be under way

vars == <<pc, serial, printed, line, delivered, adrift>>

Line == 1 .. MaxLines \cup {Other}

TypeOK ==
  /\ pc \in {"down", "readline", "token", "post", "response"}
  /\ serial \in Seq(Line) /\ Len(serial) <= BufferLimit
  /\ printed \in 0 .. MaxLines
  /\ line \in Line
  /\ delivered \in Seq(1 .. MaxLines)
  /\ adrift \subseteq 1 .. MaxLines

Init ==
  /\ pc = "down"
  /\ serial = <<>>
  /\ printed = 0
  /\ line = Other
  /\ delivered = <<>>
  /\ adrift = {}

-----------------------------------------------------------------------------
(* The watchdog prints a line.  Nobody keeps it when the port is not open   *)
(* or full.                                                                 *)
Heard(l) ==
  serial' = IF pc # "down" /\ Len(serial) < BufferLimit THEN Append(serial, l)
            ELSE serial

print_action ==
  /\ printed < MaxLines
  /\ printed' = printed + 1
  /\ Heard(printed + 1)
  /\ UNCHANGED <<pc, line, delivered, adrift>>

print_other ==
  /\ Heard(Other)
  /\ UNCHANGED <<pc, printed, line, delivered, adrift>>

(* An exception that nobody catches. *)
Ends ==
  /\ pc' = "down"
  /\ serial' = <<>>

(* Restart=always: the process starts, and serial.Serial opens the port. *)
\* Mutant: Restart=no.
Stays == FALSE /\ UNCHANGED vars

Restart ==
  /\ pc = "down"
  /\ pc' = "readline"
  /\ serial' = <<>>
  /\ UNCHANGED <<printed, line, delivered, adrift>>

readline ==
  /\ pc = "readline"
  /\ serial # <<>>
  /\ line' = Head(serial)
  /\ serial' = Tail(serial)
  /\ pc' = IF line' = Other THEN "readline" ELSE "token"
  /\ UNCHANGED <<printed, delivered, adrift>>

(* The port is gone: readline raises an exception. *)
unplugged ==
  /\ pc = "readline"
  /\ Ends
  /\ UNCHANGED <<printed, line, delivered, adrift>>

get_access_token ==
  /\ pc = "token"
  /\ \/ pc' = "post" /\ UNCHANGED serial
     \/ Ends
  /\ UNCHANGED <<printed, line, delivered, adrift>>

(* requests.post returns when Firebase has accepted the message, or refused *)
(* it, and answers, or an exception ends the process: without the answer, or *)
(* before Firebase has read what was sent.  It has no timeout.              *)
post ==
  /\ pc = "post"
  /\ \/ /\ delivered' \in {delivered, Append(delivered, line)}
        /\ Ends \/ (pc' = "response" /\ UNCHANGED serial)
        /\ UNCHANGED adrift
     \/ /\ Ends
        /\ adrift' = adrift \cup {line}
        /\ UNCHANGED delivered
  /\ UNCHANGED <<printed, line>>

(* Firebase reads such a message after all. *)
arrives_late ==
  /\ \E n \in adrift :
       /\ adrift' = adrift \ {n}
       /\ delivered' \in {delivered, Append(delivered, n)}
  /\ UNCHANGED <<pc, serial, printed, line>>

(* Its status is printed; a body that is no JSON is an exception. *)
\* Mutant: a message whose answer is of no use is posted again.
response_or_again ==
  /\ pc = "response"
  /\ pc' \in {"readline", "post"}
  /\ UNCHANGED <<serial, printed, line, delivered, adrift>>

response ==
  /\ pc = "response"
  /\ \/ pc' = "readline" /\ UNCHANGED serial
     \/ Ends
  /\ UNCHANGED <<printed, line, delivered, adrift>>

send_notification == get_access_token \/ post \/ response

Next ==
  \/ print_action \/ print_other
  \/ Restart \/ readline \/ unplugged \/ send_notification
  \/ arrives_late

(* systemd restarts it, the processor runs, and google-auth gives a request *)
(* for a token a timeout.  Nothing is assumed of requests.post.             *)
Spec ==
  /\ Init /\ [][Next]_vars
  /\ WF_vars(Restart) /\ WF_vars(readline) /\ WF_vars(get_access_token)
  /\ WF_vars(response)

-----------------------------------------------------------------------------
(***************************************************************************)
(* Whatever fails and however often the process is started again, Firebase *)
(* gets no action twice, and while the process waits for the answer none   *)
(* that is not newer than all before: a line that was read is never read   *)
(* again (main.py:63-72).  Only a message that was under way when its      *)
(* process ended may come behind newer ones.                               *)
(***************************************************************************)
Feed == INSTANCE ActionFeed WITH handed <- printed

ImplementsActionFeed == Feed!Spec

(* Why: what the port holds is in order and newer than what was handled,    *)
(* and no message of the line that is being handled has left the process.   *)
Sent == Feed!Accepted \cup adrift

Handled == pc \in {"token", "post"}

PortInOrder ==
  \A i, j \in DOMAIN serial :
    i < j /\ serial[i] # Other /\ serial[j] # Other => serial[i] < serial[j]

PortIsNewer ==
  \A i \in DOMAIN serial :
    serial[i] # Other =>
      /\ serial[i] <= printed
      /\ \A m \in Sent : m < serial[i]
      /\ Handled => line < serial[i]

HandledIsNewer ==
  Handled => line # Other /\ line <= printed /\ \A m \in Sent : m < line

InOrder ==
  /\ \A m \in Sent : m <= printed
  /\ PortInOrder /\ PortIsNewer /\ HandledIsNewer

EmptyWhenDown == pc = "down" => serial = <<>>

IInv == TypeOK /\ InOrder /\ EmptyWhenDown

(***************************************************************************)
(* The notifier comes back to reading the port, whatever fails and however *)
(* often it ends; what may stop it for good is a requests.post that never  *)
(* returns, and nothing else (garagealarm.service:10-11, main.py:50, 62).  *)
(***************************************************************************)
KeepsReading == []<>(pc = "readline") \/ <>[](pc = "post")
=============================================================================
