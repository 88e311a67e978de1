----------------------------- MODULE DoorReports ----------------------------
(***************************************************************************)
(* What the LoRa link promises its user, free of packets, vectors and      *)
(* counters.  The sender tells states of the door, in runs it never goes   *)
(* back to.  The receiver reports some of them: the state a message told,  *)
(* never a message again and never one older than a message it has         *)
(* reported, and, until it is restarted, only messages of one run of the   *)
(* sender.  (README.md "Communication" states these promises.)             *)
(***************************************************************************)
EXTENDS Naturals, Sequences

CONSTANTS
  States,    \* what a message can tell
  Runs       \* names of the sender's runs

VARIABLES
  told,      \* the messages sent: the state each tells, the run it is of
  reported   \* reports since the receiver started: which message, what state

vars == <<told, reported>>

Init ==
  /\ told = <<>>
  /\ reported = <<>>

Tell(s, r) ==
  /\ \A k \in DOMAIN told :
       told[k].run = r => \A l \in k .. Len(told) : told[l].run = r
  /\ told' = Append(told, [state |-> s, run |-> r])
  /\ UNCHANGED reported

Report(k) ==
  /\ reported # <<>> =>
       LET last == reported[Len(reported)].message
       IN  last < k /\ told[last].run = told[k].run
  /\ reported' = Append(reported, [message |-> k, state |-> told[k].state])
  /\ UNCHANGED told

Forget ==
  /\ reported' = <<>>
  /\ UNCHANGED told

Next ==
  \/ \E s \in States, r \in Runs : Tell(s, r)
  \/ \E k \in DOMAIN told : Report(k)
  \/ Forget

Spec == Init /\ [][Next]_vars
=============================================================================
