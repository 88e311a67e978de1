----------------------------- MODULE ActionFeed -----------------------------
(***************************************************************************)
(* What either way of notifying promises, the push handler of variant B    *)
(* and the notifier beside variant A: of the actions the watchdog takes,   *)
(* numbered in their order, Firebase accepts some, each at most once.      *)
(* While the watchdog waits for the answer, the action accepted is newer   *)
(* than all before it.  Only the message of an action whose request was    *)
(* written and then given up may come later, behind newer ones.            *)
(***************************************************************************)
EXTENDS Naturals, Sequences

VARIABLES
  handed,     \* actions taken by the watchdog so far
  delivered,  \* those Firebase has accepted, oldest first
  adrift      \* those given up whose messages may still arrive

vars == <<handed, delivered, adrift>>

Init ==
  /\ handed = 0
  /\ delivered = <<>>
  /\ adrift = {}

Accepted == {delivered[i] : i \in DOMAIN delivered}

(* An action after all of which a message has left the watchdog's hands.    *)
IsNew(n) == n \in 1 .. handed /\ \A m \in Accepted \cup adrift : m < n

Hand ==
  /\ handed' = handed + 1
  /\ UNCHANGED <<delivered, adrift>>

Deliver(n) ==
  /\ IsNew(n)
  /\ delivered' = Append(delivered, n)
  /\ UNCHANGED <<handed, adrift>>

GiveUp(n) ==
  /\ IsNew(n)
  /\ adrift' = adrift \cup {n}
  /\ UNCHANGED <<handed, delivered>>

ArriveLate(n) ==
  /\ n \in adrift
  /\ delivered' \in {delivered, Append(delivered, n)}
  /\ adrift' = adrift \ {n}
  /\ UNCHANGED handed

Next ==
  \/ Hand
  \/ \E n \in 1 .. handed : Deliver(n) \/ GiveUp(n) \/ ArriveLate(n)

Spec == Init /\ [][Next]_vars

(* So no action is accepted twice. *)
AcceptedOnce ==
  /\ \A i, j \in DOMAIN delivered : i # j => delivered[i] # delivered[j]
  /\ Accepted \cap adrift = {}
=============================================================================
