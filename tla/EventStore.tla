----------------------------- MODULE EventStore -----------------------------
(***************************************************************************)
(* The Android app's events (app/.../MyGarage): the messaging service      *)
(* receives Firebase messages, hands each event to a pool of threads that  *)
(* writes it into the table, and shows a notification; the screen lists    *)
(* the table, newest first, and can delete it through the same pool.       *)
(*                                                                         *)
(* Events are numbered as they are sent, and carry the time of the clock   *)
(* of the notifier or of the watchdog.  Firebase delivers in any order, to *)
(* one call of the service at a time.  Android may kill the process at any *)
(* time, and starts it again for the next message; what the table holds    *)
(* and what is shown stays.                                                *)
(***************************************************************************)
EXTENDS Integers, Sequences, SequencesExt

CONSTANTS
  Workers,       \* the four threads of databaseWriteExecutor
  MaxEvents,     \* bound on the messages
  ClockSteps,    \* what the sender's clock shows since the event before
  MaxDeletions, MaxKills,   \* bounds on what disturbs
  Unusable,      \* a message without a timestamp or a known action
  Nobody,        \* the service, or a thread, is not busy
  DeleteAll      \* the task of mEventDao::deleteAll

(* What a module that uses the store assumes of these constants. *)
StoreAssumption ==
  /\ MaxEvents \in Nat /\ MaxDeletions \in Nat /\ MaxKills \in Nat
  /\ ClockSteps \subseteq Int
  /\ {Unusable, Nobody, DeleteAll} \cap Nat = {}

VARIABLES
  timestamp,  \* of the messages sent so far
  inflight,   \* messages Firebase has not delivered
  taken,      \* the event onMessageReceived makes a repository for
  service,    \* the event whose notification onMessageReceived shows next
  queue,      \* tasks no thread has taken yet
  worker,     \* worker[w]: the task that thread w runs
  table,      \* the rows of "events", by their ids
  notified,   \* events a notification was shown for
  old,        \* events received before the latest deletion was confirmed
  received,   \* events received so far (history)
  deletions, kills   \* how often (history)

vars == <<timestamp, inflight, taken, service, queue, worker, table, notified,
          old, received, deletions, kills>>

sent == Len(timestamp)

Event == 1 .. MaxEvents
Task == Event \cup {DeleteAll}

TypeOK ==
  /\ timestamp \in Seq(Int) /\ sent <= MaxEvents
  /\ inflight \subseteq Event \cup {Unusable}
  /\ {taken, service} \subseteq Event \cup {Nobody}
  /\ queue \in Seq(Task)
  /\ worker \in [Workers -> Task \cup {Nobody}]
  /\ table \in Seq(Event)
  /\ notified \subseteq Event /\ old \subseteq Event /\ received \subseteq Event
  /\ deletions \in 0 .. MaxDeletions
  /\ kills \in 0 .. MaxKills

Init ==
  /\ timestamp = <<>>
  /\ inflight = {Unusable}
  /\ taken = Nobody /\ service = Nobody
  /\ queue = <<>>
  /\ worker = [w \in Workers |-> Nobody]
  /\ table = <<>>
  /\ notified = {} /\ old = {} /\ received = {}
  /\ deletions = 0
  /\ kills = 0

-----------------------------------------------------------------------------
(* FCM::create_request, or send_notification of the notifier. *)
create_request ==
  /\ sent < MaxEvents
  /\ \E step \in ClockSteps :
       timestamp' = Append(timestamp,
                           IF sent = 0 THEN 0 ELSE timestamp[sent] + step)
  /\ inflight' = inflight \cup {sent + 1}
  /\ UNCHANGED <<taken, service, queue, worker, table, notified, old, received,
                 deletions, kills>>

\* Mutant: a pool that discards what it cannot take at once.
insert_discarding(event) ==
  queue' = IF queue = <<>> THEN <<event>> ELSE queue

insert(event) == queue' = Append(queue, event)

deleteAll == queue' = Append(queue, DeleteAll)

(* onMessageReceived, up to the repository it makes for an event ... *)
onMessageReceived(message) ==
  /\ taken = Nobody /\ service = Nobody
  /\ message \in inflight
  /\ inflight' = inflight \ {message}
  /\ \/ message = Unusable /\ UNCHANGED <<taken, received>>
     \/ /\ message # Unusable
        /\ taken' = message
        /\ received' = received \cup {message}
  /\ UNCHANGED <<timestamp, service, queue, worker, table, notified, old,
                 deletions, kills>>

(* ... the repository takes the event ... *)
repository_insert ==
  /\ taken # Nobody
  /\ insert(taken)
  /\ service' = taken
  /\ taken' = Nobody
  /\ UNCHANGED <<timestamp, inflight, worker, table, notified, old, received,
                 deletions, kills>>

(* ... and the user sees it. *)
sendNotification ==
  /\ service # Nobody
  /\ notified' = notified \cup {service}
  /\ service' = Nobody
  /\ UNCHANGED <<timestamp, inflight, taken, queue, worker, table, old, received,
                 deletions, kills>>

(* delete_history, after "Are you sure?". *)
delete_history ==
  /\ deletions < MaxDeletions
  /\ deletions' = deletions + 1
  /\ deleteAll
  /\ old' = received
  /\ UNCHANGED <<timestamp, inflight, taken, service, worker, table, notified,
                 received, kills>>

(* A thread of the pool takes the oldest task. *)
Take(w) ==
  /\ worker[w] = Nobody
  /\ queue # <<>>
  /\ worker' = [worker EXCEPT ![w] = Head(queue)]
  /\ queue' = Tail(queue)
  /\ UNCHANGED <<timestamp, inflight, taken, service, table, notified, old,
                 received, deletions, kills>>

(* It runs the statement, a transaction of its own. *)
Run(w) ==
  /\ worker[w] # Nobody
  /\ table' = IF worker[w] = DeleteAll THEN <<>> ELSE Append(table, worker[w])
  /\ worker' = [worker EXCEPT ![w] = Nobody]
  /\ UNCHANGED <<timestamp, inflight, taken, service, queue, notified, old,
                 received, deletions, kills>>

Kill ==
  /\ kills < MaxKills
  /\ kills' = kills + 1
  /\ taken' = Nobody /\ service' = Nobody
  /\ queue' = <<>>
  /\ worker' = [w \in Workers |-> Nobody]
  /\ UNCHANGED <<timestamp, inflight, table, notified, old, received, deletions>>

Pool == \E w \in Workers : Take(w) \/ Run(w)

Next ==
  \/ create_request \/ \E message \in inflight : onMessageReceived(message)
  \/ repository_insert \/ sendNotification
  \/ delete_history \/ Pool \/ Kill

(* The threads of the app run. *)
Spec ==
  /\ Init /\ [][Next]_vars
  /\ WF_vars(repository_insert) /\ WF_vars(sendNotification)
  /\ \A w \in Workers : WF_vars(Take(w) \/ Run(w))

-----------------------------------------------------------------------------
(* What the screen may list: the rows with the latest timestamps first, rows *)
(* of the same timestamp in any order.                                      *)
\* Mutant: the order of insertion.
getEvents_by_id == {Reverse(table)}

getEvents ==
  LET rows == DOMAIN table
      LatestFirst(row) ==
        \A i, j \in rows :
          i < j => timestamp[table[row[i]]] >= timestamp[table[row[j]]]
  IN  {[i \in rows |-> table[row[i]]] :
         row \in {r \in Bijection(rows, rows) : LatestFirst(r)}}

Undisturbed == deletions = 0 /\ kills = 0

Settled ==
  /\ inflight = {} /\ taken = Nobody /\ service = Nobody /\ queue = <<>>
  /\ \A w \in Workers : worker[w] = Nobody

(***************************************************************************)
(* When all is delivered, the screen lists every event once, although      *)
(* messages come in any order and four threads store them in any order,    *)
(* and its first line is the latest event: the state of the door, unless   *)
(* the clock that stamps the events did not show a later time at that one, *)
(* as after NTP has set it back or within one second                       *)
(* (EventDao.java:18, fcm.cpp:37-65, README.md "keeps track of the door    *)
(* state").                                                                *)
(***************************************************************************)
LatestInTime == \A e \in 1 .. sent - 1 : timestamp[e] < timestamp[sent]

KeepsTrack ==
  Settled /\ Undisturbed /\ sent > 0 =>
    /\ getEvents # {}
    /\ \A lines \in getEvents :
         /\ Len(lines) = sent
         /\ \A e \in 1 .. sent : \E i \in 1 .. sent : lines[i] = e
         /\ LatestInTime => lines[1] = sent

(* Why: until something disturbs, a received event is in one place, from the *)
(* call of the service to the table.                                        *)
Delivered ==
  /\ inflight \subseteq 1 .. sent \cup {Unusable}
  /\ received = (1 .. sent) \ inflight

Holds(e) ==
  \/ e = taken
  \/ \E i \in DOMAIN queue : e = queue[i]
  \/ \E w \in Workers : e = worker[w]
  \/ \E i \in DOMAIN table : e = table[i]

HeldOnce ==
  /\ \A i, j \in DOMAIN queue : queue[i] = queue[j] => i = j
  /\ \A v, w \in Workers : worker[v] = worker[w] => v = w \/ worker[v] = Nobody
  /\ \A i, j \in DOMAIN table : table[i] = table[j] => i = j
  /\ \A i \in DOMAIN queue : taken # queue[i]
  /\ \A w \in Workers : taken # worker[w] \/ taken = Nobody
  /\ \A i \in DOMAIN table : taken # table[i]
  /\ \A i \in DOMAIN queue, w \in Workers : queue[i] # worker[w]
  /\ \A i \in DOMAIN queue, k \in DOMAIN table : queue[i] # table[k]
  /\ \A w \in Workers, k \in DOMAIN table : worker[w] # table[k]

InOnePlace ==
  Undisturbed =>
    /\ queue \in Seq(Event) /\ worker \in [Workers -> Event \cup {Nobody}]
    /\ \A e \in Event : e \in received <=> Holds(e)
    /\ HeldOnce

IInv == TypeOK /\ Delivered /\ InOnePlace

(***************************************************************************)
(* An event that is received is stored in the end, and its notification    *)
(* shown, also after kills and deletions that are over; unless the process *)
(* is killed or the history deleted once more before that, or a deletion   *)
(* was under way already                                                   *)
(* (MyFirebaseMessagingService.java:34-41, EventRepository.java:25-31).    *)
(***************************************************************************)
Deleting ==
  \/ DeleteAll \in ToSet(queue)
  \/ \E w \in Workers : worker[w] = DeleteAll

ReceivedIsStored ==
  \A e \in Event, k \in 0 .. MaxKills, d \in 0 .. MaxDeletions :
    taken = e /\ kills = k /\ deletions = d /\ ~ Deleting
      ~> \/ kills # k \/ deletions # d
         \/ e \in ToSet(table) /\ e \in notified
=============================================================================
