------------------------------ MODULE EventApp ------------------------------
(***************************************************************************)
(* The process of the Android app: the messaging service makes a           *)
(* repository for every message, on its own thread, the screen makes one   *)
(* on the main thread, and each asks EventDatabase for the database and    *)
(* works on EventStore with what it got.  When Android kills the process   *)
(* the database object is gone with it, the table is not.                  *)
(***************************************************************************)
EXTENDS EventDatabase, Integers, Sequences

CONSTANTS
  Service, Main,   \* two of the threads: of the service, of the screen
  Workers, MaxEvents, ClockSteps, MaxDeletions, MaxKills,
  Unusable, Nobody, DeleteAll   \* of EventStore

VARIABLES
  timestamp, inflight, taken, service, queue, worker, table, notified, old,
  received, deletions, kills    \* of EventStore

Store == INSTANCE EventStore

ASSUME AppAssumption ==
  /\ Service # Main /\ Threads = {Service, Main}
  /\ Store!StoreAssumption

storeVars == <<timestamp, inflight, taken, service, queue, worker, table,
               notified, old, received, deletions, kills>>
appVars == <<vars, storeVars>>

AppInit == Init /\ Store!Init

-----------------------------------------------------------------------------
(* A thread goes on in getDatabase. *)
Thread(t) == Step(t) /\ UNCHANGED storeVars

(* The service is called; only for an event it wants the database. *)
MessageReceived ==
  \E message \in inflight :
    /\ Store!onMessageReceived(message)
    /\ \/ message = Unusable /\ UNCHANGED vars
       \/ message # Unusable /\ getDatabase(Service)

(* getDatabase has returned to the repository of the service. *)
RepositoryInsert ==
  /\ pc[Service] = "idle"
  /\ Store!repository_insert
  /\ UNCHANGED vars

(* The activity makes its view model, once or more in the life of a process. *)
ScreenOpens == getDatabase(Main) /\ UNCHANGED storeVars

(* The menu of a screen whose view model is made. *)
HistoryDeleted ==
  /\ pc[Main] = "idle" /\ got[Main] # null
  /\ Store!delete_history
  /\ UNCHANGED vars

EventSent == Store!create_request /\ UNCHANGED vars

Notification == Store!sendNotification /\ UNCHANGED vars

PoolThread(w) == (Store!Take(w) \/ Store!Run(w)) /\ UNCHANGED vars

ProcessKilled ==
  /\ Store!Kill
  /\ instance' = null
  /\ pc' = [t \in Threads |-> "idle"]
  /\ monitor' = null
  /\ built' = 0
  /\ got' = [t \in Threads |-> null]

AppNext ==
  \/ EventSent \/ MessageReceived \/ RepositoryInsert \/ Notification
  \/ ScreenOpens \/ HistoryDeleted \/ ProcessKilled
  \/ \E t \in Threads : Thread(t)
  \/ \E w \in Workers : PoolThread(w)

(* The threads of the app run. *)
AppSpec ==
  /\ AppInit /\ [][AppNext]_appVars
  /\ WF_appVars(RepositoryInsert) /\ WF_appVars(Notification)
  /\ \A t \in Threads : WF_appVars(Thread(t))
  /\ \A w \in Workers : WF_appVars(PoolThread(w))

-----------------------------------------------------------------------------
(***************************************************************************)
(* What EventStore promises, of an app whose repositories have to get the  *)
(* database first, while the screen asks for it too: the screen lists all  *)
(* events with the latest in time first, and what is received is stored    *)
(* and shown, unless a kill or a deletion comes between, and again after   *)
(* those.                                                                  *)
(***************************************************************************)
KeepsTrack == Store!KeepsTrack

ReceivedIsStored == Store!ReceivedIsStored
=============================================================================
