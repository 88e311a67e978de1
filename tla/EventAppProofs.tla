--------------------------- MODULE EventAppProofs ---------------------------
(***************************************************************************)
(* Theorems about the process of the Android app, for every number of      *)
(* events and of threads of the pool: its one database, and what becomes   *)
(* of the events.                                                          *)
(***************************************************************************)
EXTENDS EventApp, FiniteSetTheorems, TLAPS

(* One thread's place in getDatabase changes, the others' do not. *)
LEMMA Moves ==
  ASSUME TypeOK, NEW t \in Threads, NEW from, NEW to, At(t, from, to)
  PROVE  /\ pc[t] = from /\ pc'[t] = to
         /\ \A u \in Threads : u # t => pc'[u] = pc[u]
  BY DEF At, TypeOK

(* No process has a database at first. *)
LEMMA DatabaseInit == Init => IInv
BY DatabaseAssumption
DEF Init, IInv, TypeOK, OneInBlock, InBlock, BuiltIsInstance, BuildsFirst,
    ReturnsInstance, Database

(* The thread in the synchronized block is the only one there, and when it  *)
(* builds it has seen in the block that there is no database yet.           *)
LEMMA DatabaseStep == IInv /\ [Next]_vars => IInv'
<1> USE DatabaseAssumption
<1> SUFFICES ASSUME IInv, [Next]_vars
             PROVE  IInv'
  OBVIOUS
<1> USE DEF IInv
<1>1. CASE UNCHANGED vars
  BY <1>1 DEF vars, TypeOK, OneInBlock, InBlock, BuiltIsInstance, BuildsFirst,
              ReturnsInstance
<1>2. ASSUME NEW t \in Threads, getDatabase(t)
      PROVE  IInv'
  <2>1. pc'[t] = "check" /\ \A u \in Threads : u # t => pc'[u] = pc[u]
    BY <1>2, Moves DEF getDatabase
  <2>2. TypeOK'
    BY <1>2 DEF getDatabase, At, TypeOK
  <2> QED
    BY <1>2, <2>1, <2>2
    DEF getDatabase, OneInBlock, InBlock, BuiltIsInstance, BuildsFirst,
        ReturnsInstance
<1>3. ASSUME NEW t \in Threads, check(t)
      PROVE  IInv'
  <2>1. /\ pc'[t] = IF instance = null THEN "enter" ELSE "return"
        /\ \A u \in Threads : u # t => pc'[u] = pc[u]
    BY <1>3, Moves DEF check
  <2>2. TypeOK'
    BY <1>3 DEF check, At, TypeOK
  <2> QED
    BY <1>3, <2>1, <2>2
    DEF check, OneInBlock, InBlock, BuiltIsInstance, BuildsFirst,
        ReturnsInstance
<1>4. ASSUME NEW t \in Threads, enter(t)
      PROVE  IInv'
  <2>1. pc'[t] = "check_again" /\ \A u \in Threads : u # t => pc'[u] = pc[u]
    BY <1>4, Moves DEF enter
  <2>2. TypeOK'
    BY <1>4 DEF enter, At, TypeOK
  <2>3. OneInBlock'
    BY <1>4, <2>1 DEF enter, OneInBlock, InBlock
  <2> QED
    BY <1>4, <2>1, <2>2, <2>3
    DEF enter, BuiltIsInstance, BuildsFirst, ReturnsInstance
<1>5. ASSUME NEW t \in Threads, check_again(t)
      PROVE  IInv'
  <2>1. /\ pc[t] = "check_again"
        /\ pc'[t] = IF instance = null THEN "build" ELSE "leave"
        /\ \A u \in Threads : u # t => pc'[u] = pc[u]
    BY <1>5, Moves DEF check_again
  <2>2. TypeOK'
    BY <1>5 DEF check_again, At, TypeOK
  <2>3. OneInBlock'
    BY <1>5, <2>1 DEF check_again, OneInBlock, InBlock
  <2> QED
    BY <1>5, <2>1, <2>2, <2>3
    DEF check_again, BuiltIsInstance, BuildsFirst, ReturnsInstance
<1>6. ASSUME NEW t \in Threads, build(t)
      PROVE  IInv'
  <2>1. /\ pc[t] = "build" /\ pc'[t] = "leave"
        /\ \A u \in Threads : u # t => pc'[u] = pc[u]
    BY <1>6, Moves DEF build
  <2>2. built = 0 /\ built' = 1 /\ instance = null /\ instance' = 1
    BY <1>6, <2>1 DEF build, BuiltIsInstance, BuildsFirst
  <2>3. TypeOK'
    BY <1>6, <2>2 DEF build, At, TypeOK, Database
  <2>4. OneInBlock'
    BY <1>6, <2>1 DEF build, OneInBlock, InBlock
  <2>5. \A u \in Threads : u # t => ~ InBlock(u)
    BY <2>1 DEF OneInBlock, InBlock
  <2>6. BuildsFirst'
    BY <2>1, <2>5 DEF BuildsFirst, InBlock
  <2>7. ReturnsInstance'
    BY <1>6, <2>1, <2>2 DEF build, ReturnsInstance
  <2> QED
    BY <2>2, <2>3, <2>4, <2>6, <2>7 DEF BuiltIsInstance
<1>7. ASSUME NEW t \in Threads, leave(t)
      PROVE  IInv'
  <2>1. /\ pc[t] = "leave" /\ pc'[t] = "return"
        /\ \A u \in Threads : u # t => pc'[u] = pc[u]
    BY <1>7, Moves DEF leave
  <2>2. TypeOK'
    BY <1>7 DEF leave, At, TypeOK
  <2>3. \A u \in Threads : u # t => ~ InBlock(u)
    BY <2>1 DEF OneInBlock, InBlock
  <2>4. OneInBlock'
    BY <2>1, <2>3 DEF OneInBlock, InBlock
  <2> QED
    BY <1>7, <2>1, <2>2, <2>4
    DEF leave, BuiltIsInstance, BuildsFirst, ReturnsInstance
<1>8. ASSUME NEW t \in Threads, return(t)
      PROVE  IInv'
  <2>1. /\ pc[t] = "return" /\ pc'[t] = "idle"
        /\ \A u \in Threads : u # t => pc'[u] = pc[u]
    BY <1>8, Moves DEF return
  <2>2. TypeOK'
    BY <1>8 DEF return, At, TypeOK
  <2>3. ReturnsInstance'
    BY <1>8, <2>1 DEF return, ReturnsInstance, TypeOK
  <2> QED
    BY <1>8, <2>1, <2>2, <2>3
    DEF return, OneInBlock, InBlock, BuiltIsInstance, BuildsFirst
<1> QED
  BY <1>1, <1>2, <1>3, <1>4, <1>5, <1>6, <1>7, <1>8 DEF Next, Step

(***************************************************************************)
(* However often the service and the screen ask for the database, and at   *)
(* the same time, a process builds one and all of them get it; a killed    *)
(* process leaves none behind (EventRoomDatabase.java:22-33).              *)
(***************************************************************************)
THEOREM AtMostOneDatabase == AppSpec => []OneDatabase
<1>1. AppInit => IInv
  BY DatabaseInit DEF AppInit
<1>2. IInv /\ [AppNext]_appVars => IInv'
  <2> SUFFICES ASSUME IInv, [AppNext]_appVars PROVE IInv'
    OBVIOUS
  <2>1. CASE ProcessKilled
    BY <2>1, DatabaseAssumption
    DEF ProcessKilled, IInv, TypeOK, OneInBlock, InBlock, BuiltIsInstance,
        BuildsFirst, ReturnsInstance, Database
  <2>2. CASE MessageReceived
    BY <2>2, AppAssumption, DatabaseStep DEF MessageReceived, Next
  <2>3. CASE ScreenOpens
    BY <2>3, AppAssumption, DatabaseStep DEF ScreenOpens, Next
  <2>4. ASSUME NEW t \in Threads, Thread(t) PROVE IInv'
    BY <2>4, DatabaseStep DEF Thread, Next
  <2>5. CASE UNCHANGED vars
    BY <2>5, DatabaseStep
  <2> QED
    BY <2>1, <2>2, <2>3, <2>4, <2>5
    DEF AppNext, appVars, EventSent, RepositoryInsert, Notification,
        HistoryDeleted, PoolThread
<1>3. IInv => OneDatabase
  BY DEF IInv, BuiltIsInstance, ReturnsInstance, OneDatabase
<1> QED
  BY <1>1, <1>2, <1>3, PTL DEF AppSpec
-----------------------------------------------------------------------------
(* What the assumptions say of the events and of what is no event. *)
LEMMA EventsAreNumbers ==
  /\ MaxEvents \in Nat /\ Store!Event \subseteq Nat
  /\ Unusable \notin Nat /\ Nobody \notin Nat /\ DeleteAll \notin Nat
  /\ ClockSteps \subseteq Int
BY AppAssumption DEF Store!StoreAssumption, Store!Event

(* Nothing is sent or received at first. *)
LEMMA StoreInit == Store!Init => Store!IInv
<1> SUFFICES ASSUME Store!Init PROVE Store!IInv
  OBVIOUS
<1> USE EventsAreNumbers
<1>1. Store!sent = 0
  BY DEF Store!Init, Store!sent
<1>2. Store!TypeOK
  BY <1>1, AppAssumption
  DEF Store!Init, Store!TypeOK, Store!Task, Store!StoreAssumption
<1>3. Store!Delivered
  BY <1>1 DEF Store!Init, Store!Delivered
<1>4. Store!InOnePlace
  <2>1. DOMAIN queue = {} /\ DOMAIN table = {}
    BY DEF Store!Init
  <2> QED
    BY <2>1
    DEF Store!Init, Store!InOnePlace, Store!HeldOnce, Store!Holds, Store!Event
<1> QED
  BY <1>2, <1>3, <1>4 DEF Store!IInv

(* The variables of the store keep their types. *)
LEMMA StoreTypeStep ==
  ASSUME Store!TypeOK, Store!Delivered, [Store!Next]_(Store!vars)
  PROVE  Store!TypeOK'
<1> USE EventsAreNumbers DEF Store!TypeOK
<1>1. CASE Store!create_request
  <2>1. PICK t \in Int : timestamp' = Append(timestamp, t)
    <3>1. PICK step \in ClockSteps :
            timestamp' = Append(timestamp, IF Store!sent = 0 THEN 0
                                           ELSE timestamp[Store!sent] + step)
      BY <1>1 DEF Store!create_request
    <3>2. (IF Store!sent = 0 THEN 0 ELSE timestamp[Store!sent] + step) \in Int
      BY DEF Store!sent
    <3> QED
      BY <3>1, <3>2
  <2>2. timestamp' \in Seq(Int) /\ Store!sent' = Store!sent + 1 /\ Store!sent \in Nat
    BY <2>1 DEF Store!sent
  <2>3. Store!sent + 1 \in Store!Event
    BY <1>1, <2>2 DEF Store!create_request, Store!Event
  <2> QED
    BY <1>1, <2>2, <2>3 DEF Store!create_request, Store!Event, Store!Task
<1>2. ASSUME NEW message \in inflight, Store!onMessageReceived(message)
      PROVE  Store!TypeOK'
  BY <1>2 DEF Store!onMessageReceived, Store!sent, Store!Event, Store!Task
<1>3. CASE Store!repository_insert
  <2>1. taken \in Store!Task /\ queue' = Append(queue, taken)
    BY <1>3 DEF Store!repository_insert, Store!insert, Store!Task
  <2>2. queue' \in Seq(Store!Task)
    BY <2>1
  <2> QED
    BY <1>3, <2>2 DEF Store!repository_insert, Store!sent, Store!Event, Store!Task
<1>4. CASE Store!sendNotification
  BY <1>4 DEF Store!sendNotification, Store!sent, Store!Event, Store!Task
<1>5. CASE Store!delete_history
  <2>1. queue' \in Seq(Store!Task)
    BY <1>5 DEF Store!delete_history, Store!deleteAll, Store!Task
  <2>2. deletions' \in 0 .. MaxDeletions
    BY <1>5, AppAssumption DEF Store!delete_history, Store!StoreAssumption
  <2> QED
    BY <1>5, <2>1, <2>2 DEF Store!delete_history, Store!sent, Store!Event, Store!Task
<1>6. ASSUME NEW w \in Workers, Store!Take(w) PROVE Store!TypeOK'
  <2>1. Head(queue) \in Store!Task /\ Tail(queue) \in Seq(Store!Task)
    BY <1>6 DEF Store!Take
  <2> QED
    BY <1>6, <2>1 DEF Store!Take, Store!sent, Store!Event, Store!Task
<1>7. ASSUME NEW w \in Workers, Store!Run(w) PROVE Store!TypeOK'
  <2>1. table' \in Seq(Store!Event)
    BY <1>7 DEF Store!Run, Store!Task
  <2> QED
    BY <1>7, <2>1 DEF Store!Run, Store!sent, Store!Event, Store!Task
<1>8. CASE Store!Kill
  <2>1. kills' \in 0 .. MaxKills
    BY <1>8, AppAssumption DEF Store!Kill, Store!StoreAssumption
  <2> QED
    BY <1>8, <2>1 DEF Store!Kill, Store!sent, Store!Event, Store!Task
<1>9. CASE UNCHANGED Store!vars
  BY <1>9 DEF Store!vars, Store!sent, Store!Event, Store!Task
<1> QED
  BY <1>1, <1>2, <1>3, <1>4, <1>5, <1>6, <1>7, <1>8, <1>9
  DEF Store!Next, Store!Pool

(* Firebase delivers a message once. *)
LEMMA DeliveredStep ==
  ASSUME Store!TypeOK, Store!Delivered, [Store!Next]_(Store!vars)
  PROVE  Store!Delivered'
<1> USE EventsAreNumbers
<1>1. CASE Store!create_request
  <2>1. Store!sent \in Nat /\ Store!sent' = Store!sent + 1
    BY <1>1 DEF Store!TypeOK, Store!create_request, Store!sent
  <2> QED
    BY <1>1, <2>1 DEF Store!create_request, Store!Delivered
<1>2. ASSUME NEW message \in inflight, Store!onMessageReceived(message)
      PROVE  Store!Delivered'
  <2>1. Store!sent \in Nat /\ Store!sent' = Store!sent
    BY <1>2 DEF Store!TypeOK, Store!onMessageReceived, Store!sent
  <2> QED
    BY <1>2, <2>1 DEF Store!onMessageReceived, Store!Delivered
<1>3. CASE UNCHANGED <<timestamp, inflight, received>>
  BY <1>3 DEF Store!Delivered, Store!sent
<1> QED
  BY <1>1, <1>2, <1>3
  DEF Store!Next, Store!Pool, Store!vars, Store!repository_insert,
      Store!sendNotification, Store!delete_history, Store!Take, Store!Run,
      Store!Kill

(* Until something disturbs, an event goes from place to place as a whole:  *)
(* insert, a thread of the pool and the table take it over in one step      *)
(* (EventRepository.java, EventRoomDatabase.java:20).                       *)
LEMMA InOnePlaceStep ==
  ASSUME Store!TypeOK, Store!Delivered, Store!InOnePlace,
         [Store!Next]_(Store!vars)
  PROVE  Store!InOnePlace'
<1> USE EventsAreNumbers
<1>1. CASE Store!delete_history \/ Store!Kill
  <2>1. deletions \in Nat /\ kills \in Nat
    BY AppAssumption DEF Store!TypeOK, Store!StoreAssumption
  <2>2. ~ (deletions' = 0 /\ kills' = 0)
    BY <1>1, <2>1 DEF Store!delete_history, Store!Kill
  <2> QED
    BY <2>2 DEF Store!InOnePlace, Store!Undisturbed
<1>2. CASE UNCHANGED <<received, taken, queue, worker, table, deletions, kills>>
  BY <1>2 DEF Store!InOnePlace, Store!Undisturbed, Store!Holds, Store!HeldOnce,
              Store!Event
<1> SUFFICES ASSUME deletions = 0 /\ kills = 0,
                    ~ (Store!delete_history \/ Store!Kill)
             PROVE  Store!InOnePlace'
  <2>1. ~ (Store!delete_history \/ Store!Kill) => UNCHANGED <<deletions, kills>>
    BY DEF Store!Next, Store!Pool, Store!vars, Store!create_request,
           Store!onMessageReceived, Store!repository_insert,
           Store!sendNotification, Store!Take, Store!Run
  <2> QED
    BY <1>1, <2>1 DEF Store!InOnePlace, Store!Undisturbed
<1>3. /\ queue \in Seq(Store!Event)
      /\ worker \in [Workers -> Store!Event \cup {Nobody}]
      /\ table \in Seq(Store!Event)
      /\ taken \in Store!Event \cup {Nobody}
      /\ \A e \in Store!Event : e \in received <=> Store!Holds(e)
      /\ Store!HeldOnce
  BY DEF Store!InOnePlace, Store!Undisturbed, Store!TypeOK
<1>3a. ASSUME NEW s \in Seq(Store!Event), NEW i \in DOMAIN s PROVE s[i] # Nobody
  <2>1. s[i] \in Store!Event
    OBVIOUS
  <2> QED
    BY <2>1
<1>4. ASSUME NEW message \in inflight, Store!onMessageReceived(message)
      PROVE  Store!InOnePlace'
  <2>1. CASE message = Unusable
    BY <1>2, <1>4, <2>1 DEF Store!onMessageReceived
  <2>2. CASE message # Unusable
    <3>1. message \in Store!Event /\ message \notin received
      BY <1>4, <2>2 DEF Store!TypeOK, Store!Delivered
    <3>2. /\ taken = Nobody /\ taken' = message
          /\ received' = received \cup {message}
          /\ UNCHANGED <<queue, worker, table>>
      BY <1>4, <2>2 DEF Store!onMessageReceived
    <3>3. ~ Store!Holds(message)
      BY <1>3, <3>1
    <3>4. \A e \in Store!Event : e \in received' <=> Store!Holds(e)'
      BY <1>3, <3>1, <3>2 DEF Store!Holds
    <3>5. Store!HeldOnce'
      BY <1>3, <3>1, <3>2, <3>3 DEF Store!HeldOnce, Store!Holds
    <3> QED
      BY <1>3, <3>2, <3>4, <3>5 DEF Store!InOnePlace, Store!Event
  <2> QED
    BY <2>1, <2>2
<1>5. CASE Store!repository_insert
  <2>1. /\ taken \in Store!Event /\ taken' = Nobody
        /\ queue' = Append(queue, taken)
        /\ UNCHANGED <<worker, table, received>>
    BY <1>3, <1>5 DEF Store!repository_insert, Store!insert
  <2>2. /\ queue' \in Seq(Store!Event) /\ Len(queue) \in Nat
        /\ DOMAIN queue = 1 .. Len(queue) /\ DOMAIN queue' = 1 .. Len(queue) + 1
        /\ \A i \in DOMAIN queue : queue'[i] = queue[i]
        /\ queue'[Len(queue) + 1] = taken
    BY <1>3, <2>1
  <2>3. \A e \in Store!Event : Store!Holds(e)' <=> Store!Holds(e)
    BY <2>1, <2>2 DEF Store!Holds
  <2>4. Store!HeldOnce'
    <3>1. \A i \in DOMAIN queue' :
            (i \in DOMAIN queue /\ queue'[i] = queue[i])
              \/ (i = Len(queue) + 1 /\ queue'[i] = taken)
      BY <2>2
    <3>2. \A i, j \in DOMAIN queue' : queue'[i] = queue'[j] => i = j
      BY <1>3, <3>1 DEF Store!HeldOnce
    <3>3. \A i \in DOMAIN queue', w \in Workers : queue'[i] # worker'[w]
      BY <1>3, <2>1, <3>1 DEF Store!HeldOnce
    <3>4. \A i \in DOMAIN queue', k \in DOMAIN table' : queue'[i] # table'[k]
      BY <1>3, <2>1, <3>1 DEF Store!HeldOnce
    <3>5. /\ \A i \in DOMAIN queue' : Nobody # queue'[i]
          /\ \A i \in DOMAIN table' : Nobody # table'[i]
      BY <1>3, <1>3a, <2>1, <2>2, Zenon
    <3> QED
      BY <1>3, <2>1, <3>2, <3>3, <3>4, <3>5 DEF Store!HeldOnce
  <2> QED
    BY <1>3, <2>1, <2>2, <2>3, <2>4 DEF Store!InOnePlace, Store!Event
<1>6. ASSUME NEW w \in Workers, Store!Take(w) PROVE Store!InOnePlace'
  <2> DEFINE event == Head(queue)
  <2>1. /\ queue # <<>> /\ queue' = Tail(queue)
        /\ worker' = [worker EXCEPT ![w] = event]
        /\ worker[w] = Nobody
        /\ UNCHANGED <<taken, table, received>>
    BY <1>6 DEF Store!Take
  <2>2. /\ queue' \in Seq(Store!Event) /\ Len(queue) \in Nat
        /\ DOMAIN queue = 1 .. Len(queue) /\ DOMAIN queue' = 1 .. Len(queue) - 1
        /\ 1 \in DOMAIN queue /\ event = queue[1] /\ event \in Store!Event
        /\ \A i \in DOMAIN queue' : queue'[i] = queue[i + 1] /\ i + 1 \in DOMAIN queue
        /\ \A i \in DOMAIN queue : i = 1 \/ i - 1 \in DOMAIN queue'
    BY <1>3, <2>1
  <2> HIDE DEF event
  <2>3. /\ worker'[w] = event /\ \A v \in Workers : v # w => worker'[v] = worker[v]
        /\ worker' \in [Workers -> Store!Event \cup {Nobody}]
    BY <1>3, <2>1, <2>2
  <2>4. ASSUME NEW e \in Store!Event PROVE Store!Holds(e)' <=> Store!Holds(e)
    <3>1. (\E i \in DOMAIN queue : e = queue[i])
            <=> e = event \/ \E i \in DOMAIN queue' : e = queue'[i]
      <4>1. \A i \in DOMAIN queue : i # 1 =>
              i - 1 \in DOMAIN queue' /\ queue'[i - 1] = queue[i]
        BY <2>2
      <4> QED
        BY <2>2, <4>1
    <3>2. (\E v \in Workers : e = worker'[v])
            <=> e = event \/ \E v \in Workers : e = worker[v]
      BY <2>1, <2>3
    <3> QED
      BY <2>1, <3>1, <3>2 DEF Store!Holds
  <2>5. Store!HeldOnce'
    BY <1>3, <2>1, <2>2, <2>3 DEF Store!HeldOnce
  <2> QED
    BY <1>3, <2>1, <2>2, <2>3, <2>4, <2>5 DEF Store!InOnePlace, Store!Event
<1>7. ASSUME NEW w \in Workers, Store!Run(w) PROVE Store!InOnePlace'
  <2> DEFINE event == worker[w]
  <2>1. /\ event \in Store!Event /\ table' = Append(table, event)
        /\ worker' = [worker EXCEPT ![w] = Nobody]
        /\ UNCHANGED <<taken, queue, received>>
    BY <1>3, <1>7 DEF Store!Run
  <2>2. /\ table' \in Seq(Store!Event) /\ Len(table) \in Nat
        /\ DOMAIN table = 1 .. Len(table) /\ DOMAIN table' = 1 .. Len(table) + 1
        /\ \A i \in DOMAIN table : table'[i] = table[i]
        /\ table'[Len(table) + 1] = event
    BY <1>3, <2>1
  <2>3. /\ worker'[w] = Nobody /\ \A v \in Workers : v # w => worker'[v] = worker[v]
        /\ worker' \in [Workers -> Store!Event \cup {Nobody}]
    BY <1>3, <2>1
  <2>4. ASSUME NEW e \in Store!Event PROVE Store!Holds(e)' <=> Store!Holds(e)
    <3>1. (\E i \in DOMAIN table' : e = table'[i])
            <=> e = event \/ \E i \in DOMAIN table : e = table[i]
      BY <2>2
    <3>2. (\E v \in Workers : e = worker[v])
            <=> e = event \/ \E v \in Workers : e = worker'[v]
      BY <2>1, <2>3
    <3> QED
      BY <2>1, <3>1, <3>2 DEF Store!Holds
  <2>5. Store!HeldOnce'
    <3>1. \A i \in DOMAIN table' :
            (i \in DOMAIN table /\ table'[i] = table[i])
              \/ (i = Len(table) + 1 /\ table'[i] = event)
      BY <2>2
    <3>2. event # Nobody
      BY <2>1
    <3>3. /\ \A i, j \in DOMAIN table' : table'[i] = table'[j] => i = j
          /\ \A i \in DOMAIN table' : taken' # table'[i]
          /\ \A i \in DOMAIN queue', k \in DOMAIN table' : queue'[i] # table'[k]
      BY <1>3, <2>1, <3>1, <3>2 DEF Store!HeldOnce
    <3>4. \A v \in Workers, k \in DOMAIN table' : worker'[v] # table'[k]
      <4>1. \A k \in DOMAIN table' : Nobody # table'[k]
        BY <1>3a, <2>2, Zenon
      <4>2. \A v \in Workers : v # w => worker[v] # event
        BY <1>3, <3>2 DEF Store!HeldOnce
      <4> QED
        BY <1>3, <2>3, <3>1, <4>1, <4>2 DEF Store!HeldOnce
    <3>5. \A u, v \in Workers :
            worker'[u] = worker'[v] => u = v \/ worker'[u] = Nobody
      BY <1>3, <2>1, <2>3 DEF Store!HeldOnce
    <3>6. \A v \in Workers : taken' # worker'[v] \/ taken' = Nobody
      BY <1>3, <2>1, <2>3 DEF Store!HeldOnce
    <3>7. \A i \in DOMAIN queue', v \in Workers : queue'[i] # worker'[v]
      <4>1. \A i \in DOMAIN queue : Nobody # queue[i]
        BY <1>3, <1>3a, Zenon
      <4> QED
        BY <1>3, <2>1, <2>3, <4>1 DEF Store!HeldOnce
    <3> QED
      BY <1>3, <2>1, <3>3, <3>4, <3>5, <3>6, <3>7 DEF Store!HeldOnce
  <2> QED
    BY <1>3, <2>1, <2>3, <2>4, <2>5 DEF Store!InOnePlace, Store!Event
<1> QED
  BY <1>2, <1>4, <1>5, <1>6, <1>7
  DEF Store!Next, Store!Pool, Store!vars, Store!create_request,
      Store!sendNotification

(* The first n numbers are as many. *)
LEMMA Interval ==
  ASSUME NEW n \in Nat
  PROVE  IsFiniteSet(1 .. n) /\ Cardinality(1 .. n) = n
<1>1. 1 \in Int /\ n \in Int
  OBVIOUS
<1>2. /\ IsFiniteSet(1 .. n)
      /\ Cardinality(1 .. n) = IF 1 > n THEN 0 ELSE n - 1 + 1
  BY <1>1, FS_Interval
<1> QED
  BY <1>2

(* When all is delivered, the rows of the table are the events, each once.  *)
LEMMA SettledTable ==
  ASSUME Store!IInv, Store!Settled, Store!Undisturbed
  PROVE  /\ Len(table) = Store!sent
         /\ table \in [1 .. Store!sent -> 1 .. Store!sent]
         /\ \A i, j \in 1 .. Store!sent : table[i] = table[j] => i = j
         /\ \A e \in 1 .. Store!sent : \E i \in 1 .. Store!sent : table[i] = e
<1> DEFINE n == Store!sent
           rows == 1 .. Len(table)
<1>1. /\ n \in Nat /\ n <= MaxEvents /\ received = 1 .. n
      /\ table \in Seq(Store!Event) /\ DOMAIN table = rows /\ Len(table) \in Nat
  <2>1. n \in Nat /\ table \in Seq(Store!Event)
    BY DEF Store!IInv, Store!TypeOK, Store!sent
  <2> QED
    BY <2>1 DEF Store!IInv, Store!TypeOK, Store!Settled, Store!Delivered
<1>2. ASSUME NEW e \in Store!Event
      PROVE  e \in 1 .. n <=> \E i \in rows : table[i] = e
  <2>1. e # Nobody
    BY EventsAreNumbers
  <2> QED
    BY <1>1, <2>1
    DEF Store!IInv, Store!InOnePlace, Store!Settled, Store!Holds
<1>3. \A i \in rows : table[i] \in 1 .. n
  BY <1>1, <1>2
<1>4. \A e \in 1 .. n : \E i \in rows : table[i] = e
  BY <1>1, <1>2, EventsAreNumbers DEF Store!Event
<1>5. \A i, j \in rows : table[i] = table[j] => i = j
  BY <1>1 DEF Store!IInv, Store!InOnePlace, Store!HeldOnce
<1> HIDE DEF n
<1>6. table \in Bijection(rows, 1 .. n)
  <2>1. table \in [rows -> 1 .. n]
    BY <1>1, <1>3
  <2> QED
    BY <1>4, <1>5, <2>1
    DEF Bijection, Injection, Surjection, IsInjective
<1>7. Len(table) = n
  <2>1. ExistsBijection(rows, 1 .. n)
    BY <1>6 DEF ExistsBijection
  <2>2. IsFiniteSet(rows) /\ Cardinality(rows) = Len(table) /\ Cardinality(1 .. n) = n
    BY <1>1, Interval
  <2>3. Cardinality(1 .. n) = Cardinality(rows)
    BY <2>1, <2>2, FS_Bijection
  <2> QED
    BY <2>2, <2>3
<1>8. table \in [1 .. n -> 1 .. n]
  BY <1>1, <1>3, <1>7
<1> QED
  BY <1>4, <1>5, <1>7, <1>8 DEF n

(* Any numbers can be put in descending order: each goes to the place that  *)
(* the numbers before it, and itself, leave it.                             *)
LEMMA CanBeSorted ==
  ASSUME NEW n \in Nat, NEW key, \A k \in 1 .. n : key[k] \in Int
  PROVE  \E row \in [1 .. n -> 1 .. n] :
           /\ \A i, j \in 1 .. n : row[i] = row[j] => i = j
           /\ \A k \in 1 .. n : \E i \in 1 .. n : row[i] = k
           /\ \A i, j \in 1 .. n : i < j => key[row[i]] >= key[row[j]]
<1> DEFINE rows == 1 .. n
           Before(l, k) == key[l] > key[k] \/ (key[l] = key[k] /\ l <= k)
           upto(k) == {l \in rows : Before(l, k)}
           rank == [k \in rows |-> Cardinality(upto(k))]
<1>1. IsFiniteSet(rows) /\ Cardinality(rows) = n
  BY Interval
<1>2. ASSUME NEW k \in rows
      PROVE  /\ IsFiniteSet(upto(k)) /\ Cardinality(upto(k)) \in 1 .. n
             /\ k \in upto(k)
  <2>1. upto(k) \in SUBSET rows /\ k \in upto(k)
    OBVIOUS
  <2> HIDE DEF upto, rows
  <2>2. IsFiniteSet(upto(k)) /\ Cardinality(upto(k)) <= n
    BY <1>1, <2>1, FS_Subset
  <2>3. Cardinality(upto(k)) \in Nat
    BY <2>2, FS_CardinalityType
  <2>4. Cardinality(upto(k)) # 0
    BY <2>1, <2>2, FS_EmptySet
  <2> QED
    BY <2>1, <2>2, <2>3, <2>4
<1>3. ASSUME NEW k \in rows, NEW l \in rows, k # l, Before(k, l)
      PROVE  rank[k] < rank[l]
  <2>1. /\ key[k] \in Int /\ key[l] \in Int /\ k \in Int /\ l \in Int
        /\ \A m \in rows : key[m] \in Int /\ m \in Int
    OBVIOUS
  <2>2. upto(k) \in SUBSET upto(l) /\ l \in upto(l) /\ l \notin upto(k)
    BY <1>3, <2>1
  <2>3. rank[k] = Cardinality(upto(k)) /\ rank[l] = Cardinality(upto(l))
    OBVIOUS
  <2> HIDE DEF upto, rows, rank
  <2>4. /\ Cardinality(upto(k)) \in Nat /\ Cardinality(upto(l)) \in Nat
        /\ IsFiniteSet(upto(l))
    <3>1. 1 .. n \subseteq Nat
      OBVIOUS
    <3> QED
      BY <1>2, <3>1
  <2>5. Cardinality(upto(k)) <= Cardinality(upto(l))
    BY <2>2, <2>4, FS_Subset
  <2>6. Cardinality(upto(k)) # Cardinality(upto(l))
    <3>1. upto(l) # upto(k)
      BY <2>2
    <3> QED
      BY <2>2, <2>4, <3>1, FS_Subset
  <2> QED
    BY <2>3, <2>4, <2>5, <2>6
<1>4. rank \in [rows -> rows]
  BY <1>2
<1>5. \A k, l \in rows : k # l => Before(k, l) \/ Before(l, k)
  OBVIOUS
<1>6. \A k, l \in rows : rank[k] \in Int /\ rank[l] \in Int
  BY <1>4
<1> HIDE DEF rank, Before
<1>7. \A k, l \in rows : rank[k] = rank[l] => k = l
  BY <1>3, <1>5, <1>6
<1> HIDE DEF rows
<1>8. rank \in Injection(rows, rows)
  BY <1>4, <1>7 DEF Injection, IsInjective
<1>9. rank \in Surjection(rows, rows)
  BY <1>1, <1>8, FS_Injection
<1>10. \A i \in rows : \E k \in rows : rank[k] = i
  BY <1>9 DEF Surjection
<1> DEFINE row == [i \in rows |-> CHOOSE k \in rows : rank[k] = i]
<1>11. ASSUME NEW i \in rows PROVE row[i] \in rows /\ rank[row[i]] = i
  BY <1>10
<1> HIDE DEF row
<1>12. row \in [rows -> rows]
  BY <1>11 DEF row
<1>13. \A i, j \in rows : row[i] = row[j] => i = j
  BY <1>11
<1>14. ASSUME NEW k \in rows PROVE \E i \in rows : row[i] = k
  <2>1. rank[k] \in rows
    BY <1>4
  <2>2. row[rank[k]] \in rows /\ rank[row[rank[k]]] = rank[k]
    BY <1>11, <2>1
  <2>3. row[rank[k]] = k
    BY <1>7, <2>2
  <2> QED
    BY <2>1, <2>3
<1>15. ASSUME NEW i \in rows, NEW j \in rows, i < j
       PROVE  key[row[i]] >= key[row[j]]
  <2>1. /\ row[i] \in rows /\ row[j] \in rows
        /\ rank[row[i]] = i /\ rank[row[j]] = j
    BY <1>11
  <2>2. /\ i \in Int /\ j \in Int
        /\ key[row[i]] \in Int /\ key[row[j]] \in Int
    BY <2>1 DEF rows
  <2>3. row[i] # row[j]
    BY <1>15, <2>1, <2>2
  <2>4. ~ Before(row[j], row[i])
    <3>1. ~ rank[row[j]] < rank[row[i]]
      BY <1>15, <2>1, <2>2
    <3> QED
      BY <1>3, <2>1, <2>3, <3>1
  <2> QED
    BY <2>2, <2>4 DEF Before
<1> QED
  BY <1>12, <1>13, <1>14, <1>15 DEF rows

(* Of such a table the query gives lists of all events that begin with the  *)
(* latest in time, and there is such a list (EventDao.java:18).             *)
LEMMA LatestFirst ==
  ASSUME Store!IInv, Store!Settled, Store!Undisturbed, Store!sent > 0
  PROVE  /\ Store!getEvents # {}
         /\ \A lines \in Store!getEvents :
              /\ Len(lines) = Store!sent
              /\ \A e \in 1 .. Store!sent : \E i \in 1 .. Store!sent : lines[i] = e
              /\ Store!LatestInTime => lines[1] = Store!sent
<1> DEFINE n == Store!sent
           rows == DOMAIN table
           Sorted(row) ==
             \A i, j \in rows :
               i < j => timestamp[table[row[i]]] >= timestamp[table[row[j]]]
<1>1. /\ n \in Nat /\ n > 0 /\ rows = 1 .. n /\ table \in [1 .. n -> 1 .. n]
      /\ \A e \in 1 .. n : \E i \in 1 .. n : table[i] = e
  <2>1. n \in Nat
    BY DEF Store!IInv, Store!TypeOK, Store!sent
  <2> QED
    BY <2>1, SettledTable
<1>2. \A e \in 1 .. n : timestamp[e] \in Int
  BY DEF Store!IInv, Store!TypeOK, Store!sent
<1>3. Store!getEvents =
        {[i \in rows |-> table[row[i]]] :
           row \in {r \in Store!Bijection(rows, rows) : Sorted(r)}}
  BY DEF Store!getEvents
<1>4. \A r : r \in Store!Bijection(rows, rows)
               <=> /\ r \in [rows -> rows]
                   /\ \A i, j \in rows : r[i] = r[j] => i = j
                   /\ \A k \in rows : \E i \in rows : r[i] = k
  BY DEF Store!Bijection, Store!Injection, Store!Surjection, Store!IsInjective
<1>4a. Store!LatestInTime <=> \A e \in 1 .. n - 1 : timestamp[e] < timestamp[n]
  BY DEF Store!LatestInTime
<1> HIDE DEF n, rows
<1>5. Store!getEvents # {}
  <2> DEFINE key == [k \in 1 .. n |-> timestamp[table[k]]]
  <2>1. \A k \in 1 .. n : key[k] \in Int /\ key[k] = timestamp[table[k]]
    BY <1>1, <1>2
  <2> HIDE DEF key
  <2>2. PICK row \in [1 .. n -> 1 .. n] :
          /\ \A i, j \in 1 .. n : row[i] = row[j] => i = j
          /\ \A k \in 1 .. n : \E i \in 1 .. n : row[i] = k
          /\ \A i, j \in 1 .. n : i < j => key[row[i]] >= key[row[j]]
    BY <1>1, <2>1, CanBeSorted
  <2>3. \A i \in 1 .. n : row[i] \in 1 .. n
    BY <2>2
  <2>4. Sorted(row)
    <3> SUFFICES ASSUME NEW i \in rows, NEW j \in rows, i < j
                 PROVE  timestamp[table[row[i]]] >= timestamp[table[row[j]]]
      OBVIOUS
    <3>1. i \in 1 .. n /\ j \in 1 .. n
      BY <1>1
    <3>2. key[row[i]] >= key[row[j]]
      BY <2>2, <3>1
    <3>3. /\ key[row[i]] = timestamp[table[row[i]]]
          /\ key[row[j]] = timestamp[table[row[j]]]
      BY <2>1, <2>3, <3>1
    <3> QED
      BY <3>2, <3>3
  <2> HIDE DEF Sorted
  <2>5. row \in {r \in Store!Bijection(rows, rows) : Sorted(r)}
    BY <1>1, <1>4, <2>2, <2>4
  <2>6. [i \in rows |-> table[row[i]]] \in Store!getEvents
    BY <1>3, <2>5
  <2> QED
    BY <2>6
<1>6. ASSUME NEW lines \in Store!getEvents
      PROVE  /\ Len(lines) = n
             /\ \A e \in 1 .. n : \E i \in 1 .. n : lines[i] = e
             /\ Store!LatestInTime => lines[1] = n
  <2>1. PICK row \in Store!Bijection(rows, rows) :
          Sorted(row) /\ lines = [i \in rows |-> table[row[i]]]
    BY <1>3
  <2>2. row \in [rows -> rows] /\ \A i \in rows : \E j \in rows : row[j] = i
    BY <1>4, <2>1, Zenon
  <2>3. /\ \A i \in 1 .. n : row[i] \in 1 .. n /\ lines[i] = table[row[i]]
        /\ lines = [i \in 1 .. n |-> table[row[i]]]
    BY <1>1, <2>1, <2>2
  <2>4. Len(lines) = n
    BY <1>1, <2>3
  <2>5. ASSUME NEW e \in 1 .. n
        PROVE  \E i \in 1 .. n : row[i] \in 1 .. n /\ table[row[i]] = e
    <3>1. PICK k \in 1 .. n : table[k] = e
      BY <1>1
    <3>2. PICK i \in 1 .. n : row[i] = k
      BY <1>1, <2>2
    <3> QED
      BY <3>1, <3>2
  <2>6. \A e \in 1 .. n : \E i \in 1 .. n : lines[i] = e
    BY <2>3, <2>5
  <2>7. ASSUME Store!LatestInTime PROVE lines[1] = n
    <3>1. 1 \in 1 .. n /\ n \in 1 .. n
      BY <1>1
    <3>2. PICK j \in 1 .. n : table[row[j]] = n
      BY <2>5, <3>1
    <3>3. lines[1] \in 1 .. n /\ lines[1] = table[row[1]]
      BY <1>1, <2>3, <3>1
    <3>4. CASE j = 1
      BY <3>2, <3>3, <3>4
    <3>5. CASE j # 1
      <4>1. 1 < j /\ 1 \in rows /\ j \in rows
        BY <1>1, <3>1, <3>5
      <4>2. timestamp[lines[1]] >= timestamp[n]
        BY <2>1, <3>2, <3>3, <4>1
      <4>3. timestamp[lines[1]] \in Int /\ timestamp[n] \in Int
        BY <1>2, <3>1, <3>3
      <4>4. lines[1] \notin 1 .. n - 1
        BY <1>4a, <2>7, <4>2, <4>3
      <4>5. \A e \in 1 .. n : e \notin 1 .. n - 1 => e = n
        BY <1>1
      <4> QED
        BY <3>3, <4>4, <4>5, Zenon
    <3> QED
      BY <3>4, <3>5
  <2> QED
    BY <2>4, <2>6, <2>7
<1> QED
  BY <1>5, <1>6 DEF n

(***************************************************************************)
(* When all is delivered the screen lists every event once, and first the  *)
(* latest one when it is also the latest in time, for every number of      *)
(* events and threads, every order of delivery and of storing, and every   *)
(* clock, one that is set back too, while the process is not killed nor    *)
(* the history deleted (EventDao.java:18,                                  *)
(* MyFirebaseMessagingService.java:34-41).                                 *)
(***************************************************************************)
THEOREM ScreenKeepsTrack == AppSpec => []KeepsTrack
<1>1. AppInit => Store!IInv
  BY StoreInit DEF AppInit
<1>2. Store!IInv /\ [AppNext]_appVars => Store!IInv'
  <2> SUFFICES ASSUME Store!IInv, [AppNext]_appVars PROVE Store!IInv'
    OBVIOUS
  <2>1. [Store!Next]_(Store!vars)
    BY DEF AppNext, appVars, storeVars, EventSent, MessageReceived,
           RepositoryInsert, Notification, ScreenOpens, HistoryDeleted,
           ProcessKilled, Thread, PoolThread, Store!Next, Store!Pool, Store!vars
  <2> QED
    BY <2>1, StoreTypeStep, DeliveredStep, InOnePlaceStep DEF Store!IInv
<1>3. Store!IInv => KeepsTrack
  BY LatestFirst DEF KeepsTrack, Store!KeepsTrack
<1> QED
  BY <1>1, <1>2, <1>3, PTL DEF AppSpec
=============================================================================
