--------------------------- MODULE EventDatabase ----------------------------
(***************************************************************************)
(* EventRoomDatabase.getDatabase (EventRoomDatabase.java): the one         *)
(* database of the Android app, made by the thread that first asks for it. *)
(* The messaging service asks on its own thread for every message, the     *)
(* screen on the main thread.                                              *)
(*                                                                         *)
(* INSTANCE is volatile, so its reads and writes happen in one order; the  *)
(* monitor of the class and Room.databaseBuilder are external.  A thread   *)
(* calls again and again.                                                  *)
(***************************************************************************)
EXTENDS Naturals

CONSTANTS
  Threads,
  null,           \* INSTANCE, or a result, that is not there
  MaxDatabases    \* bound on the databases built

ASSUME DatabaseAssumption ==
  /\ MaxDatabases \in Nat \ {0}
  /\ null \notin Nat \cup Threads

VARIABLES
  instance,    \* the field INSTANCE
  pc,          \* pc[t]: where thread t is in getDatabase
  monitor,     \* the thread in the synchronized block
  built,       \* databases built so far (history)
  got          \* got[t]: what t's latest call returned

vars == <<instance, pc, monitor, built, got>>

Database == 1 .. MaxDatabases

TypeOK ==
  /\ instance \in Database \cup {null}
  /\ pc \in [Threads -> {"idle", "check", "enter", "check_again", "build",
                         "leave", "return"}]
  /\ monitor \in Threads \cup {null}
  /\ built \in 0 .. MaxDatabases
  /\ got \in [Threads -> Database \cup {null}]

Init ==
  /\ instance = null
  /\ pc = [t \in Threads |-> "idle"]
  /\ monitor = null
  /\ built = 0
  /\ got = [t \in Threads |-> null]

-----------------------------------------------------------------------------
At(t, from, to) ==
  /\ pc[t] = from
  /\ pc' = [pc EXCEPT ![t] = to]

getDatabase(t) ==
  /\ At(t, "idle", "check")
  /\ UNCHANGED <<instance, monitor, built, got>>

check(t) ==
  /\ At(t, "check", IF instance = null THEN "enter" ELSE "return")
  /\ UNCHANGED <<instance, monitor, built, got>>

enter(t) ==
  /\ At(t, "enter", "check_again")
  /\ monitor = null
  /\ monitor' = t
  /\ UNCHANGED <<instance, built, got>>

\* Mutant: only the check outside of the block is made.
check_once(t) ==
  /\ At(t, "check_again", "build")
  /\ UNCHANGED <<instance, monitor, built, got>>

check_again(t) ==
  /\ At(t, "check_again", IF instance = null THEN "build" ELSE "leave")
  /\ UNCHANGED <<instance, monitor, built, got>>

build(t) ==
  /\ At(t, "build", "leave")
  /\ built < MaxDatabases
  /\ built' = built + 1
  /\ instance' = built + 1
  /\ UNCHANGED <<monitor, got>>

\* Mutant: the block is not left.
leave_locked(t) ==
  /\ At(t, "leave", "return")
  /\ UNCHANGED <<instance, monitor, built, got>>

leave(t) ==
  /\ At(t, "leave", "return")
  /\ monitor' = null
  /\ UNCHANGED <<instance, built, got>>

return(t) ==
  /\ At(t, "return", "idle")
  /\ got' = [got EXCEPT ![t] = instance]
  /\ UNCHANGED <<instance, monitor, built>>

Step(t) ==
  check(t) \/ enter(t) \/ check_again(t) \/ build(t) \/ leave(t) \/ return(t)

Next == \E t \in Threads : getDatabase(t) \/ Step(t)

(* Threads run.  Nothing is asked of the monitor but to let some thread in. *)
Spec == Init /\ [][Next]_vars /\ \A t \in Threads : WF_vars(Step(t))

-----------------------------------------------------------------------------
(***************************************************************************)
(* One database is built, however many threads ask at the same time, and   *)
(* every call returns it: two would each tell only their own writes to the *)
(* screen (EventRoomDatabase.java:22-33).                                  *)
(***************************************************************************)
OneDatabase ==
  /\ built <= 1
  /\ \A t, u \in Threads : got[t] # null /\ got[u] # null => got[t] = got[u]

(***************************************************************************)
(* Every call returns: the block is left, and once there is a database     *)
(* nobody enters it any more, so nobody is passed over for ever            *)
(* (EventRoomDatabase.java:23-30).                                         *)
(***************************************************************************)
CallsReturn == \A t \in Threads : pc[t] = "check" ~> pc[t] = "idle"

(* Why: the thread in the block is the only one that may build, and it has  *)
(* looked at INSTANCE in the block.                                         *)
InBlock(t) == pc[t] \in {"check_again", "build", "leave"}

OneInBlock == \A t \in Threads : InBlock(t) => monitor = t

BuiltIsInstance ==
  \/ built = 0 /\ instance = null
  \/ built = 1 /\ instance = 1

BuildsFirst == \A t \in Threads : pc[t] = "build" => instance = null

ReturnsInstance ==
  \A t \in Threads :
    /\ pc[t] \in {"leave", "return"} => instance # null
    /\ got[t] # null => got[t] = instance

IInv ==
  TypeOK /\ OneInBlock /\ BuiltIsInstance /\ BuildsFirst /\ ReturnsInstance
=============================================================================
