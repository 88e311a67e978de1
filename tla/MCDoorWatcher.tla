---------------------------- MODULE MCDoorWatcher ---------------------------
EXTENDS DoorWatcher

MCTops == {[i \in 0 .. 7 |-> 1]}
=============================================================================
