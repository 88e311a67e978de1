--------------------------- MODULE MCPushNotifier ---------------------------
EXTENDS PushNotifier

(* What a clock that is not running may read as: the epoch, by chance the   *)
(* true time, or far in the future.                                         *)
MCGarbage == {StartTime, 100}
=============================================================================
