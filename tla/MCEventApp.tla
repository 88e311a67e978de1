------------------------------ MODULE MCEventApp ----------------------------
EXTENDS EventApp

(* The clock goes on, shows the same second again, or was set back. *)
MCClockSteps == {-1, 0, 1}
=============================================================================
