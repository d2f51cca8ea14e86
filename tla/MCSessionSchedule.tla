------------------------- MODULE MCSessionSchedule -------------------------
(* Values of the constants of SessionSchedule and SessionPages for TLC. *)
EXTENDS SessionPages

AllOperations == Operation

(* The changes of status the clients make besides cancel and reactivate. *)
HeldPatches == {<<"scheduled", "completed">>, <<"completed", "scheduled">>}
=============================================================================
