--------------------------- MODULE MCEventBuffer ---------------------------
(* Model-checking instance of EventBuffer. *)
EXTENDS EventBuffer
=============================================================================
