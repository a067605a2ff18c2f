--------------------------- MODULE MCOpenCodeWatch ---------------------------
(* Model-checking instances of OpenCodeWatch. *)
EXTENDS OpenCodeWatch
=============================================================================
