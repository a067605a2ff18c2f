---------------------------- MODULE MCRebinding ----------------------------
(* Model-checking instance of Rebinding: the constants are in the configurations. *)
EXTENDS Rebinding
=============================================================================
