------------------------------ MODULE MCProxy ------------------------------
(* Model-checking instances of Proxy. *)
EXTENDS Proxy
=============================================================================
