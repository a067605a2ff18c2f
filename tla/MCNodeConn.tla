----------------------------- MODULE MCNodeConn -----------------------------
(* The model-checking instance of NodeConn: a node of either kind of which    *)
(* one goroutine at a time takes care, with much happening to it; and a       *)
(* remote node on which a health check and a request overlap.                  *)
EXTENDS NodeConn

CONSTANTS w1, w2

MCWorlds ==
    {[local |-> l, checkers |-> {w1}, handlers |-> {w1}, requests |-> 3, faults |-> 2] : l \in BOOLEAN}
    \cup {[local |-> FALSE, checkers |-> {w1}, handlers |-> {w2}, requests |-> 1, faults |-> 1]}
=============================================================================
