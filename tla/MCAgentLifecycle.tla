-------------------------- MODULE MCAgentLifecycle --------------------------
(* The model-checking instance of AgentLifecycle: two connections race for a  *)
(* Claude agent, one uses an agent on a PTY.                                  *)
EXTENDS AgentLifecycle

CONSTANTS c1, c2
MCUsers == [pr \in {"claude", "opencode"} |-> IF pr = "claude" THEN {c1, c2} ELSE {c1}]
=============================================================================
