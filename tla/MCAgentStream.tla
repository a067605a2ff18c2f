---------------------------- MODULE MCAgentStream ---------------------------
EXTENDS AgentStream

=============================================================================
