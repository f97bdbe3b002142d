---------------------------- MODULE MCAgentLock -----------------------------
(* TLC instances of AgentLock; the configurations give the constants.      *)
EXTENDS AgentLock
=============================================================================
