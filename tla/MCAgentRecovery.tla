-------------------------- MODULE MCAgentRecovery ---------------------------
(* TLC instances of AgentRecovery; the configurations give the constants.  *)
EXTENDS AgentRecovery
=============================================================================
