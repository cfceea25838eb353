---------------------------- MODULE MCAgentSession ----------------------------
(* Two sessions of the agent, a watchdog that counts to two.                *)
EXTENDS AgentSession
=============================================================================
