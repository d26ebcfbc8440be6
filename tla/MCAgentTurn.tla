---------------------------- MODULE MCAgentTurn ----------------------------
(***************************************************************************)
(* AgentTurn for TLC: the bounds come from the configurations.             *)
(***************************************************************************)
EXTENDS AgentTurn
=============================================================================
