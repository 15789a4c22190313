----------------------------- MODULE MCAgentData -----------------------------
(* AgentData for TLC: two requests at once, one device, one action. *)
EXTENDS AgentData
=============================================================================
