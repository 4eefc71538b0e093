--------------------------- MODULE MCAgentProcess ---------------------------
(* Two runs behind one adapter, and cancellations that run side by side.     *)
EXTENDS AgentProcess, TLC
=============================================================================
