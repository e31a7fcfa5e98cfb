---------------------------- MODULE MC_AgentLoop ----------------------------
(* AgentLoop on a small instance: two registrations at one terminal.       *)
EXTENDS AgentLoop
CONSTANTS j1, j2
=============================================================================
