---------------------------- MODULE MCAgentHost ----------------------------
(* Instances of AgentHost for TLC.                                         *)
EXTENDS AgentHost, TLC

CONSTANTS c1, c2

Alike == Permutations(Callers)
=============================================================================
