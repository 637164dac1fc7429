--------------------------- MODULE MCAgentHandle ---------------------------
(* A handle on a CLI child and one on the host, of one name, and two       *)
(* interchangeable tasks that call them.                                   *)
EXTENDS AgentHandle, TLC

CONSTANTS h1, h2, t1, t2

Alike == Permutations(Tasks)
=============================================================================
