------------------------------- MODULE Calls -------------------------------
(***************************************************************************)
(* What the agent host promises each call: its agent runs at most once,    *)
(* never after the caller was told to go elsewhere, and a result is told   *)
(* only of an agent that has ended.                                        *)
(***************************************************************************)
CONSTANTS Callers

VARIABLES
  stage,     \* of the call's agent
  told       \* what its caller was told

cvars == <<stage, told>>

(* A caller told one of these runs the call on the CLI route, or not at    *)
(* all: an agent that ran on the host as well would have run twice.        *)
Elsewhere == {"unavailable", "refused"}

Init ==
  /\ stage = [c \in Callers |-> "new"]
  /\ told = [c \in Callers |-> "nothing"]

Begin(c) ==
  /\ stage[c] = "new"
  /\ told[c] \notin Elsewhere
  /\ stage' = [stage EXCEPT ![c] = "running"]
  /\ UNCHANGED told

(* Any agents end at once: one its work, all those of a host that dies;    *)
(* one cancelled in time ends without having run.                          *)
End(S) ==
  /\ stage' = [c \in Callers |-> IF c \in S THEN "over" ELSE stage[c]]
  /\ UNCHANGED told

Tell(c, t) ==
  /\ told[c] = "nothing"
  /\ t \in Elsewhere => stage[c] = "new"
  /\ t = "result" => stage[c] = "over"
  /\ told' = [told EXCEPT ![c] = t]
  /\ UNCHANGED stage

Next ==
  \/ \E c \in Callers : Begin(c)
  \/ \E S \in SUBSET Callers : End(S)
  \/ \E c \in Callers :
       \E t \in {"result", "failed", "timeout"} \cup Elsewhere : Tell(c, t)

Spec == Init /\ [][Next]_cvars
=============================================================================
