------------------------------ MODULE MCGroups ------------------------------
(* One number, which commands with a handle, in the foreground, tools of a *)
(* claude and any number of strangers wear in turn.                        *)
EXTENDS Groups, FiniteSets, TLC

CONSTANTS p1, b1, f1, g1, g2

Sym == Permutations({g1, g2})
Started == {j \in Jobs : num[j] # None}
(* Any two of them, in whatever order, and the strangers; a claude that    *)
(* started no tool goes on.                                                *)
Few ==
  /\ Cardinality(Started) <= 2
  /\ agent = "live" \/ Started \intersect Tools # {}
=============================================================================
