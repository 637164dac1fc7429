-------------------------------- MODULE Mutex --------------------------------
(***************************************************************************)
(* What a key's lock promises (src/src/ptc/lock.py): one holder at a time, *)
(* and nobody enters before the last one has left.                         *)
(***************************************************************************)
CONSTANT Procs

VARIABLE inside     \* the processes that hold the key

Init == inside = {}

Enter(p) == inside = {} /\ inside' = {p}

(* The holder leaves, dies, or gives the key up with the lock file.        *)
Leave == inside' = {}

Next == Leave \/ \E p \in Procs : Enter(p)

Spec == Init /\ [][Next]_inside
=============================================================================
