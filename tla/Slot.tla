-------------------------------- MODULE Slot --------------------------------
(***************************************************************************)
(* What exec_cell promises about one kernel (F2, src/src/ptc/client.py):   *)
(* a kernel has one slot.  A request occupies it from the moment it is     *)
(* sent until its cell settles or its kernel goes away, and no request is  *)
(* ever placed behind another.                                             *)
(***************************************************************************)
CONSTANT Requests

VARIABLES slot,     \* the requests the kernel holds and has not settled
          settled   \* the requests whose cell reached a terminal record

svars == <<slot, settled>>

Init == slot = {} /\ settled = {}

(* A request is placed in an empty slot, once.                             *)
Place(r) ==
  /\ slot = {}
  /\ r \notin settled
  /\ slot' = {r}
  /\ UNCHANGED settled

(* Its cell ends.                                                          *)
Settle(r) ==
  /\ r \in slot
  /\ slot' = slot \ {r}
  /\ settled' = settled \cup {r}

(* The kernel goes away with whatever it held.                             *)
EpochEnds == slot' = {} /\ UNCHANGED settled

Next == EpochEnds \/ \E r \in Requests : Place(r) \/ Settle(r)

Spec == Init /\ [][Next]_svars
=============================================================================
