------------------------------ MODULE Tenancy ------------------------------
(***************************************************************************)
(* What the lifecycle of kernels promises a key (src/src/ptc/kernel.py,    *)
(* runtime/bootstrap.py): one kernel at a time, which its own watchdog     *)
(* never ends while a cell is in flight in it.                             *)
(***************************************************************************)
CONSTANT Kernels

VARIABLES
  standing,   \* the kernel that runs under the key, if any
  busy,       \* is it, if a cell is in flight in it
  leaving     \* is it, if its watchdog has bound itself to end it

tvars == <<standing, busy, leaving>>

Init == standing = {} /\ busy = {} /\ leaving = {}

Start(k) ==
  /\ standing = {}
  /\ standing' = {k}
  /\ UNCHANGED <<busy, leaving>>

CellStarts(k) ==
  /\ k \in standing \ (busy \cup leaving)
  /\ busy' = {k}
  /\ UNCHANGED <<standing, leaving>>

CellEnds(k) ==
  /\ k \in busy
  /\ busy' = {}
  /\ UNCHANGED <<standing, leaving>>

(* From here on no cell starts, unless the watchdog thinks better of it.   *)
Expiry(k) ==
  /\ k \in standing \ busy
  /\ leaving' = {k}
  /\ UNCHANGED <<standing, busy>>

Balk == leaving' = {} /\ UNCHANGED <<standing, busy>>

(* Killed, crashed, expired, or lost sight of.                             *)
End == standing' = {} /\ busy' = {} /\ leaving' = {}

Next ==
  \/ End \/ Balk
  \/ \E k \in Kernels : Start(k) \/ CellStarts(k) \/ CellEnds(k) \/ Expiry(k)

Spec == Init /\ [][Next]_tvars
=============================================================================
