---------------------------- MODULE MCLifecycle ----------------------------
(* Lifecycle with two callers. *)
EXTENDS Lifecycle

CONSTANTS p1, p2
=============================================================================
