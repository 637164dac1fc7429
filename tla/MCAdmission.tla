----------------------------- MODULE MCAdmission -----------------------------
(***************************************************************************)
(* Admission with two or three clients, who are interchangeable where all  *)
(* or none of them probe.                                                  *)
(***************************************************************************)
EXTENDS Admission, TLC

Alike == Permutations(Clients)
=============================================================================
