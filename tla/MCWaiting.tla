------------------------------ MODULE MCWaiting ------------------------------
(* One caller: callers share no cursor, and of what another sees change the *)
(* marker alone, which submitters and kernels change as well.              *)
EXTENDS Waiting

CONSTANT w1
=============================================================================
