----------------------------- MODULE MCFileLock -----------------------------
(***************************************************************************)
(* Two lockers and a collector on one key, whose lock file is unlinked and *)
(* made anew.                                                              *)
(***************************************************************************)
EXTENDS FileLock
=============================================================================
