----------------------------- MODULE MCPathLocks -----------------------------
(***************************************************************************)
(* The lock table for TLC: enough operations for one to lock, one to wait  *)
(* and one to come while the entry is being given up.                      *)
(***************************************************************************)
EXTENDS PathLocks
=============================================================================
