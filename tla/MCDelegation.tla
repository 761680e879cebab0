----------------------------- MODULE MCDelegation -----------------------------
(***************************************************************************)
(* Small instances of Delegation.                                          *)
(***************************************************************************)
EXTENDS Delegation
=============================================================================
