--------------------------- MODULE MCConsolidation ---------------------------
(***************************************************************************)
(* Small instances of Consolidation.                                       *)
(***************************************************************************)
EXTENDS Consolidation
=============================================================================
