------------------------- MODULE MCActivityReporter -------------------------
(***************************************************************************)
(* Small instances of ActivityReporter.                                    *)
(***************************************************************************)
EXTENDS ActivityReporter
=============================================================================
