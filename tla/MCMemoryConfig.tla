---------------------------- MODULE MCMemoryConfig ----------------------------
(***************************************************************************)
(* Small instances of ModelRegistry and MemoryConfig, composed.  Nothing   *)
(* tells the providers apart.                                              *)
(***************************************************************************)
EXTENDS MemoryConfig, TLC

Symmetry == Permutations(Providers)
=============================================================================
