--------------------------- MODULE MCProvidedTools ---------------------------
(***************************************************************************)
(* Small instances of ProvidedTools: two chats with tools of their own in  *)
(* every distribution.                                                     *)
(***************************************************************************)
EXTENDS ProvidedTools
=============================================================================
