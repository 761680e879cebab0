-------------------------- MODULE MCChatDispatcher --------------------------
(***************************************************************************)
(* Small instances of ChatDispatcher.  Keys are assigned to calls in every *)
(* possible way by Init.                                                   *)
(***************************************************************************)
EXTENDS ChatDispatcher
=============================================================================
