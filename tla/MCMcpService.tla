---------------------------- MODULE MCMcpService ----------------------------
(***************************************************************************)
(* Small instances of McpService.                                          *)
(***************************************************************************)
EXTENDS McpService
=============================================================================
