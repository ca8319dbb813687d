---------------------------- MODULE MCMcpSession ----------------------------
(***************************************************************************)
(* McpSession for TLC.                                                     *)
(***************************************************************************)
EXTENDS McpSession, TLC
=============================================================================
