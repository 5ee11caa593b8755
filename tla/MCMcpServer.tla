----------------------------- MODULE MCMcpServer -----------------------------
(* An instance of McpServer for TLC. *)
EXTENDS McpServer
=============================================================================
