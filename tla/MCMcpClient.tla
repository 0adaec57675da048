----------------------------- MODULE MCMcpClient -----------------------------
(* McpClient on small instances; the cfg files give the constants.         *)
EXTENDS McpClient
=============================================================================
