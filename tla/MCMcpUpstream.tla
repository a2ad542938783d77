---------------------------- MODULE MCMcpUpstream ---------------------------
(* An executor thread and a listing of the gateway share a server that     *)
(* is replaced up to twice.                                                *)
EXTENDS McpUpstream
============================================================================
