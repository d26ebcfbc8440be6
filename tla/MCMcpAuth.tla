------------------------------ MODULE MCMcpAuth ------------------------------
(* A small instance of McpAuth: two servers and two tool calls at a time.    *)
EXTENDS McpAuth

SomeServers == {"s", "t"}
SomeCalls == {"c1", "c2"}
=============================================================================
