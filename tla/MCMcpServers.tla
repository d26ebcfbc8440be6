---------------------------- MODULE MCMcpServers ----------------------------
(* A small instance of McpServers: one server name, remote in the user's    *)
(* file; the project file, when trusted, makes it a local one.              *)
EXTENDS McpServers

MCGlobal == [s |-> [url |-> TRUE]]
MCProject == [s |-> [command |-> TRUE]]
=============================================================================
