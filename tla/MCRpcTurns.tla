------------------------------ MODULE MCRpcTurns ------------------------------
\* Instances of RpcTurns for TLC.
EXTENDS RpcTurns
===============================================================================
