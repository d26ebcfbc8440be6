-------------------------- MODULE MCLanguageServers --------------------------
(* A small instance of LanguageServers: two threads in the manager.          *)
EXTENDS LanguageServers

SomeCallers == {"a", "b"}
=============================================================================
