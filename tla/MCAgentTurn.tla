------------------------------ MODULE MCAgentTurn ------------------------------
(***************************************************************************)
(* Small instances of AgentTurn: the scopes the .cfg files choose from.    *)
(***************************************************************************)
EXTENDS AgentTurn

\* Two messages and one event, or one message and two; with the mod and without.
Both == [mod : BOOLEAN, tasks : {2}, events : {1}] \cup [mod : BOOLEAN, tasks : {1}, events : {2}]
=============================================================================
