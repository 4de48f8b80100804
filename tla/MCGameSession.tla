---------------------------- MODULE MCGameSession ----------------------------
(* Model checking of GameSession: one client, two play servers.            *)
EXTENDS GameSession

CONSTANTS service, a1, s1, s2
=============================================================================
