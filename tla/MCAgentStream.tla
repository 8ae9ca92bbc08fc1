--------------------------- MODULE MCAgentStream ---------------------------
(* Two streams of a node one after the other, and one rollback by hand.    *)
EXTENDS AgentStream

CONSTANTS s1, s2, m1
=============================================================================
