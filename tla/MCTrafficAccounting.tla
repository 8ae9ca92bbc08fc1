------------------------ MODULE MCTrafficAccounting -------------------------
(***************************************************************************)
(* The instance of TrafficAccounting that TLC checks.                      *)
(***************************************************************************)
EXTENDS TrafficAccounting

CONSTANTS c1, c2, i1, i2

\* All distributions of two bytes over a client with a row and a stranger (a
\* client that was deleted while Xray still knew it).
MCLoads == {b \in [Key -> 0..2] : Total(b, c1) + Total(b, c2) <= 2}

\* The client may use both inbounds of the node.
MCAccess == [c \in {c1} |-> {i1, i2}]
=============================================================================
