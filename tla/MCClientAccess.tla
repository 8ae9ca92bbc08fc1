--------------------------- MODULE MCClientAccess ---------------------------
(* Two clients, two inbounds on two nodes, two requests of any kind.       *)
EXTENDS ClientAccess, TLC

CONSTANTS c1, c2, t1, t2, r1, r2

\* Clients, inbounds and requests are alike.
Symmetry == Permutations(Client) \cup Permutations(Tag) \cup Permutations(Request)
=============================================================================
