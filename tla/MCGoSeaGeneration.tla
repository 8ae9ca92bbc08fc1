-------------------------- MODULE MCGoSeaGeneration --------------------------
(* Two requests on two nodes, and a deletion, for all kinds of proxies.    *)
EXTENDS GoSeaGeneration, TLC

CONSTANTS a, b, e1, e2, r1, r2, d1

\* Which request, egress or node is which makes no difference.
Symmetry == Permutations(Node) \cup Permutations(Egress) \cup Permutations(Request)
=============================================================================
