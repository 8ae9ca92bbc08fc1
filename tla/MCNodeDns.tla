------------------------------ MODULE MCNodeDns ------------------------------
(* Two nodes whose names may be alike, and two names of which the second   *)
(* has a dot and the first for its first label; Cloudflare, and Aliyun,    *)
(* which cuts names and searches by keyword; three requests.               *)
EXTENDS NodeDns, TLC

CONSTANTS n1, n2, d1, d2, p1, p2, r1, r2, r3

MCFirst == [d \in Name |-> d1]

\* Nodes and requests are alike.
Symmetry == Permutations(Node) \cup Permutations(Request)
=============================================================================
