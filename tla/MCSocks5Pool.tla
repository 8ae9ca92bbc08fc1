---------------------------- MODULE MCSocks5Pool ----------------------------
(***************************************************************************)
(* The instance of Socks5Pool that TLC checks.                             *)
(***************************************************************************)
EXTENDS Socks5Pool, TLC

CONSTANTS e1, e2, w1, w2, l1, l2, i1, i2, i3, o1

\* A residential proxy, sold once, and one that is sold twice.
MCMaxAllocations == e1 :> 1 @@ e2 :> 2

\* Workers, releases and allocations are interchangeable.
Symmetry == Permutations(Workers) \cup Permutations(Releasers)
              \cup Permutations(Ids)
=============================================================================
