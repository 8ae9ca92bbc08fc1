------------------------------ MODULE Metering ------------------------------
(***************************************************************************)
(* What the traffic pipeline promises about the per-client statistics,     *)
(* whatever carries the bytes: a byte the proxy core metered is settled in *)
(* the database at most once, or lost; it is never settled twice, and a    *)
(* byte that was lost does not come back.                                  *)
(***************************************************************************)
EXTENDS Naturals

CONSTANT Key        \* what is metered separately: a client and a direction

VARIABLES metered,  \* bytes metered so far
          settled,  \* bytes in the statistics table
          lost      \* bytes that will never get there

vars == <<metered, settled, lost>>

Outstanding(k) == metered[k] - (settled[k] + lost[k])

Init ==
    /\ metered = [k \in Key |-> 0]
    /\ settled = [k \in Key |-> 0]
    /\ lost = [k \in Key |-> 0]

Meter ==
    /\ metered' \in [Key -> Nat]
    /\ \A k \in Key : metered'[k] >= metered[k]
    /\ UNCHANGED <<settled, lost>>

\* Any part of what is outstanding is settled, and any other part of it lost.
Resolve ==
    /\ settled' \in [Key -> Nat]
    /\ lost' \in [Key -> Nat]
    /\ \A k \in Key :
          /\ settled'[k] >= settled[k]
          /\ lost'[k] >= lost[k]
          /\ settled'[k] + lost'[k] <= metered[k]
    /\ UNCHANGED metered

Next == Meter \/ Resolve

Spec == Init /\ [][Next]_vars
=============================================================================
