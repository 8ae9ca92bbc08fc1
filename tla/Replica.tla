------------------------------ MODULE Replica -------------------------------
(***************************************************************************)
(* What configuration delivery promises: the copy a node holds only ever   *)
(* catches up with the source, part by part; it never goes back to an      *)
(* older version of a part, unless the node forgets the whole copy.        *)
(***************************************************************************)
EXTENDS Naturals

CONSTANT Part       \* the parts of a configuration; a version is a number

VARIABLES source, copy

vars == <<source, copy>>

Blank == [p \in Part |-> 0]

Init == /\ source \in [Part -> Nat]
        /\ copy = Blank

Publish == /\ source' \in [Part -> Nat]
           /\ \A p \in Part : source'[p] >= source[p]
           /\ UNCHANGED copy

CatchUp == /\ copy' \in [Part -> Nat]
           /\ \A p \in Part : copy[p] <= copy'[p] /\ copy'[p] <= source[p]
           /\ UNCHANGED source

Forget == copy' = Blank /\ UNCHANGED source

Next == Publish \/ CatchUp \/ Forget

Spec == Init /\ [][Next]_vars
=============================================================================
