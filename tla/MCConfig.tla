------------------------------ MODULE MCConfig ------------------------------
(***************************************************************************)
(* The configuration of a node as TLC checks it: how its versions reach    *)
(* the agent, and what is in one.  ConfigDelivery abstracts to a version   *)
(* what XrayConfig says, and neither reads the other's state: a behaviour  *)
(* is one of the one or of the other.                                      *)
(***************************************************************************)
EXTENDS ConfigDelivery, XrayConfig

VARIABLE part   \* which of the two moves

ConfigInit ==
    /\ Init /\ XrayInit /\ part \in {"delivery", "content"}
    /\ part = "delivery" => dto = Plain

ConfigNext ==
    \/ part = "delivery" /\ Next /\ UNCHANGED <<xrayVars, part>>
    \/ part = "content" /\ XrayNext /\ UNCHANGED <<vars, part>>

ConfigSpec == ConfigInit /\ [][ConfigNext]_<<vars, xrayVars, part>> /\ Fairness
=============================================================================
