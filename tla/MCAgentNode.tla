---------------------------- MODULE MCAgentNode ----------------------------
(* A node with a VMess user, whom the API can add, and a Trojan user, whom *)
(* only a restart can.                                                     *)
EXTENDS AgentNode

CONSTANTS s1, s2, vmess, trojan

MCProtocol == [u \in User |-> IF u = vmess THEN "vmess" ELSE "trojan"]
=============================================================================
