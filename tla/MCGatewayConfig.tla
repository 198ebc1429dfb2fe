-------------------------- MODULE MCGatewayConfig --------------------------
(* Values of the constants of GatewayConfig for TLC.                       *)
EXTENDS GatewayConfig

(* Two networks that the softAP may want, and one that shares no more than *)
(* its third octet with the first.                                         *)
MCNetworks == [prefix : {Lan}, segment : {4, 5}]
              \cup {[prefix |-> "10.0", segment |-> 4]}
=============================================================================
