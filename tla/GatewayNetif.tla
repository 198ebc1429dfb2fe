--------------------------- MODULE GatewayNetif ----------------------------
(***************************************************************************)
(* The network interfaces of the gateway (gateway_common.c): the list      *)
(* gateway_link, the choice of a segment for an interface with a DHCP      *)
(* server, and the resolution of a conflict with the router's network.     *)
(*                                                                         *)
(* An address is its /24 network: the first two octets, prefix, and the    *)
(* third octet, segment.  The gateway hands out 192.168.n.1.  The program  *)
(* creates one softAP, which has the DHCP server, and one station, which   *)
(* gets its address from a router.                                         *)
(***************************************************************************)
EXTENDS Naturals, Sequences, SequencesExt

CONSTANTS
    FirstSegment, LastSegment, \* the segments a request tries: 4 and 254
    Networks                   \* the networks routers give addresses in

Lan == "192.168"
NoAddress == [prefix |-> "0.0", segment |-> 0]
Segments == FirstSegment..LastSegment
Own == [prefix : {Lan}, segment : Segments]

ASSUME SegmentsAssumption ==
    FirstSegment \in Nat \ {0} /\ LastSegment \in Nat /\ FirstSegment < LastSegment
ASSUME NetworksAssumption == Networks \subseteq [prefix : STRING, segment : Nat]

Netifs == {"softap", "station"}
Dhcps == {"softap"}  \* DHCPS_NETIF_ID

VARIABLES
    gateway_link, \* the interfaces in the list, oldest first
    ip            \* ip[n]: the network of interface n

netifVars == <<gateway_link, ip>>

NetifInit == gateway_link = <<>> /\ ip = [n \in Netifs |-> NoAddress]

(* esp_gateway_netif_list_add; an interface in the list is not added again.*)
ListAdd(n) ==
    gateway_link' = IF n \in ToSet(gateway_link) THEN gateway_link
                    ELSE Append(gateway_link, n)

(* esp_gateway_netif_network_segment_is_used compares the third octet only.*)
SegmentIsUsed(s) == \E n \in ToSet(gateway_link) : ip[n].segment = s

Free == {s \in Segments : ~SegmentIsUsed(s)}

(* esp_gateway_netif_request_ip: the lowest free segment.                  *)
RequestIp ==
    [prefix |-> Lan, segment |-> CHOOSE s \in Free : \A t \in Free : s <= t]

(* Mutant: networks are compared by their third octet.                     *)
SameNetworkByThird(a, b) == a.segment = b.segment

(* ip4_addr_netcmp under 255.255.255.0                                     *)
SameNetwork(a, b) == a = b

(* The place in the list of the first other interface with a DHCP server   *)
(* and the network of n; 0 if there is none.                               *)
FirstConflict(n) ==
    SelectInSeq(gateway_link,
                LAMBDA p : p \in Dhcps \ {n} /\ SameNetwork(ip[p], ip[n]))

(* Mutant: a conflict is resolved once.                                    *)
ConflictUpdateOnce(n) ==
    LET p == FirstConflict(n)
    IN ip' = IF p = 0 \/ Free = {} \/ ip["softap"].segment # FirstSegment THEN ip
             ELSE [ip EXCEPT ![gateway_link[p]] = RequestIp]

(* esp_gateway_netif_network_segment_conflict_update(n): that interface    *)
(* moves to a free segment.  Without a free one, nothing moves, and the    *)
(* result is ESP_OK all the same.                                          *)
ConflictUpdate(n) ==
    LET p == FirstConflict(n)
    IN ip' = IF p = 0 \/ Free = {} THEN ip
             ELSE [ip EXCEPT ![gateway_link[p]] = RequestIp]
=============================================================================
