------------------------------ MODULE MCE1000 -------------------------------
(* Six packets for rings of three and two descriptors: ARP replies of two  *)
(* addresses, which fill a cache of two before one of them moves, and      *)
(* three requests that are answered, so that the transmit ring wraps to a  *)
(* descriptor whose first send may have timed out.                         *)
EXTENDS E1000

P(kind, ip, mac) == [kind |-> kind, ip |-> ip, mac |-> mac]
MCTraffic == << P("arp_reply", 1, 1), P("arp_reply", 2, 1), P("arp_reply", 2, 2),
                P("arp_request", 1, 2), P("echo_request", 1, 2), P("echo_request", 2, 2) >>
=============================================================================
