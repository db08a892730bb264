---------------------------- MODULE MCHandshake ----------------------------
(***************************************************************************)
(* Instances of Handshake for TLC: the dials belong to p, the upgrades to  *)
(* q, and r is a relay.                                                    *)
(***************************************************************************)
EXTENDS Handshake

CONSTANTS p, q, r

OwnerOf == [e \in Ends |-> IF e \in Dials THEN p ELSE q]

HostPort(ip, port) == <<Proto("Ip4", ip), Proto("Udp", port)>>

XWebRTC(n) == Proto("XWebRTC", [of |-> n, form |-> "bytes"])

P2p(n) == Proto("P2p", n)

(***************************************************************************)
(* The address of q, with and without its peer id; the address of r, under *)
(* r's peer id and under that of q; addresses that cannot be dialed.       *)
(***************************************************************************)
GoodAddrs ==
  LET host == HostPort("host", 1) IN
  {host \o <<XWebRTC(q), P2p(q)>>, host \o <<XWebRTC(q)>>,
   host \o <<XWebRTC(r), P2p(r)>>, host \o <<XWebRTC(r), P2p(q)>>}

BadAddrs ==
  {HostPort("host", 1), HostPort("host", 0) \o <<XWebRTC(q), P2p(q)>>,
   HostPort(Unspecified, 1) \o <<XWebRTC(q), P2p(q)>>,
   HostPort("host", 1) \o <<XWebRTC(q), Proto("Tcp", 1)>>}

DialAddrs == GoodAddrs \cup BadAddrs
=============================================================================
