----------------------------- MODULE Handshake -----------------------------
(***************************************************************************)
(* How a connection comes about: WebRTCDirectTransport::do_dial of         *)
(* src/transport.rs against upgrade::webrtc of src/upgrade.rs.  Both set   *)
(* up a peer connection from a session description that they render        *)
(* themselves, wait up to ten seconds for the first data channel, run a    *)
(* noise handshake over it, exchange certificate fingerprints over noise   *)
(* and hand the peer connection to Connection::new.                        *)
(*                                                                         *)
(* ICE, DTLS, SCTP and noise are library code, modelled from their use.  A *)
(* DTLS session ends at whoever has the certificate that the description   *)
(* names; that may be a node in between, which forwards what it receives   *)
(* on one session to another.                                              *)
(***************************************************************************)
EXTENDS Naturals, Sequences

CONSTANTS
  Dials,      \* futures of do_dial
  Upgrades,   \* futures of upgrade::webrtc
  Peers,      \* the nodes that run this code
  Relays,     \* the nodes in between
  Owner,      \* the node a future belongs to
  Addrs,      \* the multiaddrs to dial
  Unspecified, None

Ends  == Dials \cup Upgrades
Nodes == Peers \cup Relays

(***************************************************************************)
(* A multiaddr is a sequence of protocols.  A certificate, its fingerprint *)
(* and a peer id are named by the node they belong to; a fingerprint is    *)
(* also the form it is written in: bytes, "12:34" or "1234".               *)
(***************************************************************************)
Fingerprints == [of : Nodes, form : {"bytes", "colons", "bare"}]

Descriptions == [setup : {"actpass", "passive"}, fingerprint : Fingerprints,
                 ufrag : Fingerprints]

ASSUME HandshakeAssumption ==
  /\ Dials \cap Upgrades = {}
  /\ Ends \cap Nodes = {} /\ Peers \cap Relays = {}
  /\ Owner \in [Ends -> Peers]
  /\ \A a \in Addrs :
       /\ Len(a) \in Nat /\ DOMAIN a = 1..Len(a)
       /\ \A i \in 1..Len(a) : a[i].proto = "XWebRTC" => a[i].val \in Fingerprints
  /\ None \notin Ends \cup Nodes \cup Fingerprints \cup Descriptions

VARIABLES
  pc,        \* where the future is
  addr,      \* the multiaddr it was given
  remote,    \* its remote description
  link,      \* the other end of its DTLS session: an end, or a relay
  channel,   \* the first data channel: "none", "created", "detached", "lost"
  noise,     \* who its noise session is with
  sent,      \* the fingerprint it has written
  first,     \* the first substream it opens on the Connection
  broken     \* the ends whose session is cut off

vars == <<pc, addr, remote, link, channel, noise, sent, first, broken>>

Busy  == {"noise", "write", "read"}
Ended == {"established", "failed"}

TypeOK ==
  /\ pc \in [Ends -> {"idle", "create", "wait"} \cup Busy \cup Ended]
  /\ remote \in [Ends -> Descriptions \cup {None}]
  /\ link \in [Ends -> Ends \cup Relays \cup {None}]
  /\ channel \in [Ends -> {"none", "created", "detached", "lost"}]
  /\ noise \in [Ends -> Ends \cup Relays \cup {None}]
  /\ sent \in [Ends -> Fingerprints \cup {None}]
  /\ first \in [Ends -> {"none", "sent", "handled", "refused", "lost"}]
  /\ broken \subseteq Ends

Init ==
  /\ pc = [e \in Ends |-> "idle"]
  /\ addr = [e \in Ends |-> <<>>]
  /\ remote = [e \in Ends |-> None]
  /\ link = [e \in Ends |-> None]
  /\ channel = [e \in Ends |-> "none"]
  /\ noise = [e \in Ends |-> None]
  /\ sent = [e \in Ends |-> None]
  /\ first = [e \in Ends |-> "none"]
  /\ broken = {}

-----------------------------------------------------------------------------
(* Addresses, fingerprints and descriptions.                               *)

Proto(p, v) == [proto |-> p, val |-> v]

multiaddr_to_socketaddr(a) ==
  IF /\ Len(a) >= 3
     /\ a[1].proto \in {"Ip4", "Ip6"} /\ a[2].proto = "Udp"
     /\ a[3].proto = "XWebRTC"
     /\ \A i \in 4..Len(a) : a[i].proto = "P2p"
  THEN [ip |-> a[1].val, port |-> a[2].val]
  ELSE None

(* The first XWebRTC of a multiaddr that has one.                          *)
fingerprint_from_addr(a) ==
  LET i == CHOOSE i \in DOMAIN a : /\ a[i].proto = "XWebRTC"
                                   /\ \A j \in 1..(i - 1) : a[j].proto # "XWebRTC"
  IN a[i].val

(* PeerId::try_from_multiaddr: the id in a P2p that ends the multiaddr.    *)
try_from_multiaddr(a) == IF a[Len(a)].proto = "P2p" THEN a[Len(a)].val ELSE None

fingerprint_to_string(f) == [of |-> f.of, form |-> "colons"]

hex_to_cow(f) == [of |-> f.of, form |-> "bytes"]

WithoutColons(f) == [of |-> f.of, form |-> "bare"]

fingerprint_of_first_certificate(n) == [of |-> n, form |-> "colons"]

our_fingerprint(e) == fingerprint_of_first_certificate(Owner[e])

(* The templates of sdp.rs differ in their setup attribute.                *)
CLIENT_SESSION_DESCRIPTION == "actpass"
SERVER_SESSION_DESCRIPTION == "passive"

render_description(template, f) ==
  [setup |-> template, fingerprint |-> f, ufrag |-> WithoutColons(f)]

(* build_setting_engine: the ICE credentials of an end.                    *)
ice_credentials(e) == WithoutColons(our_fingerprint(e))

-----------------------------------------------------------------------------
(* Starting.  The steps before the first data channel may fail in the      *)
(* webrtc crate; ICE runs as soon as the descriptions are set.             *)

Go(e, from, to) == pc[e] = from /\ pc' = [pc EXCEPT ![e] = to]

Starts(e, a, description) ==
  /\ Go(e, "idle", "create")
  /\ addr' = [addr EXCEPT ![e] = a]
  /\ remote' = [remote EXCEPT ![e] = description]
  /\ UNCHANGED <<link, channel, noise, sent, first, broken>>

Dialable(a) ==
  LET s == multiaddr_to_socketaddr(a) IN
  IF s = None THEN FALSE ELSE s.port # 0 /\ s.ip # Unspecified

do_dial(d, a) ==
  /\ Dialable(a)
  /\ Starts(d, a, render_description(SERVER_SESSION_DESCRIPTION,
                    fingerprint_to_string(fingerprint_from_addr(a))))

do_dial_invalid(d, a) ==
  /\ ~Dialable(a)
  /\ Go(d, "idle", "failed")
  /\ UNCHANGED <<addr, remote, link, channel, noise, sent, first, broken>>

(* The address the mux reports for a STUN message with the remote ufrag f. *)
NewAddr(f) == <<Proto("Ip4", "remote"), Proto("Udp", 1),
                Proto("XWebRTC", hex_to_cow(f))>>

webrtc(u, f) ==
  LET a == NewAddr(f) IN
  Starts(u, a, render_description(CLIENT_SESSION_DESCRIPTION,
                                  fingerprint_to_string(a[Len(a)].val)))

webrtc_error(e) ==
  /\ Go(e, "create", "failed")
  /\ UNCHANGED <<addr, remote, link, channel, noise, sent, first, broken>>

create_data_channel(e) ==
  /\ Go(e, "create", "wait")
  /\ channel' = [channel EXCEPT ![e] = "created"]
  /\ UNCHANGED <<addr, remote, link, noise, sent, first, broken>>

-----------------------------------------------------------------------------
(* The network.  set_answering_dtls_role makes an upgrade the DTLS server; *)
(* the answer a dial renders for its remote makes the dial the client.     *)

dtls_role(e) ==
  IF e \in Upgrades \/ remote[e].setup # "passive" THEN "server" ELSE "client"

Connecting(e) == pc[e] \in {"create", "wait"} /\ link[e] = None

Connect(d, u) ==
  /\ Connecting(d) /\ Connecting(u)
  /\ remote[d].ufrag = ice_credentials(u) /\ remote[u].ufrag = ice_credentials(d)
  /\ dtls_role(d) # dtls_role(u)
  /\ remote[d].fingerprint = our_fingerprint(u)
  /\ remote[u].fingerprint = our_fingerprint(d)
  /\ link' = [link EXCEPT ![d] = u, ![u] = d]
  /\ UNCHANGED <<pc, addr, remote, channel, noise, sent, first, broken>>

(* A relay has only its own certificate, and chooses its ufrag.            *)
ConnectRelay(e, r) ==
  /\ Connecting(e)
  /\ remote[e].fingerprint = fingerprint_of_first_certificate(r)
  /\ link' = [link EXCEPT ![e] = r]
  /\ UNCHANGED <<pc, addr, remote, channel, noise, sent, first, broken>>

Break(e) ==
  /\ link[e] # None /\ e \notin broken
  /\ broken' = broken \cup ({e, link[e]} \cap Ends)
  /\ UNCHANGED <<pc, addr, remote, link, channel, noise, sent, first>>

-----------------------------------------------------------------------------
(* Waiting for the data channel: register_data_channel_open_handler, and   *)
(* the select! between its oneshot and the delay.                          *)

OpenHandler(e, outcome) ==
  /\ pc[e] = "wait" /\ channel[e] = "created"
  /\ link[e] # None /\ e \notin broken
  /\ channel' = [channel EXCEPT ![e] = outcome]
  /\ UNCHANGED <<pc, addr, remote, link, noise, sent, first, broken>>

on_open(e) == OpenHandler(e, "detached")

detach_fails(e) == OpenHandler(e, "lost")

rx_ready(e) ==
  /\ channel[e] \in {"detached", "lost"}
  /\ Go(e, "wait", IF channel[e] = "detached" THEN "noise" ELSE "failed")
  /\ UNCHANGED <<addr, remote, link, channel, noise, sent, first, broken>>

(* Wrong: the delay is armed only until the peers are connected.           *)
delay_until_connected(e) ==
  /\ link[e] = None
  /\ Go(e, "wait", "failed")
  /\ UNCHANGED <<addr, remote, link, channel, noise, sent, first, broken>>

(* select! may take the delay although the channel has just been opened.   *)
delay_elapsed(e) ==
  /\ Go(e, "wait", "failed")
  /\ UNCHANGED <<addr, remote, link, channel, noise, sent, first, broken>>

-----------------------------------------------------------------------------
(* Noise.  The dialer sends the last message of the handshake and goes on. *)

Reaches(d, u) == link[d] = u \/ (link[d] \in Relays /\ link[u] = link[d])

upgrade_outbound(d, u) ==
  /\ d \in Dials /\ Reaches(d, u) /\ {d, u} \cap broken = {}
  /\ pc[u] = "noise" /\ noise[d] = None /\ noise[u] = None
  /\ Go(d, "noise", "write")
  /\ noise' = [noise EXCEPT ![d] = u, ![u] = d]
  /\ UNCHANGED <<addr, remote, link, channel, sent, first, broken>>

upgrade_inbound(u) ==
  /\ noise[u] # None
  /\ Go(u, "noise", "write")
  /\ UNCHANGED <<addr, remote, link, channel, noise, sent, first, broken>>

(* A relay may also speak for itself.                                      *)
upgrade_with_relay(e) ==
  /\ link[e] \in Relays /\ noise[e] = None
  /\ Go(e, "noise", "write")
  /\ noise' = [noise EXCEPT ![e] = link[e]]
  /\ UNCHANGED <<addr, remote, link, channel, sent, first, broken>>

-----------------------------------------------------------------------------
(* Exchanging the fingerprints, and Connection::new.                       *)

(* Wrong: writes its certificate instead of the fingerprint.               *)
write_certificate(e) ==
  /\ e \notin broken
  /\ Go(e, "write", "read")
  /\ sent' = [sent EXCEPT ![e] = Owner[e]]
  /\ UNCHANGED <<addr, remote, link, channel, noise, first, broken>>

(* Wrong: answers only once the other fingerprint is there.                *)
write_after_read(e) ==
  /\ e \notin broken
  /\ noise[e] \in Ends => sent[noise[e]] # None
  /\ Go(e, "write", "read")
  /\ sent' = [sent EXCEPT ![e] = our_fingerprint(e)]
  /\ UNCHANGED <<addr, remote, link, channel, noise, first, broken>>

write_fingerprint(e) ==
  /\ e \notin broken
  /\ Go(e, "write", "read")
  /\ sent' = [sent EXCEPT ![e] = our_fingerprint(e)]
  /\ UNCHANGED <<addr, remote, link, channel, noise, first, broken>>

(* What e may read.  A relay forwards noise messages but cannot make them. *)
Arriving(e) ==
  IF noise[e] \in Ends THEN {sent[noise[e]]} \ {None}
                       ELSE {fingerprint_of_first_certificate(n) : n \in Nodes}

NodeOf(x) == IF x \in Ends THEN Owner[x] ELSE x

(* Only the dialer knows which peer id to expect.                          *)
VerifiedId(e) == e \in Dials => try_from_multiaddr(addr[e]) = NodeOf(noise[e])

(* Wrong: trusts the noise handshake and looks at the peer id only.        *)
read_unverified(e, f) ==
  /\ f \in Arriving(e)
  /\ Go(e, "read", IF VerifiedId(e) THEN "established" ELSE "failed")
  /\ UNCHANGED <<addr, remote, link, channel, noise, sent, first, broken>>

(* Wrong: compares what it read with the ufrag.                            *)
read_compares_ufrag(e, f) ==
  /\ f \in Arriving(e)
  /\ Go(e, "read", IF /\ f = IF e \in Upgrades THEN remote[e].ufrag
                                               ELSE remote[e].fingerprint
                      /\ VerifiedId(e)
                   THEN "established" ELSE "failed")
  /\ UNCHANGED <<addr, remote, link, channel, noise, sent, first, broken>>

read_fingerprint(e, f) ==
  /\ f \in Arriving(e)
  /\ Go(e, "read", IF f = remote[e].fingerprint /\ VerifiedId(e)
                   THEN "established" ELSE "failed")
  /\ UNCHANGED <<addr, remote, link, channel, noise, sent, first, broken>>

(* The session is cut off, not forwarded, or given up by the other end.    *)
Silent(e) ==
  e \in broken \/ link[e] \in Relays \/ (link[e] \in Ends /\ pc[link[e]] = "failed")

(* A noise or an I/O error; nothing says how soon it comes.                *)
io_error(e) ==
  /\ Silent(e)
  /\ pc[e] \in Busy
  /\ pc' = [pc EXCEPT ![e] = "failed"]
  /\ UNCHANGED <<addr, remote, link, channel, noise, sent, first, broken>>

-----------------------------------------------------------------------------
(***************************************************************************)
(* The first substream.  The peer connection drops a data channel that     *)
(* arrives before Connection::new has registered a handler.                *)
(***************************************************************************)
open_outbound(e) ==
  /\ pc[e] = "established" /\ first[e] = "none" /\ link[e] \in Ends
  /\ first' = [first EXCEPT ![e] = "sent"]
  /\ UNCHANGED <<pc, addr, remote, link, channel, noise, sent, broken>>

on_data_channel(e) ==
  /\ first[e] = "sent" /\ e \notin broken
  /\ first' = [first EXCEPT ![e] = IF pc[link[e]] = "established" THEN "handled"
                                   ELSE IF pc[link[e]] = "failed" THEN "refused"
                                   ELSE "lost"]
  /\ UNCHANGED <<pc, addr, remote, link, channel, noise, sent, broken>>

-----------------------------------------------------------------------------
Begin ==
  \/ \E d \in Dials, a \in Addrs : do_dial(d, a) \/ do_dial_invalid(d, a)
  \/ \E u \in Upgrades, n \in Nodes :
       webrtc(u, WithoutColons(fingerprint_of_first_certificate(n)))

Network ==
  \/ \E d \in Dials, u \in Upgrades : Connect(d, u)
  \/ \E e \in Ends, r \in Relays : ConnectRelay(e, r)
  \/ \E e \in Ends : Break(e)

SetUp(e) == create_data_channel(e) \/ webrtc_error(e)

(* What a future does by itself once its channel is there.                 *)
Exchange(e) ==
  \/ \E u \in Upgrades : upgrade_outbound(e, u)
  \/ upgrade_inbound(e)
  \/ write_fingerprint(e)
  \/ \E n \in Nodes : read_fingerprint(e, fingerprint_of_first_certificate(n))

Next ==
  \/ Begin
  \/ Network
  \/ \E e \in Ends : \/ SetUp(e)
                     \/ on_open(e) \/ detach_fails(e)
                     \/ rx_ready(e) \/ delay_elapsed(e)
                     \/ Exchange(e)
                     \/ upgrade_with_relay(e) \/ io_error(e)
                     \/ open_outbound(e) \/ on_data_channel(e)

(***************************************************************************)
(* The webrtc crate's calls return and the delay elapses; a future whose   *)
(* session is with another end goes on when it can.  Nothing makes the     *)
(* network connect, a channel open or a relay forward.                     *)
(***************************************************************************)
Fairness ==
  \A e \in Ends : /\ WF_vars(SetUp(e))
                  /\ WF_vars(rx_ready(e) \/ delay_elapsed(e))
                  /\ WF_vars(link[e] \in Ends /\ Exchange(e))

Spec == Init /\ [][Next]_vars /\ Fairness

-----------------------------------------------------------------------------
(***************************************************************************)
(* "Exchange TLS certificate fingerprints to prevent MiM attacks": a       *)
(* connection is established only if the peer that noise authenticated is  *)
(* itself the other end of the DTLS session, although a relay may forward  *)
(* a whole noise handshake.                                                *)
(***************************************************************************)
AuthenticatedEnd ==
  \A e \in Ends : pc[e] = "established" /\ noise[e] \in Ends => link[e] = noise[e]

(***************************************************************************)
(* A future that has begun ends, whether the peers connect or not, the     *)
(* channel opens or not, and one side goes on while the other gives up.    *)
(* Only one that is past the delay, in an exchange without a time limit,   *)
(* may stay: with a relay, a session that is cut off, or an other end that *)
(* has failed.                                                             *)
(***************************************************************************)
FutureEnds ==
  \A e \in Ends :
    pc[e] = "create" ~> pc[e] \in Ended \/ (pc[e] \in Busy /\ Silent(e))

(***************************************************************************)
(* Of two ends that are both in the exchange neither waits for the other:  *)
(* both end, if the session holds, also when one of them refuses the other.*)
(***************************************************************************)
ExchangeEnds ==
  \A d \in Dials, u \in Upgrades :
    link[d] = u /\ {pc[d], pc[u]} \subseteq Busy
      ~> {pc[d], pc[u]} \subseteq Ended \/ d \in broken

(***************************************************************************)
(* When do_dial succeeds the upgrade at the other end succeeds as well, if *)
(* the session holds.  (The converse fails: only do_dial checks a peer id.)*)
(***************************************************************************)
PeerFollows ==
  \A d \in Dials, u \in Upgrades :
    pc[d] = "established" /\ noise[d] = u ~> pc[u] = "established" \/ d \in broken

(***************************************************************************)
(* When do_dial has succeeded nothing but the loss of the session makes    *)
(* the upgrade at the other end fail: it has not given up before and finds *)
(* the fingerprint it expects, although the dialer does not wait for it.   *)
(***************************************************************************)
PeerNotRefused ==
  \A d \in Dials, u \in Upgrades :
    pc[d] = "established" /\ noise[d] = u => pc[u] # "failed" \/ d \in broken

=============================================================================
