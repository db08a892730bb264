-------------------------- MODULE HandshakeProofs --------------------------
(***************************************************************************)
(* Proofs about Handshake, for any number of nodes, dials and upgrades.    *)
(***************************************************************************)
EXTENDS Handshake, TLAPS

(***************************************************************************)
(* Fingerprints.  The two ends of a conversion are fingerprints, and the   *)
(* address of a dial yields one.                                           *)
(***************************************************************************)
LEMMA Conversions ==
  ASSUME NEW f \in Fingerprints
  PROVE  /\ fingerprint_to_string(f) \in Fingerprints
         /\ hex_to_cow(f) \in Fingerprints
         /\ WithoutColons(f) \in Fingerprints
BY DEF Fingerprints, fingerprint_to_string, hex_to_cow, WithoutColons

(* The fingerprint of a node's certificate names that node.                *)
LEMMA CertificateFingerprint ==
  /\ \A n \in Nodes : fingerprint_of_first_certificate(n) \in Fingerprints
  /\ \A m, n : fingerprint_of_first_certificate(m) = fingerprint_of_first_certificate(n)
                 => m = n
BY DEF Fingerprints, fingerprint_of_first_certificate

(* What render_description makes of a fingerprint is a description.        *)
LEMMA Rendered ==
  ASSUME NEW f \in Fingerprints, NEW t \in {"actpass", "passive"}
  PROVE  render_description(t, f) \in Descriptions
BY Conversions DEF render_description, Descriptions

(* A multiaddr that can be dialed carries a fingerprint.                   *)
LEMMA DialableFingerprint ==
  ASSUME NEW a \in Addrs, Dialable(a)
  PROVE  fingerprint_from_addr(a) \in Fingerprints
<1> DEFINE First(i) == /\ a[i].proto = "XWebRTC"
                       /\ \A j \in 1..(i - 1) : a[j].proto # "XWebRTC"
<1>1. multiaddr_to_socketaddr(a) # None
  BY DEF Dialable
<1>2. /\ Len(a) >= 3 /\ a[1].proto \in {"Ip4", "Ip6"} /\ a[2].proto = "Udp"
      /\ a[3].proto = "XWebRTC"
  BY <1>1 DEF multiaddr_to_socketaddr
<1>3. Len(a) \in Nat /\ DOMAIN a = 1..Len(a)
  BY HandshakeAssumption
<1>4. 3 \in DOMAIN a /\ First(3)
  BY <1>2, <1>3
<1>5. PICK i \in DOMAIN a : First(i) /\ fingerprint_from_addr(a) = a[i].val
  <2> HIDE DEF First
  <2>1. fingerprint_from_addr(a) = a[CHOOSE i \in DOMAIN a : First(i)].val
    BY DEF fingerprint_from_addr, First
  <2> QED  BY <1>4, <2>1
<1> QED  BY <1>3, <1>5, HandshakeAssumption

-----------------------------------------------------------------------------
(* The initial state has its types.                                        *)
LEMMA InitTypeOK == Init => TypeOK
BY DEF Init, TypeOK, Busy, Ended

(* Every step of a future and of the network keeps the types.              *)
LEMMA NextTypeOK == TypeOK /\ [Next]_vars => TypeOK'
<1> SUFFICES ASSUME TypeOK, [Next]_vars PROVE TypeOK'
  OBVIOUS
<1> USE DEF TypeOK, Busy, Ended, Go
<1>1. ASSUME NEW d \in Dials, NEW a \in Addrs, do_dial(d, a) PROVE TypeOK'
  <2>1. render_description(SERVER_SESSION_DESCRIPTION,
          fingerprint_to_string(fingerprint_from_addr(a))) \in Descriptions
    BY <1>1, DialableFingerprint, Conversions, Rendered
       DEF do_dial, SERVER_SESSION_DESCRIPTION
  <2> QED  BY <1>1, <2>1 DEF do_dial, Starts, Ends
<1>2. ASSUME NEW d \in Dials, NEW a \in Addrs, do_dial_invalid(d, a) PROVE TypeOK'
  BY <1>2 DEF do_dial_invalid, Ends
<1>3. ASSUME NEW u \in Upgrades, NEW n \in Nodes,
             webrtc(u, WithoutColons(fingerprint_of_first_certificate(n)))
      PROVE  TypeOK'
  <2> DEFINE a == NewAddr(WithoutColons(fingerprint_of_first_certificate(n)))
  <2>1. Len(a) = 3 /\ a[3].val \in Fingerprints
    BY CertificateFingerprint, Conversions DEF NewAddr, Proto
  <2> HIDE DEF a
  <2>2. render_description(CLIENT_SESSION_DESCRIPTION,
                           fingerprint_to_string(a[Len(a)].val)) \in Descriptions
    BY <2>1, Conversions, Rendered DEF CLIENT_SESSION_DESCRIPTION
  <2> QED  BY <1>3, <2>2 DEF webrtc, Starts, a, Ends
<1>4. ASSUME NEW d \in Dials, NEW u \in Upgrades, Connect(d, u) PROVE TypeOK'
  BY <1>4 DEF Connect, Ends
<1>5. ASSUME NEW e \in Ends, NEW r \in Relays, ConnectRelay(e, r) PROVE TypeOK'
  BY <1>5 DEF ConnectRelay
<1>6. ASSUME NEW e \in Ends, Break(e) PROVE TypeOK'
  BY <1>6 DEF Break
<1>7. ASSUME NEW e \in Ends, SetUp(e) PROVE TypeOK'
  BY <1>7 DEF SetUp, create_data_channel, webrtc_error
<1>8. ASSUME NEW e \in Ends, on_open(e) \/ detach_fails(e) PROVE TypeOK'
  BY <1>8 DEF on_open, detach_fails, OpenHandler
<1>9. ASSUME NEW e \in Ends, rx_ready(e) \/ delay_elapsed(e) PROVE TypeOK'
  BY <1>9 DEF rx_ready, delay_elapsed
<1>10. ASSUME NEW e \in Ends, Exchange(e) PROVE TypeOK'
  <2>1. ASSUME NEW u \in Upgrades, upgrade_outbound(e, u) PROVE TypeOK'
    BY <2>1 DEF upgrade_outbound, Ends
  <2>2. CASE upgrade_inbound(e)
    BY <2>2 DEF upgrade_inbound
  <2>3. CASE write_fingerprint(e)
    <3>1. our_fingerprint(e) \in Fingerprints
      BY CertificateFingerprint, HandshakeAssumption DEF our_fingerprint, Nodes
    <3> QED  BY <2>3, <3>1 DEF write_fingerprint
  <2>4. ASSUME NEW f, read_fingerprint(e, f) PROVE TypeOK'
    BY <2>4 DEF read_fingerprint
  <2> QED  BY <1>10, <2>1, <2>2, <2>3, <2>4 DEF Exchange
<1>11. ASSUME NEW e \in Ends, upgrade_with_relay(e) PROVE TypeOK'
  BY <1>11 DEF upgrade_with_relay
<1>12. ASSUME NEW e \in Ends, io_error(e) PROVE TypeOK'
  BY <1>12 DEF io_error
<1>13. ASSUME NEW e \in Ends, open_outbound(e) \/ on_data_channel(e) PROVE TypeOK'
  BY <1>13 DEF open_outbound, on_data_channel
<1>14. CASE UNCHANGED vars
  BY <1>14 DEF vars
<1> QED
  BY <1>1, <1>2, <1>3, <1>4, <1>5, <1>6, <1>7, <1>8, <1>9, <1>10, <1>11, <1>12,
     <1>13, <1>14 DEF Next, Begin, Network

(* TypeOK is an invariant of the handshake, for any nodes and addresses.   *)
THEOREM TypeCorrect == Spec => []TypeOK
BY InitTypeOK, NextTypeOK, PTL DEF Spec

-----------------------------------------------------------------------------
(***************************************************************************)
(* Authentication.  A session ends where the fingerprint of the            *)
(* description says, and only a future that has started has one.           *)
(***************************************************************************)
CertifiedLink ==
  \A e \in Ends :
    /\ pc[e] = "idle" => link[e] = None
    /\ link[e] \in Ends => link[link[e]] = e
    /\ link[e] \in Relays =>
         remote[e].fingerprint = fingerprint_of_first_certificate(link[e])

(* Noise runs over the DTLS session: directly, or forwarded by a relay.    *)
NoiseOverLink ==
  \A e \in Ends : noise[e] \in Ends => link[e] = noise[e] \/ link[e] \in Relays

(* An end writes no other fingerprint than its own.                        *)
SentOwn == \A e \in Ends : sent[e] \in {None, our_fingerprint(e)}

(* An end that has succeeded has read the fingerprint its description has. *)
ReadExpected ==
  \A e \in Ends : pc[e] = "established" /\ noise[e] \in Ends
                    => remote[e].fingerprint = our_fingerprint(noise[e])

AuthInv == CertifiedLink /\ NoiseOverLink /\ SentOwn /\ ReadExpected

(* Nothing is connected, authenticated or sent to begin with.              *)
LEMMA InitAuthInv == Init => AuthInv
BY HandshakeAssumption
   DEF Init, AuthInv, CertifiedLink, NoiseOverLink, SentOwn, ReadExpected, Ends, Nodes

(***************************************************************************)
(* A step that moves a future on without touching its description, its     *)
(* session or noise, and does not make it succeed, keeps the invariant.    *)
(***************************************************************************)
LEMMA QuietStep ==
  ASSUME AuthInv, UNCHANGED <<remote, link, noise, sent>>,
         \A e \in Ends : /\ pc'[e] = "idle" => pc[e] = "idle"
                         /\ pc'[e] = "established" => pc[e] = "established"
  PROVE  AuthInv'
BY DEF AuthInv, CertifiedLink, NoiseOverLink, SentOwn, ReadExpected, our_fingerprint

(* Every step keeps the invariant.                                         *)
LEMMA NextAuthInv == TypeOK /\ AuthInv /\ [Next]_vars => AuthInv'
<1> SUFFICES ASSUME TypeOK, AuthInv, [Next]_vars PROVE AuthInv'
  OBVIOUS
<1> USE HandshakeAssumption DEF Go
<1>1. ASSUME NEW e \in Ends, NEW a, NEW description, Starts(e, a, description)
      PROVE  AuthInv'
  BY <1>1 DEF Starts, TypeOK, AuthInv, CertifiedLink, NoiseOverLink, SentOwn,
              ReadExpected, our_fingerprint, Nodes
<1>2. ASSUME NEW d \in Dials, NEW a \in Addrs, do_dial(d, a) \/ do_dial_invalid(d, a)
      PROVE  AuthInv'
  <2>1. CASE do_dial(d, a)
    BY <1>1, <2>1 DEF do_dial, Ends
  <2>2. CASE do_dial_invalid(d, a)
    BY <2>2, QuietStep DEF do_dial_invalid, TypeOK, Ends
  <2> QED  BY <1>2, <2>1, <2>2
<1>3. ASSUME NEW u \in Upgrades, NEW f, webrtc(u, f) PROVE AuthInv'
  BY <1>1, <1>3 DEF webrtc, Ends
<1>4. ASSUME NEW d \in Dials, NEW u \in Upgrades, Connect(d, u) PROVE AuthInv'
  <2>1. d # u /\ d \in Ends /\ u \in Ends /\ link[d] = None /\ link[u] = None
    BY <1>4 DEF Connect, Connecting, Ends
  <2>2. CertifiedLink'
    BY <1>4, <2>1 DEF Connect, Connecting, TypeOK, AuthInv, CertifiedLink, Ends, Nodes
  <2>3. NoiseOverLink'
    <3>1. noise[d] \notin Ends /\ noise[u] \notin Ends
      BY <2>1 DEF AuthInv, NoiseOverLink, Nodes
    <3>2. noise' = noise /\ link' = [link EXCEPT ![d] = u, ![u] = d]
      BY <1>4 DEF Connect
    <3> QED  BY <2>1, <3>1, <3>2 DEF TypeOK, AuthInv, NoiseOverLink
  <2>4. SentOwn' /\ ReadExpected'
    BY <1>4 DEF Connect, AuthInv, SentOwn, ReadExpected, our_fingerprint
  <2> QED  BY <2>2, <2>3, <2>4 DEF AuthInv
<1>5. ASSUME NEW e \in Ends, NEW r \in Relays, ConnectRelay(e, r) PROVE AuthInv'
  <2>1. CertifiedLink'
    BY <1>5 DEF ConnectRelay, Connecting, TypeOK, AuthInv, CertifiedLink, Ends, Nodes
  <2>2. NoiseOverLink'
    BY <1>5 DEF ConnectRelay, Connecting, TypeOK, AuthInv, NoiseOverLink, Ends, Nodes
  <2>3. SentOwn' /\ ReadExpected'
    BY <1>5 DEF ConnectRelay, AuthInv, SentOwn, ReadExpected, our_fingerprint
  <2> QED  BY <2>1, <2>2, <2>3 DEF AuthInv
<1>6. ASSUME NEW e \in Ends, Break(e) PROVE AuthInv'
  BY <1>6, QuietStep DEF Break
<1>7. ASSUME NEW e \in Ends, SetUp(e) PROVE AuthInv'
  BY <1>7, QuietStep DEF SetUp, create_data_channel, webrtc_error, TypeOK
<1>8. ASSUME NEW e \in Ends, on_open(e) \/ detach_fails(e) PROVE AuthInv'
  BY <1>8, QuietStep DEF on_open, detach_fails, OpenHandler
<1>9. ASSUME NEW e \in Ends, rx_ready(e) \/ delay_elapsed(e) PROVE AuthInv'
  BY <1>9, QuietStep DEF rx_ready, delay_elapsed, TypeOK
<1>10. ASSUME NEW d \in Ends, NEW u \in Upgrades, upgrade_outbound(d, u) PROVE AuthInv'
  <2>1. u \in Ends /\ d # u
    BY <1>10 DEF upgrade_outbound, Ends
  <2>2. CertifiedLink' /\ SentOwn'
    BY <1>10 DEF upgrade_outbound, TypeOK, AuthInv, CertifiedLink, SentOwn,
                 our_fingerprint
  <2>3. NoiseOverLink'
    BY <1>10, <2>1 DEF upgrade_outbound, Reaches, TypeOK, AuthInv, CertifiedLink,
                       NoiseOverLink
  <2>4. ReadExpected'
    BY <1>10, <2>1 DEF upgrade_outbound, TypeOK, AuthInv, ReadExpected, our_fingerprint
  <2> QED  BY <2>2, <2>3, <2>4 DEF AuthInv
<1>11. ASSUME NEW e \in Ends, upgrade_inbound(e) PROVE AuthInv'
  BY <1>11, QuietStep DEF upgrade_inbound, TypeOK
<1>12. ASSUME NEW e \in Ends, upgrade_with_relay(e) PROVE AuthInv'
  BY <1>12 DEF upgrade_with_relay, TypeOK, AuthInv, CertifiedLink, NoiseOverLink,
               SentOwn, ReadExpected, our_fingerprint, Nodes
<1>13. ASSUME NEW e \in Ends, write_fingerprint(e) PROVE AuthInv'
  BY <1>13 DEF write_fingerprint, TypeOK, AuthInv, CertifiedLink, NoiseOverLink,
               SentOwn, ReadExpected, our_fingerprint
<1>14. ASSUME NEW e \in Ends, NEW f, read_fingerprint(e, f) PROVE AuthInv'
  <2>1. CertifiedLink' /\ NoiseOverLink' /\ SentOwn'
    BY <1>14 DEF read_fingerprint, TypeOK, AuthInv, CertifiedLink, NoiseOverLink,
                 SentOwn, our_fingerprint
  <2>2. ASSUME pc'[e] = "established", noise[e] \in Ends
        PROVE  remote[e].fingerprint = our_fingerprint(noise[e])
    <3>1. f = remote[e].fingerprint
      BY <1>14, <2>2 DEF read_fingerprint, TypeOK
    <3>2. f = sent[noise[e]] /\ f # None
      BY <1>14, <2>2 DEF read_fingerprint, Arriving
    <3> QED  BY <2>2, <3>1, <3>2 DEF AuthInv, SentOwn
  <2>3. ReadExpected'
    BY <1>14, <2>2 DEF read_fingerprint, TypeOK, AuthInv, ReadExpected, our_fingerprint
  <2> QED  BY <2>1, <2>3 DEF AuthInv
<1>15. ASSUME NEW e \in Ends, io_error(e) PROVE AuthInv'
  BY <1>15, QuietStep DEF io_error, TypeOK
<1>16. ASSUME NEW e \in Ends, open_outbound(e) \/ on_data_channel(e) PROVE AuthInv'
  BY <1>16, QuietStep DEF open_outbound, on_data_channel
<1>17. CASE UNCHANGED vars
  BY <1>17, QuietStep DEF vars
<1> QED
  BY <1>2, <1>3, <1>4, <1>5, <1>6, <1>7, <1>8, <1>9, <1>10, <1>11, <1>12, <1>13,
     <1>14, <1>15, <1>16, <1>17 DEF Next, Begin, Network, Exchange

(***************************************************************************)
(* With the fingerprint of a relay in its description an end could not     *)
(* have read the one of a peer.                                            *)
(***************************************************************************)
LEMMA AuthInvSuffices == AuthInv => AuthenticatedEnd
<1> SUFFICES ASSUME AuthInv, NEW e \in Ends, pc[e] = "established", noise[e] \in Ends
             PROVE  link[e] = noise[e]
  BY DEF AuthenticatedEnd
<1>1. CASE link[e] \in Relays
  <2>1. fingerprint_of_first_certificate(link[e])
          = fingerprint_of_first_certificate(Owner[noise[e]])
    BY <1>1 DEF AuthInv, CertifiedLink, ReadExpected, our_fingerprint
  <2>2. link[e] = Owner[noise[e]]
    BY <2>1, CertificateFingerprint
  <2> QED  BY <1>1, <2>2, HandshakeAssumption
<1> QED  BY <1>1 DEF AuthInv, NoiseOverLink

(***************************************************************************)
(* AuthenticatedEnd: what the exchange of fingerprints is for.  The peer   *)
(* that noise authenticated is the other end of the DTLS session, for any  *)
(* number of nodes, sessions and relays.                                   *)
(***************************************************************************)
THEOREM Authenticated == Spec => []AuthenticatedEnd
<1>1. TypeOK /\ AuthInv /\ [Next]_vars => (TypeOK /\ AuthInv)'
  BY NextTypeOK, NextAuthInv
<1> QED  BY InitTypeOK, InitAuthInv, <1>1, AuthInvSuffices, PTL DEF Spec

-----------------------------------------------------------------------------
(***************************************************************************)
(* Why the upgrade follows the dial.  Noise begins only once the channel   *)
(* is there and pairs two ends; each description names the certificate of  *)
(* the other end; a session is cut off for both ends at once.              *)
(***************************************************************************)
NoiseStarted == \A e \in Ends : noise[e] # None => pc[e] \in Busy \cup Ended

NoisePaired == \A d \in Dials, u \in Upgrades : noise[d] = u => noise[u] = d

LinkNamed ==
  \A e \in Ends : link[e] \in Ends => remote[e].fingerprint = our_fingerprint(link[e])

BrokenTogether ==
  \A e \in Ends : /\ e \in broken => link[e] # None
                  /\ link[e] \in Ends => (e \in broken <=> link[e] \in broken)

(* An upgrade fails after its dial, or because the session is cut off.     *)
Follows ==
  \A d \in Dials, u \in Upgrades :
    link[d] = u /\ noise[d] = u /\ pc[u] = "failed" => pc[d] = "failed" \/ d \in broken

PairInv == NoiseStarted /\ NoisePaired /\ LinkNamed /\ BrokenTogether

FollowInv == TypeOK /\ AuthInv /\ PairInv /\ Follows

(* A step that only moves one future on, and not back before noise.        *)
LEMMA QuietPairs ==
  ASSUME PairInv, UNCHANGED <<remote, link, noise, broken>>,
         \A e \in Ends : pc[e] \in Busy \cup Ended => pc'[e] \in Busy \cup Ended
  PROVE  PairInv'
BY DEF PairInv, NoiseStarted, NoisePaired, LinkNamed, BrokenTogether, our_fingerprint

LEMMA NextPairInv == TypeOK /\ AuthInv /\ PairInv /\ [Next]_vars => PairInv'
<1> SUFFICES ASSUME TypeOK, AuthInv, PairInv, [Next]_vars PROVE PairInv'
  OBVIOUS
<1> USE DEF Go, Busy, Ended
<1>as. /\ Dials \subseteq Ends /\ Upgrades \subseteq Ends /\ Dials \cap Upgrades = {}
       /\ None \notin Ends /\ Relays \cap Ends = {} /\ None \notin Relays
  BY HandshakeAssumption DEF Ends, Nodes
<1>1. ASSUME NEW e \in Ends, NEW a, NEW description, Starts(e, a, description)
      PROVE  PairInv'
  <2>1. /\ link[e] = None /\ noise[e] = None /\ pc[e] = "idle"
        /\ pc' = [pc EXCEPT ![e] = "create"]
        /\ remote' = [remote EXCEPT ![e] = description]
        /\ UNCHANGED <<link, noise, broken>>
    BY <1>1 DEF Starts, AuthInv, CertifiedLink, PairInv, NoiseStarted
  <2> QED  BY <1>as, <2>1 DEF TypeOK, PairInv, NoiseStarted, NoisePaired, LinkNamed,
                              BrokenTogether, our_fingerprint
<1>2. ASSUME NEW d \in Dials, NEW a \in Addrs, do_dial(d, a) \/ do_dial_invalid(d, a)
      PROVE  PairInv'
  <2>1. CASE do_dial(d, a)
    BY <1>1, <1>as, <2>1 DEF do_dial
  <2>2. CASE do_dial_invalid(d, a)
    BY <1>as, <2>2, QuietPairs DEF do_dial_invalid, TypeOK
  <2> QED  BY <1>2, <2>1, <2>2
<1>3. ASSUME NEW u \in Upgrades, NEW f, webrtc(u, f) PROVE PairInv'
  BY <1>1, <1>3, <1>as DEF webrtc
<1>4. ASSUME NEW d \in Dials, NEW u \in Upgrades, Connect(d, u) PROVE PairInv'
  <2>1. /\ d # u /\ d \in Ends /\ u \in Ends /\ link[d] = None /\ link[u] = None
        /\ link' = [link EXCEPT ![d] = u, ![u] = d]
        /\ remote[d].fingerprint = our_fingerprint(u)
        /\ remote[u].fingerprint = our_fingerprint(d)
        /\ UNCHANGED <<pc, remote, noise, broken>>
    BY <1>4, <1>as DEF Connect, Connecting
  <2>2. link'[d] = u /\ link'[u] = d /\ \A e \in Ends \ {d, u} : link'[e] = link[e]
    BY <2>1 DEF TypeOK
  <2>4. d \notin broken /\ u \notin broken
    BY <2>1 DEF PairInv, BrokenTogether
  <2>5. LinkNamed'
    BY <2>1, <2>2 DEF PairInv, LinkNamed, our_fingerprint
  <2>6. BrokenTogether'
    <3> SUFFICES ASSUME NEW e \in Ends
                 PROVE  /\ e \in broken => link'[e] # None
                        /\ link'[e] \in Ends => (e \in broken <=> link'[e] \in broken)
      BY <2>1 DEF BrokenTogether
    <3>1. CASE e \in {d, u}
      BY <1>as, <2>1, <2>2, <2>4, <3>1
    <3>2. CASE e \notin {d, u}
      BY <2>2, <3>2 DEF PairInv, BrokenTogether
    <3> QED  BY <3>1, <3>2
  <2> QED  BY <2>1, <2>5, <2>6 DEF PairInv, NoiseStarted, NoisePaired
<1>5. ASSUME NEW e \in Ends, NEW r \in Relays, ConnectRelay(e, r) PROVE PairInv'
  <2>1. /\ link[e] = None /\ link' = [link EXCEPT ![e] = r]
        /\ UNCHANGED <<pc, remote, noise, broken>>
    BY <1>5 DEF ConnectRelay, Connecting
  <2> QED  BY <1>as, <2>1 DEF TypeOK, PairInv, NoiseStarted, NoisePaired, LinkNamed,
                              BrokenTogether, our_fingerprint
<1>6. ASSUME NEW e \in Ends, Break(e) PROVE PairInv'
  <2>1. /\ link[e] # None /\ broken' = broken \cup ({e, link[e]} \cap Ends)
        /\ UNCHANGED <<pc, remote, link, noise>>
    BY <1>6 DEF Break
  <2>2. BrokenTogether'
    BY <1>as, <2>1 DEF TypeOK, AuthInv, CertifiedLink, PairInv, BrokenTogether
  <2> QED  BY <2>1, <2>2 DEF PairInv, NoiseStarted, NoisePaired, LinkNamed, our_fingerprint
<1>7. ASSUME NEW e \in Ends, SetUp(e) PROVE PairInv'
  BY <1>7, QuietPairs DEF SetUp, create_data_channel, webrtc_error, TypeOK
<1>8. ASSUME NEW e \in Ends, on_open(e) \/ detach_fails(e) PROVE PairInv'
  BY <1>8, QuietPairs DEF on_open, detach_fails, OpenHandler
<1>9. ASSUME NEW e \in Ends, rx_ready(e) \/ delay_elapsed(e) PROVE PairInv'
  BY <1>9, QuietPairs DEF rx_ready, delay_elapsed, TypeOK
<1>10. ASSUME NEW d \in Ends, NEW u \in Upgrades, upgrade_outbound(d, u) PROVE PairInv'
  <2>1. /\ d \in Dials /\ d # u /\ u \in Ends /\ noise[d] = None /\ noise[u] = None
        /\ pc[u] = "noise" /\ pc' = [pc EXCEPT ![d] = "write"]
        /\ noise' = [noise EXCEPT ![d] = u, ![u] = d]
        /\ UNCHANGED <<remote, link, broken>>
    BY <1>10, <1>as DEF upgrade_outbound
  <2>2. NoiseStarted'
    BY <2>1 DEF TypeOK, PairInv, NoiseStarted
  <2>3. NoisePaired'
    BY <1>as, <2>1 DEF TypeOK, PairInv, NoisePaired
  <2> QED  BY <2>1, <2>2, <2>3 DEF PairInv, LinkNamed, BrokenTogether, our_fingerprint
<1>11. ASSUME NEW e \in Ends, upgrade_inbound(e) PROVE PairInv'
  BY <1>11, QuietPairs DEF upgrade_inbound, TypeOK
<1>12. ASSUME NEW e \in Ends, upgrade_with_relay(e) PROVE PairInv'
  <2>1. /\ noise[e] = None /\ link[e] \in Relays /\ pc' = [pc EXCEPT ![e] = "write"]
        /\ noise' = [noise EXCEPT ![e] = link[e]] /\ UNCHANGED <<remote, link, broken>>
    BY <1>12 DEF upgrade_with_relay
  <2> QED  BY <1>as, <2>1 DEF TypeOK, PairInv, NoiseStarted, NoisePaired, LinkNamed,
                              BrokenTogether, our_fingerprint
<1>13. ASSUME NEW e \in Ends, NEW f, write_fingerprint(e) \/ read_fingerprint(e, f)
       PROVE  PairInv'
  BY <1>13, QuietPairs DEF write_fingerprint, read_fingerprint, TypeOK
<1>14. ASSUME NEW e \in Ends, io_error(e) PROVE PairInv'
  BY <1>14, QuietPairs DEF io_error, TypeOK
<1>15. ASSUME NEW e \in Ends, open_outbound(e) \/ on_data_channel(e) PROVE PairInv'
  BY <1>15, QuietPairs DEF open_outbound, on_data_channel
<1>16. CASE UNCHANGED vars
  BY <1>16, QuietPairs DEF vars
<1> QED
  BY <1>2, <1>3, <1>4, <1>5, <1>6, <1>7, <1>8, <1>9, <1>10, <1>11, <1>12, <1>13, <1>14,
     <1>15, <1>16 DEF Next, Begin, Network, Exchange

(* A dial that has failed, or whose session is cut off, stays so.          *)
LEMMA FailedStays ==
  ASSUME TypeOK, [Next]_vars, NEW d \in Ends
  PROVE  /\ pc[d] = "failed" => pc'[d] = "failed"
         /\ d \in broken => d \in broken'
<1> USE DEF Go, TypeOK, Busy, Ended
<1>1. ASSUME NEW e \in Ends, NEW to, pc[e] # "failed", pc' = [pc EXCEPT ![e] = to]
      PROVE  pc[d] = "failed" => pc'[d] = "failed"
  BY <1>1
<1>2. broken \subseteq broken'
  BY DEF Next, Begin, do_dial, Starts, do_dial_invalid, webrtc, Network, Connect, ConnectRelay,
     Break, SetUp, create_data_channel, webrtc_error, on_open, detach_fails, OpenHandler,
     rx_ready, delay_elapsed, Exchange, upgrade_outbound, upgrade_inbound, write_fingerprint,
     read_fingerprint, upgrade_with_relay, io_error, open_outbound, on_data_channel, vars
<1>3. CASE Begin
  BY <1>1, <1>3 DEF Begin, do_dial, Starts, do_dial_invalid, webrtc, Ends
<1>4. CASE Network \/ UNCHANGED vars
  BY <1>4 DEF Network, Connect, ConnectRelay, Break, vars
<1>5. ASSUME NEW e \in Ends, SetUp(e) \/ on_open(e) \/ detach_fails(e)
      PROVE  pc[d] = "failed" => pc'[d] = "failed"
  BY <1>1, <1>5 DEF SetUp, create_data_channel, webrtc_error, on_open, detach_fails, OpenHandler
<1>6. ASSUME NEW e \in Ends, rx_ready(e) \/ delay_elapsed(e)
      PROVE  pc[d] = "failed" => pc'[d] = "failed"
  BY <1>1, <1>6 DEF rx_ready, delay_elapsed
<1>7. ASSUME NEW e \in Ends, Exchange(e) \/ upgrade_with_relay(e) \/ io_error(e)
      PROVE  pc[d] = "failed" => pc'[d] = "failed"
  BY <1>1, <1>7 DEF Exchange, upgrade_outbound, upgrade_inbound, write_fingerprint,
     read_fingerprint, upgrade_with_relay, io_error
<1>8. ASSUME NEW e \in Ends, open_outbound(e) \/ on_data_channel(e)
      PROVE  pc[d] = "failed" => pc'[d] = "failed"
  BY <1>8 DEF open_outbound, on_data_channel
<1> QED  BY <1>2, <1>3, <1>4, <1>5, <1>6, <1>7, <1>8 DEF Next

(* The steps at which an upgrade fails that noise has paired with a dial.  *)
LEMMA UpgradeFails ==
  ASSUME FollowInv, [Next]_vars, NEW d \in Dials, NEW u \in Upgrades,
         link[d] = u, noise[d] = u, pc[u] # "failed", pc'[u] = "failed"
  PROVE  pc[d] = "failed" \/ d \in broken
<1> USE DEF Go, Busy, Ended
<1>as. /\ d \in Ends /\ u \in Ends /\ u \notin Dials /\ d # u
       /\ None \notin Ends /\ Relays \cap Ends = {}
  BY HandshakeAssumption DEF Ends, Nodes
<1>1. /\ TypeOK /\ noise[u] = d /\ link[u] = d /\ pc[u] \in Busy \cup Ended
      /\ remote[u].fingerprint = our_fingerprint(d) /\ SentOwn
      /\ u \in broken <=> d \in broken
  BY <1>as DEF FollowInv, AuthInv, CertifiedLink, PairInv, NoiseStarted, NoisePaired, LinkNamed,
               BrokenTogether
<1>2. ASSUME NEW e \in Ends, io_error(e) PROVE pc[d] = "failed" \/ d \in broken
  BY <1>1, <1>2, <1>as DEF io_error, Silent, TypeOK
<1>3. ASSUME NEW e \in Ends, NEW f, read_fingerprint(e, f) PROVE FALSE
  <2>1. e = u
    BY <1>1, <1>3 DEF read_fingerprint, TypeOK
  <2>2. f = sent[d] /\ f # None
    BY <1>1, <1>3, <1>as, <2>1 DEF read_fingerprint, Arriving
  <2>3. f = remote[u].fingerprint /\ VerifiedId(u)
    BY <1>1, <1>as, <2>2 DEF SentOwn, VerifiedId
  <2> QED  BY <1>1, <1>3, <2>1, <2>3 DEF read_fingerprint, TypeOK
<1>4. ASSUME NEW e \in Ends, NEW from \in {"idle", "create", "wait"}, NEW to, Go(e, from, to)
      PROVE  FALSE
  BY <1>1, <1>4 DEF TypeOK
<1>5. ASSUME NEW e \in Ends, NEW from, NEW to \in Busy, Go(e, from, to) PROVE FALSE
  BY <1>1, <1>5 DEF TypeOK
<1>6. ~Begin
  <2>1. ASSUME NEW e \in Ends, NEW a, NEW r, Starts(e, a, r) PROVE FALSE
    BY <1>4, <2>1 DEF Starts
  <2>2. ASSUME NEW e \in Dials, NEW a, do_dial(e, a) \/ do_dial_invalid(e, a) PROVE FALSE
    <3>1. e \in Ends
      BY DEF Ends
    <3> QED  BY <1>4, <2>1, <2>2, <3>1 DEF do_dial, do_dial_invalid
  <2>3. ASSUME NEW e \in Upgrades, NEW f, webrtc(e, f) PROVE FALSE
    <3>1. e \in Ends
      BY DEF Ends
    <3> QED  BY <2>1, <2>3, <3>1 DEF webrtc
  <2> QED  BY <2>2, <2>3 DEF Begin
<1>7. ASSUME NEW e \in Ends,
             SetUp(e) \/ rx_ready(e) \/ delay_elapsed(e) PROVE FALSE
  BY <1>4, <1>7 DEF SetUp, create_data_channel, webrtc_error, rx_ready, delay_elapsed
<1>8. ASSUME NEW e \in Ends,
             \/ (\E v \in Upgrades : upgrade_outbound(e, v)) \/ upgrade_inbound(e)
             \/ write_fingerprint(e) \/ upgrade_with_relay(e)
      PROVE  FALSE
  BY <1>5, <1>8 DEF upgrade_outbound, upgrade_inbound, write_fingerprint, upgrade_with_relay
<1>9. pc' # pc
  OBVIOUS
<1>10. ASSUME NEW e \in Ends,
              on_open(e) \/ detach_fails(e) \/ open_outbound(e) \/ on_data_channel(e)
       PROVE  FALSE
  BY <1>9, <1>10 DEF on_open, detach_fails, OpenHandler, open_outbound, on_data_channel
<1>11. ~Network /\ ~UNCHANGED vars
  BY <1>9 DEF Network, Connect, ConnectRelay, Break, vars
<1> QED  BY <1>2, <1>3, <1>6, <1>7, <1>8, <1>10, <1>11 DEF Next, Exchange

LEMMA NextFollows == FollowInv /\ [Next]_vars => Follows'
<1> SUFFICES ASSUME FollowInv, [Next]_vars, NEW d \in Dials, NEW u \in Upgrades,
                    link'[d] = u, noise'[d] = u, pc'[u] = "failed"
             PROVE  pc'[d] = "failed" \/ d \in broken'
  BY DEF Follows
<1>as. /\ d \in Ends /\ u \in Ends /\ d # u /\ None \notin Ends /\ Relays \cap Ends = {}
       /\ Dials \cap Upgrades = {}
  BY HandshakeAssumption DEF Ends, Nodes
<1>inv. TypeOK /\ AuthInv /\ PairInv /\ Follows
  BY DEF FollowInv
<1>1. ASSUME NEW e \in Ends, NEW v \in Upgrades, upgrade_outbound(e, v) PROVE noise[d] = u
  <2>1. /\ e \in Dials /\ pc[v] = "noise" /\ pc' = [pc EXCEPT ![e] = "write"]
        /\ noise' = [noise EXCEPT ![e] = v, ![v] = e]
    BY <1>1 DEF upgrade_outbound, Go
  <2>2. u # v
    BY <1>as, <1>inv, <2>1 DEF TypeOK
  <2> QED  BY <1>as, <1>inv, <2>1, <2>2 DEF TypeOK
<1>2. ASSUME NEW e \in Ends, upgrade_with_relay(e) PROVE noise[d] = u
  BY <1>2, <1>as, <1>inv DEF upgrade_with_relay, TypeOK
<1>3. noise[d] = u
  <2>1. CASE UNCHANGED noise
    BY <2>1
  <2>2. \/ UNCHANGED noise
        \/ \E e \in Ends : upgrade_with_relay(e) \/ \E v \in Upgrades : upgrade_outbound(e, v)
    BY DEF Next, Begin, do_dial, Starts, do_dial_invalid, webrtc, Network, Connect, ConnectRelay,
       Break, SetUp, create_data_channel, webrtc_error, on_open, detach_fails, OpenHandler,
       rx_ready, delay_elapsed, Exchange, upgrade_inbound, write_fingerprint, read_fingerprint,
       io_error, open_outbound, on_data_channel, vars
  <2> QED  BY <1>1, <1>2, <2>1, <2>2
<1>4. link[d] = u
  <2>1. link[d] = u \/ link[d] \in Relays
    BY <1>3, <1>as, <1>inv DEF AuthInv, NoiseOverLink
  <2>2. link[d] # None => link'[d] = link[d]
    <3>1. CASE UNCHANGED link
      BY <3>1
    <3>2. ASSUME NEW c \in Dials, NEW v \in Upgrades, Connect(c, v)
          PROVE  link[d] # None => link'[d] = link[d]
      BY <3>2, <1>as, <1>inv DEF Connect, Connecting, TypeOK
    <3>3. ASSUME NEW e \in Ends, NEW r \in Relays, ConnectRelay(e, r)
          PROVE  link[d] # None => link'[d] = link[d]
      BY <3>3, <1>as, <1>inv DEF ConnectRelay, Connecting, TypeOK
    <3>4. \/ UNCHANGED link
          \/ \E c \in Dials, v \in Upgrades : Connect(c, v)
          \/ \E e \in Ends, r \in Relays : ConnectRelay(e, r)
      BY DEF Next, Begin, do_dial, Starts, do_dial_invalid, webrtc, Network, Break, SetUp,
         create_data_channel, webrtc_error, on_open, detach_fails, OpenHandler, rx_ready,
         delay_elapsed, Exchange, upgrade_outbound, upgrade_inbound, write_fingerprint,
         read_fingerprint, upgrade_with_relay, io_error, open_outbound, on_data_channel, vars
    <3> QED  BY <3>1, <3>2, <3>3, <3>4
  <2>3. None \notin Relays
    BY HandshakeAssumption DEF Nodes
  <2> QED  BY <1>as, <2>1, <2>2, <2>3
<1>5. pc[d] = "failed" \/ d \in broken
  <2>1. CASE pc[u] = "failed"
    BY <1>3, <1>4, <1>inv, <2>1 DEF Follows
  <2>2. CASE pc[u] # "failed"
    BY <1>3, <1>4, <2>2, UpgradeFails
  <2> QED  BY <2>1, <2>2
<1> QED  BY <1>5, <1>as, <1>inv, FailedStays

(***************************************************************************)
(* PeerNotRefused: when do_dial has succeeded, the upgrade that noise has  *)
(* paired it with fails only with the session, for any number of nodes,    *)
(* sessions and relays.                                                    *)
(***************************************************************************)
THEOREM PeerFollowsSafely == Spec => []PeerNotRefused
<1>1. Init => FollowInv
  <2>1. Init => PairInv /\ Follows
    BY HandshakeAssumption DEF Init, PairInv, NoiseStarted, NoisePaired, LinkNamed,
       BrokenTogether, Follows, Ends, Nodes
  <2> QED  BY <2>1, InitTypeOK, InitAuthInv DEF FollowInv
<1>2. FollowInv /\ [Next]_vars => FollowInv'
  BY NextTypeOK, NextAuthInv, NextPairInv, NextFollows DEF FollowInv
<1>3. FollowInv => PeerNotRefused
  <2> SUFFICES ASSUME FollowInv, NEW d \in Dials, NEW u \in Upgrades,
                      pc[d] = "established", noise[d] = u
               PROVE  pc[u] # "failed" \/ d \in broken
    BY DEF PeerNotRefused
  <2>1. link[d] = u
    BY AuthInvSuffices DEF FollowInv, AuthenticatedEnd, Ends
  <2> QED  BY <2>1 DEF FollowInv, Follows
<1> QED  BY <1>1, <1>2, <1>3, PTL DEF Spec
=============================================================================
