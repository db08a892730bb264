------------------------------ MODULE Endpoint ------------------------------
(***************************************************************************)
(* A WebRTCDirectTransport as a whole: the UDP mux, the listener that      *)
(* turns the addresses the mux reports into upgrades, and the dials, all   *)
(* over one socket.  build_setting_engine gives every ICE agent of the     *)
(* transport the fingerprint of the transport's certificate as its ufrag,  *)
(* so all of them call get_conn with the same one.                         *)
(*                                                                         *)
(* An agent is the future of one upgrade or dial, a caller of the mux.     *)
(* The ICE agent of the webrtc crate may close the conn it holds, and the  *)
(* mux then removes it.  Nothing under src/ calls remove_conn_by_ufrag or  *)
(* closes the mux, so here nobody else does.  The details of the handshake *)
(* are those of module Handshake; a future that ends is one that takes no  *)
(* further step, since nothing obliges it to gather or to send.            *)
(***************************************************************************)
EXTENDS UdpMux

CONSTANTS
  Own,        \* the transport's fingerprint, without colons
  PeerFp,     \* the fingerprint of the peer at an address
  Dialers,    \* the agents that dial; the others upgrade
  DialAddrs,  \* the addresses they may dial
  Closable    \* the conns that their ICE agents may close

Agents == Callers

ASSUME EndpointAssumption ==
  /\ Own \in Ufrags /\ PeerFp \in [Addrs -> Ufrags \ BadHex]
  /\ \A a \in Addrs : [local |-> Own, remote |-> PeerFp[a]] \in Datagrams
  /\ Dialers \subseteq Agents /\ DialAddrs \subseteq Addrs
  /\ Closable \subseteq Conns

VARIABLES
  stage,    \* where an agent is
  target,   \* the remote address of an agent
  held,     \* the UDPMuxConn of an agent
  heard,    \* the addresses each conn has received a packet from
  served    \* history: the addresses an upgrade was started for

agentVars == <<stage, target, held, heard, served>>

muxVars == vars

allVars == <<muxVars, agentVars>>

EndpointTypeOK ==
  /\ stage \in [Agents -> {"idle", "gather", "ice", "ended"}]
  /\ target \in [Agents -> Addrs \cup {None}]
  /\ held \in [Agents -> Conns \cup {None}]
  /\ heard \in [Conns -> SUBSET Addrs]
  /\ served \subseteq Addrs

(* WebRTCDirectTransport::new and listen_on.                               *)
EndpointInit ==
  /\ Init
  /\ stage = [p \in Agents |-> "idle"]
  /\ target = [p \in Agents |-> None]
  /\ held = [p \in Agents |-> None]
  /\ heard = [c \in Conns |-> {}]
  /\ served = {}

-----------------------------------------------------------------------------
(* The listener, a dial, and what they make of an agent.                   *)

StartAgent(p, a) ==
  /\ stage[p] = "idle"
  /\ stage' = [stage EXCEPT ![p] = "gather"]
  /\ target' = [target EXCEPT ![p] = a]
  /\ UNCHANGED <<held, heard>>

(* Wrong: takes the reported multiaddr for the socket address in it.       *)
ListenerUpgradeMultiaddr(p) ==
  /\ p \notin Dialers
  /\ TakeNewAddr
  /\ StartAgent(p, Head(new_addr_ch))
  /\ served' = served \cup {Head(new_addr_ch).addr}

ListenerUpgrade(p) ==
  /\ p \notin Dialers
  /\ TakeNewAddr
  /\ StartAgent(p, Head(new_addr_ch).addr)
  /\ served' = served \cup {Head(new_addr_ch).addr}

dial(p, a) ==
  /\ p \in Dialers
  /\ StartAgent(p, a)
  /\ UNCHANGED <<muxVars, served>>

(* Setting the local description gathers candidates over the mux.          *)
Gather(p) ==
  /\ stage[p] = "gather"
  /\ get_conn(p, Own)
  /\ UNCHANGED agentVars

GotConn(p, c) ==
  /\ held' = [held EXCEPT ![p] = c]
  /\ stage' = [stage EXCEPT ![p] = "ice"]
  /\ UNCHANGED <<target, heard, served>>

GetsConn(p) ==
  \/ get_conn_existing(p) /\ GotConn(p, conns[Own])
  \/ \E c \in Conns : get_conn_create(p, c) /\ GotConn(p, c)

(* Without a candidate there is nothing to connect with.                   *)
GetsNoConn(p) ==
  /\ get_conn_no_local_addr(p)
  /\ stage' = [stage EXCEPT ![p] = "ended"]
  /\ UNCHANGED <<target, held, heard, served>>

(***************************************************************************)
(* A dialing agent sends on its own.  An upgrade is ICE lite: it only      *)
(* answers what it has received.                                           *)
(***************************************************************************)
AgentSends(p) ==
  /\ stage[p] = "ice"
  /\ p \in Dialers \/ target[p] \in heard[held[p]]
  /\ SendTo(held[p], target[p])
  /\ UNCHANGED agentVars

(* An ICE agent is done with the conn, which all of them share.            *)
CandidateCloses(c) ==
  /\ c \in Closable /\ \E p \in Agents : held[p] = c
  /\ OwnerCloses(c)
  /\ UNCHANGED agentVars

Watches(c) == WatcherStep(c) /\ UNCHANGED agentVars

-----------------------------------------------------------------------------
(* The worker, and the peers, whose STUN messages name the two             *)
(* fingerprints.                                                           *)

PeerSends(a) ==
  /\ recv_from(a, [local |-> Own, remote |-> PeerFp[a]])
  /\ UNCHANGED agentVars

Delivers ==
  /\ write_packet
  /\ heard' = [heard EXCEPT ![wconn] = @ \cup {waddr}]
  /\ UNCHANGED <<stage, target, held, served>>

WorkerGoesOn ==
  /\ \/ conn_from_stun_message \/ not_reported \/ try_send_fails \/ try_send
     \/ insert_new_addr
  /\ UNCHANGED agentVars

Registers(c, a) == RegisterStep(c, a) /\ UNCHANGED agentVars

-----------------------------------------------------------------------------
EndpointNext ==
  \/ \E p \in Agents : \/ ListenerUpgrade(p)
                       \/ \E a \in DialAddrs : dial(p, a)
                       \/ Gather(p) \/ GetsConn(p) \/ GetsNoConn(p)
                       \/ AgentSends(p)
  \/ \E a \in Addrs : PeerSends(a)
  \/ Delivers
  \/ WorkerGoesOn
  \/ \E c \in Conns, a \in Addrs : Registers(c, a)
  \/ \E c \in Conns : CandidateCloses(c) \/ Watches(c)

(***************************************************************************)
(* ICE retransmits: every peer's messages keep arriving, however busy the  *)
(* socket is.  The worker and the calls of the mux go on (see UdpMux), and *)
(* the listener is polled.                                                 *)
(***************************************************************************)
EndpointFairness ==
  /\ \A a \in Addrs : SF_allVars(PeerSends(a))
  /\ WF_allVars(Delivers \/ WorkerGoesOn)
  /\ \A p \in Agents : WF_allVars(GetsConn(p) \/ GetsNoConn(p))
  /\ WF_allVars(\E p \in Agents : ListenerUpgrade(p))
  /\ \A c \in Conns, a \in Addrs : WF_allVars(Registers(c, a))
  /\ \A c \in Conns : WF_allVars(Watches(c))

EndpointSpec == EndpointInit /\ [][EndpointNext]_allVars /\ EndpointFairness

-----------------------------------------------------------------------------
(***************************************************************************)
(* The ICE agents of a transport whose conn is open share it, also when    *)
(* several of them call get_conn at once and while the task that watched   *)
(* an earlier conn removes that one: a second conn would take over conns   *)
(* and leave the first without packets.                                    *)
(***************************************************************************)
Open(p) == held[p] # None /\ ~conn_closed[held[p]]

SharedConn == \A p, q \in Agents : Open(p) /\ Open(q) => held[p] = held[q]

(***************************************************************************)
(* A peer gets a second upgrade only if the conn of one of its upgrades    *)
(* has been closed, however often it retransmits and whatever the worker   *)
(* had looked up before the address was registered.  (A dial to the same   *)
(* address registers it at any time and is excused.)                       *)
(***************************************************************************)
Upgrading(p, a) == p \notin Dialers /\ target[p] = a

Lapsed(p) == held[p] # None /\ conn_closed[held[p]]

OneUpgradePerPeer ==
  \A p, q \in Agents, a \in Addrs :
    Upgrading(p, a) /\ Upgrading(q, a) /\ p # q
      => \E r \in Agents : target[r] = a /\ (r \in Dialers \/ Lapsed(r))

(***************************************************************************)
(* A peer that keeps sending is upgraded in the end, although the channel  *)
(* to the listener may be full when it is noticed, unless a conn of the    *)
(* transport has claimed its messages (or no agent is left to serve it);   *)
(* also when that conn is closed and gone again.                           *)
(***************************************************************************)
Claimed(a) == conns[Own] # None \/ address_map[a] # None

PeerServed ==
  \A a \in Addrs : []<>(\/ a \in served
                        \/ Claimed(a)
                        \/ \A p \in Agents \ Dialers : stage[p] # "idle")

(***************************************************************************)
(* Comment on UDPMuxNewAddr: it has the "ability to report new addresses". *)
(* A peer that keeps sending while an upgrade could be started is upgraded *)
(* in the end.                                                             *)
(***************************************************************************)
EveryPeerUpgraded ==
  \A a \in Addrs : <>(\/ a \in served
                      \/ \A p \in Agents \ Dialers : stage[p] # "idle")
=============================================================================
