--------------------------- MODULE EndpointProofs ---------------------------
(***************************************************************************)
(* Proofs about Endpoint, for any number of peers, agents and conns.       *)
(***************************************************************************)
EXTENDS Endpoint, MuxServiceProofs

(* What an agent has at hand at each stage.                                *)
AgentHolds ==
  \A p \in Agents :
    /\ stage[p] # "idle" => target[p] \in Addrs
    /\ stage[p] \in {"idle", "gather"} => held[p] = None
    /\ stage[p] = "ice" => held[p] \in Conns
    /\ pc[p] = "get" => arg[p] = Own /\ stage[p] = "gather"

(***************************************************************************)
(* An open conn of an agent is the one that conns has for the ufrag of     *)
(* all.  So is a conn whose watching task has not yet taken it out: that   *)
(* task finds no other conn under the ufrag.                               *)
(***************************************************************************)
HeldListed ==
  /\ \A p \in Agents : Open(p) => conns[Own] = held[p]
  /\ \A c \in Conns : pc[c] \in {"watching", "remove"} => conns[Own] = c /\ arg[c] = Own
  /\ \A c \in Conns : pc[c] = "remove" => conn_closed[c]

EndpointInv == TypeInv /\ EndpointTypeOK /\ AgentHolds /\ HeldListed

(***************************************************************************)
(* A transport uses its mux only as UdpMux allows, so that what is proved  *)
(* of the mux under any callers holds in a transport.                      *)
(***************************************************************************)
LEMMA EndpointStep == EndpointInv /\ [EndpointNext]_allVars => [Next]_vars
<1> SUFFICES ASSUME EndpointInv, [EndpointNext]_allVars PROVE [Next]_vars
  OBVIOUS
<1>1. ASSUME NEW p \in Agents,
             \/ ListenerUpgrade(p) \/ Gather(p) \/ GetsConn(p) \/ GetsNoConn(p)
      PROVE  Next
  BY <1>1, EndpointAssumption DEF Agents, ListenerUpgrade, Gather, GetsConn, GetsNoConn,
     Next, CallerBegins, CallerStep, GetConnStep
<1>2. ASSUME NEW p \in Agents, NEW a \in DialAddrs, dial(p, a) PROVE UNCHANGED vars
  BY <1>2 DEF dial, muxVars
<1>3. ASSUME NEW c \in Conns, CandidateCloses(c) \/ Watches(c) PROVE Next
  BY <1>3 DEF CandidateCloses, Watches, Next
<1>4. ASSUME NEW p \in Agents, AgentSends(p) PROVE Next
  <2>1. held[p] \in Conns /\ target[p] \in Addrs
    BY <1>4 DEF AgentSends, EndpointInv, AgentHolds
  <2> QED  BY <1>4, <2>1 DEF AgentSends, Next
<1>5. ASSUME NEW a \in Addrs, PeerSends(a) PROVE Next
  BY <1>5, EndpointAssumption DEF PeerSends, Next
<1>6. CASE Delivers \/ WorkerGoesOn
  BY <1>6 DEF Delivers, WorkerGoesOn, Next, WorkerStep
<1>7. ASSUME NEW c \in Conns, NEW a \in Addrs, Registers(c, a) PROVE Next
  BY <1>7 DEF Registers, Next
<1>8. CASE UNCHANGED allVars
  BY <1>8 DEF allVars, muxVars
<1> QED  BY <1>1, <1>2, <1>3, <1>4, <1>5, <1>6, <1>7, <1>8 DEF EndpointNext

(* No agent has begun, and the mux is empty.                               *)
LEMMA InitEndpointInv == EndpointInit => EndpointInv
<1> SUFFICES ASSUME EndpointInit PROVE EndpointInv
  OBVIOUS
<1>1. TypeInv
  BY InitTypeInv DEF EndpointInit
<1>2. EndpointTypeOK
  BY DEF EndpointInit, EndpointTypeOK
<1>3. \A p \in Agents : pc[p] = "idle" /\ stage[p] = "idle" /\ held[p] = None
  BY DEF EndpointInit, Init, Agents, Tasks
<1>4. \A c \in Conns : pc[c] = "unborn"
  BY UdpMuxAssumption DEF EndpointInit, Init, Tasks
<1> QED  BY <1>1, <1>2, <1>3, <1>4 DEF EndpointInv, AgentHolds, HeldListed, Open

(***************************************************************************)
(* A step that leaves the agents, the callers of the mux and its conns     *)
(* alone keeps what is said of them.                                       *)
(***************************************************************************)
LEMMA AgentsAlone ==
  ASSUME AgentHolds, HeldListed,
         UNCHANGED <<stage, target, held, pc, arg, conns, conn_closed>>
  PROVE  AgentHolds' /\ HeldListed'
BY DEF AgentHolds, HeldListed, Open

(* Every step of a transport keeps the invariant.                          *)
LEMMA NextEndpointInv == EndpointInv /\ [EndpointNext]_allVars => EndpointInv'
<1> SUFFICES ASSUME EndpointInv, [EndpointNext]_allVars PROVE EndpointInv'
  OBVIOUS
<1>ty. TypeInv'
  BY EndpointStep, NextTypeInv DEF EndpointInv
<1>mux. /\ pc \in [Tasks -> CallerPC \cup WatcherPC]
        /\ arg \in [Tasks -> Ufrags \cup {None}]
        /\ conns \in [Ufrags -> Conns \cup {None}]
        /\ conn_closed \in [Conns -> BOOLEAN]
        /\ None \notin Conns /\ None \notin Addrs /\ Callers \cap Conns = {}
        /\ Own \in Ufrags
  BY UdpMuxAssumption, EndpointAssumption DEF EndpointInv, TypeInv, TypeOK
<1>ag. EndpointTypeOK /\ AgentHolds /\ HeldListed
  BY DEF EndpointInv
<1> SUFFICES EndpointTypeOK' /\ AgentHolds' /\ HeldListed'
  BY <1>ty DEF EndpointInv
<1> USE DEF taskVars, connVars, chanVars, workerVars, agentVars
<1>1. ASSUME NEW p \in Agents, NEW a \in Addrs, StartAgent(p, a),
             UNCHANGED <<pc, arg, conns, conn_closed>>, served' \subseteq Addrs
      PROVE  EndpointTypeOK' /\ AgentHolds' /\ HeldListed'
  BY <1>1, <1>ag DEF StartAgent, EndpointTypeOK, AgentHolds, HeldListed, Open
<1>2. ASSUME NEW p \in Agents, ListenerUpgrade(p)
      PROVE  EndpointTypeOK' /\ AgentHolds' /\ HeldListed'
  <2>1. Head(new_addr_ch).addr \in Addrs
    <3>1. new_addr_ch \in Seq([addr : Addrs, ufrag : Ufrags]) /\ new_addr_ch # <<>>
      BY <1>2 DEF ListenerUpgrade, TakeNewAddr, EndpointInv, TypeInv, TypeOK
    <3>2. Head(new_addr_ch) \in [addr : Addrs, ufrag : Ufrags]
      BY <3>1, HeadTailProperties
    <3> QED  BY <3>2
  <2>2. UNCHANGED <<pc, arg, conns, conn_closed>> /\ served' \subseteq Addrs
    BY <1>2, <1>ag, <2>1 DEF ListenerUpgrade, TakeNewAddr, EndpointTypeOK
  <2> QED  BY <1>1, <1>2, <2>1, <2>2 DEF ListenerUpgrade
<1>3. ASSUME NEW p \in Agents, NEW a \in DialAddrs, dial(p, a)
      PROVE  EndpointTypeOK' /\ AgentHolds' /\ HeldListed'
  BY <1>1, <1>3, <1>ag, EndpointAssumption DEF dial, muxVars, vars, EndpointTypeOK
<1>4. ASSUME NEW p \in Agents, Gather(p)
      PROVE  EndpointTypeOK' /\ AgentHolds' /\ HeldListed'
  <2>1. pc' = [pc EXCEPT ![p] = "get"] /\ arg' = [arg EXCEPT ![p] = Own]
        /\ p \in Callers /\ stage[p] = "gather"
        /\ UNCHANGED <<stage, target, held, heard, served, conns, conn_closed>>
    BY <1>4 DEF Gather, get_conn, Go, Agents
  <2>2. AgentHolds'
    BY <1>ag, <1>mux, <2>1 DEF AgentHolds, Agents, Tasks
  <2>3. HeldListed'
    BY <1>ag, <1>mux, <2>1 DEF HeldListed, Open, Tasks
  <2> QED  BY <1>ag, <2>1, <2>2, <2>3 DEF EndpointTypeOK
<1>5. ASSUME NEW p \in Agents, get_conn_existing(p), GotConn(p, conns[Own])
      PROVE  EndpointTypeOK' /\ AgentHolds' /\ HeldListed'
  <2>1. /\ arg[p] = Own /\ conns[Own] \in Conns
        /\ stage[p] = "gather" /\ pc'[p] # "get"
    BY <1>5, <1>ag, <1>mux, EndpointAssumption
    DEF get_conn_existing, Finish, Go, AgentHolds, Agents, Tasks
  <2>2. \A q \in Agents : pc'[q] = "get" => pc[q] = "get" /\ arg'[q] = arg[q]
    BY <1>5, <1>mux DEF get_conn_existing, Finish, Go, Agents, Tasks
  <2>3. UNCHANGED <<conns, conn_closed>>
        /\ \A c \in Conns : pc'[c] = pc[c] /\ arg'[c] = arg[c]
    BY <1>5, <1>mux DEF get_conn_existing, Finish, Go, Agents, Tasks
  <2>4. /\ held' = [held EXCEPT ![p] = conns[Own]]
        /\ stage' = [stage EXCEPT ![p] = "ice"] /\ UNCHANGED <<target, heard, served>>
    BY <1>5 DEF GotConn
  <2>5. EndpointTypeOK' /\ AgentHolds'
    BY <1>ag, <2>1, <2>2, <2>3, <2>4 DEF EndpointTypeOK, AgentHolds
  <2>6. HeldListed'
    BY <1>ag, <2>1, <2>3, <2>4 DEF EndpointTypeOK, HeldListed, Open
  <2> QED  BY <2>5, <2>6
<1>6. ASSUME NEW p \in Agents, NEW c \in Conns, get_conn_create(p, c), GotConn(p, c)
      PROVE  EndpointTypeOK' /\ AgentHolds' /\ HeldListed'
  <2>1. /\ arg[p] = Own /\ conns[Own] = None /\ conns'[Own] = c
        /\ stage[p] = "gather" /\ pc'[p] # "get"
    BY <1>6, <1>ag, <1>mux, EndpointAssumption
    DEF get_conn_create, create_muxed_conn, AgentHolds, Agents, Tasks
  <2>2. /\ \A q \in Agents : ~Open(q)
        /\ \A d \in Conns : pc[d] \notin {"watching", "remove"}
    BY <1>ag, <1>mux, <2>1 DEF HeldListed, Open
  <2>3. \A q \in Agents : pc'[q] = "get" => pc[q] = "get" /\ arg'[q] = arg[q]
    BY <1>6, <1>mux DEF get_conn_create, Agents, Tasks
  <2>4. /\ held' = [held EXCEPT ![p] = c]
        /\ stage' = [stage EXCEPT ![p] = "ice"] /\ UNCHANGED <<target, heard, served>>
    BY <1>6 DEF GotConn
  <2>5. /\ pc'[c] = "watching" /\ arg'[c] = Own /\ UNCHANGED conn_closed
        /\ \A d \in Conns \ {c} : pc'[d] = pc[d]
    BY <1>6, <1>mux, <2>1 DEF get_conn_create, Agents, Tasks
  <2>6. EndpointTypeOK' /\ AgentHolds'
    BY <1>ag, <1>mux, <2>1, <2>3, <2>4 DEF EndpointTypeOK, AgentHolds
  <2>7. HeldListed'
    BY <1>ag, <2>1, <2>2, <2>4, <2>5 DEF EndpointTypeOK, HeldListed, Open
  <2> QED  BY <2>6, <2>7
<1>7. ASSUME NEW p \in Agents, GetsNoConn(p)
      PROVE  EndpointTypeOK' /\ AgentHolds' /\ HeldListed'
  <2>1. \A q \in Agents : pc'[q] = "get" => pc[q] = "get" /\ arg'[q] = arg[q]
    BY <1>7, <1>mux DEF GetsNoConn, get_conn_no_local_addr, Finish, Go, Agents, Tasks
  <2>2. stage[p] = "gather" /\ pc'[p] # "get"
    BY <1>7, <1>ag, <1>mux DEF GetsNoConn, get_conn_no_local_addr, Finish, Go, AgentHolds,
       Agents, Tasks
  <2>3. UNCHANGED <<conns, conn_closed, target, held, heard, served>>
        /\ stage' = [stage EXCEPT ![p] = "ended"]
        /\ \A c \in Conns : pc'[c] = pc[c] /\ arg'[c] = arg[c]
    BY <1>7, <1>mux DEF GetsNoConn, get_conn_no_local_addr, Finish, Go, Agents, Tasks
  <2>4. EndpointTypeOK' /\ AgentHolds'
    BY <1>ag, <2>1, <2>2, <2>3 DEF EndpointTypeOK, AgentHolds
  <2>5. HeldListed'
    BY <1>ag, <2>3 DEF HeldListed, Open
  <2> QED  BY <2>4, <2>5
<1>8. ASSUME NEW p \in Agents, AgentSends(p)
      PROVE  EndpointTypeOK' /\ AgentHolds' /\ HeldListed'
  BY <1>8, <1>ag, AgentsAlone DEF AgentSends, SendTo, EndpointTypeOK
<1>9. ASSUME NEW c \in Conns, CandidateCloses(c) \/ Watches(c)
      PROVE  EndpointTypeOK' /\ AgentHolds' /\ HeldListed'
  <2>1. EndpointTypeOK' /\ UNCHANGED <<stage, target, held>>
    BY <1>9, <1>ag DEF CandidateCloses, Watches, EndpointTypeOK
  <2>2. CASE OwnerCloses(c)
    BY <1>ag, <1>mux, <2>1, <2>2
    DEF OwnerCloses, CloseConn, AgentHolds, HeldListed, Open, EndpointTypeOK
  <2>3. \A p \in Agents : pc'[p] = pc[p] /\ arg'[p] = arg[p]
    BY <1>9, <1>mux DEF CandidateCloses, OwnerCloses, Watches, WatcherStep,
       close_rx_changed,
       RemoveStep, remove_from_conns, remove_from_address_map, Finish, Go, Agents, Tasks
  <2>4. AgentHolds'
    BY <1>ag, <2>1, <2>3 DEF AgentHolds
  <2>5. CASE close_rx_changed(c) \/ remove_from_address_map(c)
    <3>1. /\ UNCHANGED <<conns, conn_closed>>
          /\ \A d \in Conns : /\ pc'[d] \in {"watching", "remove"}
                                  => pc[d] \in {"watching", "remove"} /\ arg'[d] = arg[d]
                              /\ pc'[d] = "remove" => pc[d] = "remove" \/ conn_closed[d]
      BY <1>mux, <2>5 DEF close_rx_changed, remove_from_address_map, Finish, Go, Tasks
    <3>2. HeldListed'
      BY <1>ag, <2>1, <3>1 DEF HeldListed, Open
    <3> QED  BY <2>1, <2>4, <3>2
  <2>6. CASE remove_from_conns(c)
    <3>1. conns[Own] = c /\ arg[c] = Own /\ conn_closed[c] /\ UNCHANGED conn_closed
      BY <1>ag, <2>6 DEF remove_from_conns, HeldListed
    <3>2. \A d \in Conns : pc'[d] \notin {"watching", "remove"}
      <4>1. \A d \in Conns \ {c} : pc[d] \notin {"watching", "remove"} /\ pc'[d] = pc[d]
        BY <1>ag, <1>mux, <2>6, <3>1 DEF remove_from_conns, Finish, Go, HeldListed, Tasks
      <4>2. pc'[c] \in {"done", "purge"}
        BY <1>mux, <2>6 DEF remove_from_conns, Finish, Go, Tasks
      <4> QED  BY <4>1, <4>2
    <3>3. \A p \in Agents : ~Open(p)'
      BY <1>ag, <2>1, <3>1 DEF HeldListed, Open
    <3>4. HeldListed'
      BY <3>2, <3>3 DEF HeldListed
    <3> QED  BY <2>1, <2>4, <3>4
  <2> QED  BY <1>9, <2>2, <2>5, <2>6 DEF CandidateCloses, Watches, WatcherStep, RemoveStep
<1>10. ASSUME NEW a \in Addrs, PeerSends(a)
       PROVE  EndpointTypeOK' /\ AgentHolds' /\ HeldListed'
  BY <1>10, <1>ag, AgentsAlone DEF PeerSends, recv_from, EndpointTypeOK
<1>11. CASE Delivers
  <2>1. waddr \in Addrs
    BY <1>11 DEF Delivers, write_packet, EndpointInv, TypeInv, WorkerHolds
  <2> QED  BY <1>11, <1>ag, <2>1, AgentsAlone DEF Delivers, write_packet, EndpointTypeOK
<1>12. CASE WorkerGoesOn
  BY <1>12, <1>ag, AgentsAlone DEF WorkerGoesOn, conn_from_stun_message, not_reported,
     try_send_fails, try_send, insert_new_addr, EndpointTypeOK
<1>13. ASSUME NEW c \in Conns, NEW a \in Addrs, Registers(c, a)
       PROVE  EndpointTypeOK' /\ AgentHolds' /\ HeldListed'
  BY <1>13, <1>ag, AgentsAlone DEF Registers, RegisterStep, register_is_closed,
     register_conn_for_address,
     register_new_addrs, EndpointTypeOK
<1>14. CASE UNCHANGED allVars
  BY <1>14, <1>ag, AgentsAlone DEF allVars, muxVars, vars, EndpointTypeOK
<1> QED
  BY <1>2, <1>3, <1>4, <1>5, <1>6, <1>7, <1>8, <1>9, <1>10, <1>11, <1>12, <1>13, <1>14
  DEF EndpointNext, GetsConn

(* The invariant holds in every reachable state of a transport.            *)
THEOREM EndpointInvHolds == EndpointSpec => []EndpointInv
BY InitEndpointInv, NextEndpointInv, PTL DEF EndpointSpec

(* The variables of the agents have their types in every transport.        *)
THEOREM EndpointTypeCorrect == EndpointSpec => []EndpointTypeOK
<1>1. EndpointInv => EndpointTypeOK
  BY DEF EndpointInv
<1> QED  BY <1>1, EndpointInvHolds, PTL

(***************************************************************************)
(* SharedConn: the agents of a transport never have different open conns,  *)
(* for any number of upgrades and dials that call get_conn at once and     *)
(* however often a conn is closed and another one is made.                 *)
(***************************************************************************)
THEOREM AgentsShareConn == EndpointSpec => []SharedConn
<1>1. EndpointInv => SharedConn
  BY DEF EndpointInv, HeldListed, SharedConn
<1> QED  BY <1>1, EndpointInvHolds, PTL

(***************************************************************************)
(* The mux inside a transport behaves as one under arbitrary callers: the  *)
(* composition adds no step that UdpMux does not have.                     *)
(***************************************************************************)
THEOREM EndpointUsesMux == EndpointSpec => Init /\ [][Next]_vars
<1>1. EndpointInit => Init
  BY DEF EndpointInit
<1> QED  BY <1>1, EndpointInvHolds, EndpointStep, PTL DEF EndpointSpec

(***************************************************************************)
(* ImplementsService: upgrades, dials and the listener of a transport see  *)
(* the mux they share as the service of MuxService.                        *)
(***************************************************************************)
THEOREM TransportRefinesService == EndpointSpec => ImplementsService
BY EndpointUsesMux, MuxStepsRefineService, PTL

-----------------------------------------------------------------------------
(***************************************************************************)
(* One upgrade for a peer.  What is known of conns and the worker: only a  *)
(* conn that was made is routed to and hears anything, and when the conn   *)
(* of the transport has heard something the worker is past the datagram it *)
(* may have looked up before that conn was made.                           *)
(***************************************************************************)
Reporting == wpc \in {"report", "insert"}

MadeConns ==
  /\ \A a \in Addrs : address_map[a] # None => key[address_map[a]] # None
  /\ wpc = "write" => wconn \in Conns /\ key[wconn] # None
  /\ \A c \in Conns : heard[c] # {} => key[c] # None

ClaimInv ==
  /\ wpc = "by_ufrag" => buffer.local = Own
  /\ conns[Own] # None /\ heard[conns[Own]] # {} => ~Reporting
  /\ \A p \in Agents : stage[p] = "idle" => target[p] = None

(* An upgrade of the address has a conn and no stale report is under way.  *)
Settled(a) == ~Reporting /\ \E p \in Agents : Upgrading(p, a) /\ held[p] # None

Queued(a) == \E i \in DOMAIN new_addr_ch : new_addr_ch[i].addr = a

Upgraded(a) == \E p \in Agents : Upgrading(p, a)

Dialed(a) == \E d \in Dialers : target[d] = a

LapsedPeer(a) == \E p \in Agents : Upgrading(p, a) /\ Lapsed(p)

Excused(a) == Dialed(a) \/ LapsedPeer(a)

(***************************************************************************)
(* What is known of an address that nobody dials and whose upgrades have   *)
(* open conns: it is registered, and so no longer remembered as reported,  *)
(* only when it is settled.  Until then it waits in the channel or has its *)
(* upgrade, once.                                                          *)
(***************************************************************************)
OnePlace(a) ==
  /\ \A c \in Conns : register[<<c, a>>] # "idle" => Settled(a)
  /\ Queued(a) \/ Upgraded(a) => a \in reported \/ Settled(a)
  /\ Queued(a) => ~Upgraded(a)
  /\ \A i, j \in DOMAIN new_addr_ch :
       new_addr_ch[i].addr = a /\ new_addr_ch[j].addr = a => i = j
  /\ \A p, q \in Agents : Upgrading(p, a) /\ Upgrading(q, a) => p = q

PeerInv == \A a \in Addrs : ~Excused(a) => OnePlace(a)

UpgradeInv == EndpointInv /\ Seen /\ MadeConns /\ ClaimInv /\ PeerInv

(* A peer's datagram is a STUN message that names the transport.           *)
LEMMA PeerDatagram ==
  ASSUME NEW a \in Addrs, PeerSends(a)
  PROVE  /\ wpc = "recv" /\ buffer'.local = Own
         /\ wpc' = IF address_map[a] # None THEN "write" ELSE "by_ufrag"
<1> DEFINE d == [local |-> Own, remote |-> PeerFp[a]]
<1>1. d \in Stun /\ d # Short /\ d.local = Own
  BY EndpointAssumption, UdpMuxAssumption DEF Stun
<1>2. recv_from(a, d)
  BY DEF PeerSends
<1>3. buffer' = d /\ is_stun_message(buffer')
  BY <1>1, <1>2 DEF recv_from, AfterRecv, is_stun_message
<1> QED  BY <1>1, <1>2, <1>3 DEF recv_from

(* An agent that has not begun has no address.                             *)
LEMMA IdleAgents ==
  ASSUME EndpointInv, ClaimInv, [EndpointNext]_allVars, NEW q \in Agents, stage'[q] = "idle"
  PROVE  target'[q] = None
<1> USE DEF agentVars
<1>1. EndpointTypeOK /\ AgentHolds /\ (stage[q] = "idle" => target[q] = None)
  BY DEF EndpointInv, ClaimInv
<1> SUFFICES stage[q] = "idle" /\ target'[q] = target[q]
  BY <1>1
<1>2. ASSUME NEW p \in Agents, NEW a, StartAgent(p, a)
      PROVE  stage[q] = "idle" /\ target'[q] = target[q]
  BY <1>1, <1>2 DEF StartAgent, EndpointTypeOK
<1>3. ASSUME NEW p \in Agents, GetsConn(p) \/ GetsNoConn(p)
      PROVE  stage[q] = "idle" /\ target'[q] = target[q]
  BY <1>1, <1>3 DEF GetsConn, GotConn, GetsNoConn, EndpointTypeOK
<1>4. CASE UNCHANGED <<stage, target>>
  BY <1>4
<1> QED
  BY <1>2, <1>3, <1>4 DEF EndpointNext, ListenerUpgrade, dial, Gather, AgentSends,
     PeerSends,
     Delivers, WorkerGoesOn, Registers, CandidateCloses, Watches, allVars

(* An agent that has an address or a conn keeps it.                        *)
LEMMA AgentsKeep ==
  ASSUME EndpointInv, ClaimInv, [EndpointNext]_allVars, NEW p \in Agents
  PROVE  /\ target[p] # None => target'[p] = target[p]
         /\ held[p] # None => held'[p] = held[p]
<1> USE DEF agentVars
<1>1. EndpointTypeOK /\ AgentHolds /\ (stage[p] = "idle" => target[p] = None)
  BY DEF EndpointInv, ClaimInv
<1>2. ASSUME NEW q \in Agents, NEW a, StartAgent(q, a)
      PROVE  UNCHANGED held /\ (target[p] # None => target'[p] = target[p])
  BY <1>1, <1>2 DEF StartAgent, EndpointTypeOK
<1>3. ASSUME NEW q \in Agents, GetsConn(q)
      PROVE  UNCHANGED target /\ (held[p] # None => held'[p] = held[p])
  <2>1. held[q] = None
    BY <1>1, <1>3 DEF GetsConn, get_conn_existing, get_conn_create, Finish, Go, AgentHolds
  <2> QED  BY <1>1, <1>3, <2>1 DEF GetsConn, GotConn, EndpointTypeOK
<1>4. CASE UNCHANGED <<target, held>>
  BY <1>4
<1> QED
  BY <1>2, <1>3, <1>4 DEF EndpointNext, ListenerUpgrade, dial, Gather, GetsNoConn,
     AgentSends,
     PeerSends, Delivers, WorkerGoesOn, Registers, CandidateCloses, Watches, allVars

(* A conn that was made keeps its ufrag, and one that is closed stays so.  *)
LEMMA ConnsKeep ==
  ASSUME EndpointInv, [EndpointNext]_allVars, NEW c \in Conns
  PROVE  /\ key[c] # None => key'[c] = key[c]
         /\ conn_closed[c] => conn_closed'[c]
<1> USE DEF taskVars, connVars, chanVars, workerVars, agentVars
<1>1. key \in [Conns -> Ufrags \cup {None}] /\ conn_closed \in [Conns -> BOOLEAN]
  BY DEF EndpointInv, TypeInv, TypeOK
<1>2. ASSUME NEW p \in Agents,
             \/ ListenerUpgrade(p) \/ Gather(p) \/ GetsConn(p) \/ GetsNoConn(p)
             \/ AgentSends(p) \/ \E a \in DialAddrs : dial(p, a)
      PROVE  UNCHANGED conn_closed /\ (key[c] # None => key'[c] = key[c])
  BY <1>1, <1>2 DEF ListenerUpgrade, TakeNewAddr, Gather, get_conn, GetsConn,
     get_conn_existing, get_conn_create, create_muxed_conn, GetsNoConn,
     get_conn_no_local_addr, AgentSends, SendTo, dial, muxVars, vars
<1>3. ASSUME NEW d \in Conns, CandidateCloses(d) \/ Watches(d)
      PROVE  UNCHANGED key /\ (conn_closed[c] => conn_closed'[c])
  BY <1>1, <1>3 DEF CandidateCloses, OwnerCloses, CloseConn, Watches, WatcherStep,
     close_rx_changed, RemoveStep, remove_from_conns, remove_from_address_map
<1>4. CASE UNCHANGED <<key, conn_closed>>
  BY <1>4
<1>5. CASE Delivers \/ WorkerGoesOn \/ \E a \in Addrs : PeerSends(a)
  BY <1>5 DEF Delivers, write_packet, WorkerGoesOn, conn_from_stun_message, not_reported,
     try_send_fails, try_send, insert_new_addr, PeerSends, recv_from
<1>6. CASE \E d \in Conns, a \in Addrs : Registers(d, a)
  BY <1>6 DEF Registers, RegisterStep, register_is_closed,
     register_conn_for_address, register_new_addrs
<1>7. CASE UNCHANGED allVars
  BY <1>7 DEF allVars, muxVars, vars
<1> QED  BY <1>2, <1>3, <1>4, <1>5, <1>6, <1>7 DEF EndpointNext

(* A dial, or an upgrade whose conn was closed, stays what it is.          *)
LEMMA ExcusedStays ==
  ASSUME EndpointInv, ClaimInv, [EndpointNext]_allVars, NEW a \in Addrs, Excused(a)
  PROVE  Excused(a)'
<1>0. a # None /\ Dialers \subseteq Agents
  BY UdpMuxAssumption, EndpointAssumption
<1>1. CASE Dialed(a)
  BY <1>0, <1>1, AgentsKeep DEF Dialed, Excused
<1>2. CASE LapsedPeer(a)
  <2>1. PICK p \in Agents : Upgrading(p, a) /\ Lapsed(p)
    BY <1>2 DEF LapsedPeer
  <2>2. held[p] \in Conns
    BY <2>1 DEF Lapsed, EndpointInv, EndpointTypeOK
  <2>3. Upgrading(p, a)' /\ held'[p] = held[p] /\ held[p] # None
    BY <1>0, <2>1, AgentsKeep DEF Upgrading, Lapsed
  <2>4. Lapsed(p)'
    BY <2>1, <2>2, <2>3, ConnsKeep DEF Lapsed
  <2> QED  BY <2>3, <2>4 DEF LapsedPeer, Excused
<1> QED  BY <1>1, <1>2 DEF Excused

(* Every step keeps MadeConns.                                             *)
LEMMA NextMadeConns ==
  EndpointInv /\ Seen /\ MadeConns /\ [EndpointNext]_allVars => MadeConns'
<1> SUFFICES ASSUME EndpointInv, Seen, MadeConns, [EndpointNext]_allVars PROVE MadeConns'
  OBVIOUS
<1> USE UdpMuxAssumption DEF taskVars, connVars, chanVars, workerVars, agentVars
<1>ty. /\ address_map \in [Addrs -> Conns \cup {None}]
       /\ conns \in [Ufrags -> Conns \cup {None}]
       /\ heard \in [Conns -> SUBSET Addrs]
       /\ key \in [Conns -> Ufrags \cup {None}]
  BY DEF EndpointInv, TypeInv, TypeOK, EndpointTypeOK
<1>key. \A c \in Conns : key[c] # None => key'[c] # None
  BY ConnsKeep
<1>1. ASSUME UNCHANGED <<wpc, wconn, heard>>,
             \A a \in Addrs : address_map'[a] \in {address_map[a], None}
      PROVE  MadeConns'
  BY <1>1, <1>key, <1>ty DEF MadeConns
<1>2. ASSUME NEW p \in Agents,
             \/ ListenerUpgrade(p) \/ Gather(p) \/ GetsConn(p) \/ GetsNoConn(p)
             \/ AgentSends(p) \/ \E a \in DialAddrs : dial(p, a)
      PROVE  MadeConns'
  BY <1>1, <1>2 DEF ListenerUpgrade, TakeNewAddr, StartAgent, Gather, get_conn, GetsConn,
     GotConn, get_conn_existing, get_conn_create, GetsNoConn, get_conn_no_local_addr,
     AgentSends, SendTo, dial, muxVars, vars
<1>3. ASSUME NEW a \in Addrs, PeerSends(a) PROVE MadeConns'
  BY <1>3, <1>ty DEF PeerSends, recv_from, MadeConns
<1>4. CASE Delivers
  <2>1. wpc = "write" /\ wpc' = "recv" /\ UNCHANGED <<address_map, key>>
        /\ heard' = [heard EXCEPT ![wconn] = @ \cup {waddr}]
    BY <1>4 DEF Delivers, write_packet, WorkerTurns
  <2> QED  BY <1>ty, <2>1 DEF MadeConns
<1>5. CASE WorkerGoesOn
  <2>1. CASE conn_from_stun_message
    <3>1. buffer.local \in Ufrags
      BY <2>1 DEF conn_from_stun_message, EndpointInv, TypeInv, WorkerHolds, Stun
    <3>2. /\ UNCHANGED <<address_map, key, heard>> /\ wconn' = conns[buffer.local]
          /\ wpc' = IF wconn' = None THEN "report" ELSE "write"
      BY <1>5, <2>1 DEF WorkerGoesOn, conn_from_stun_message
    <3> QED  BY <1>ty, <3>1, <3>2 DEF MadeConns, Seen, ConnsKeyed
  <2>2. CASE ~conn_from_stun_message
    <3>1. UNCHANGED <<address_map, key, heard>> /\ wpc' # "write"
      BY <1>5, <2>2 DEF WorkerGoesOn, not_reported, try_send_fails, try_send,
         insert_new_addr,
         WorkerTurns
    <3> QED  BY <3>1 DEF MadeConns
  <2> QED  BY <2>1, <2>2
<1>6. ASSUME NEW c \in Conns, NEW a \in Addrs, Registers(c, a) PROVE MadeConns'
  <2>1. UNCHANGED <<wpc, wconn, heard, key>> /\ key[c] # None
    BY <1>6 DEF Registers, RegisterStep, register_is_closed,
       register_conn_for_address, register_new_addrs, Seen,
       RegisterKeyed
  <2>2. \A b \in Addrs : address_map'[b] \in {address_map[b], c}
    BY <1>6, <1>ty DEF Registers, RegisterStep, register_is_closed,
       register_conn_for_address, register_new_addrs
  <2> QED  BY <1>ty, <2>1, <2>2 DEF MadeConns
<1>7. ASSUME NEW c \in Conns, CandidateCloses(c) \/ Watches(c) PROVE MadeConns'
  BY <1>1, <1>7, <1>ty DEF CandidateCloses, OwnerCloses, Watches, WatcherStep,
     close_rx_changed,
     RemoveStep, remove_from_conns, remove_from_address_map
<1>8. CASE UNCHANGED allVars
  BY <1>1, <1>8 DEF allVars, muxVars, vars
<1> QED  BY <1>2, <1>3, <1>4, <1>5, <1>6, <1>7, <1>8 DEF EndpointNext

(* Every step keeps ClaimInv.                                              *)
LEMMA NextClaimInv ==
  EndpointInv /\ MadeConns /\ ClaimInv /\ [EndpointNext]_allVars => ClaimInv'
<1> SUFFICES ASSUME EndpointInv, MadeConns, ClaimInv, [EndpointNext]_allVars PROVE ClaimInv'
  OBVIOUS
<1> USE DEF taskVars, connVars, chanVars, workerVars, agentVars
<1>ag. \A p \in Agents : stage'[p] = "idle" => target'[p] = None
  BY IdleAgents
<1>inv. /\ conns \in [Ufrags -> Conns \cup {None}] /\ None \notin Conns /\ Own \in Ufrags
        /\ heard \in [Conns -> SUBSET Addrs] /\ AgentHolds
  BY UdpMuxAssumption, EndpointAssumption DEF EndpointInv, TypeInv, TypeOK, EndpointTypeOK
<1>1. ASSUME UNCHANGED <<wpc, buffer, heard>>, conns'[Own] \in {conns[Own], None}
      PROVE  ClaimInv'
  BY <1>ag, <1>1 DEF ClaimInv, Reporting
<1>2. ASSUME NEW p \in Agents,
             \/ ListenerUpgrade(p) \/ Gather(p) \/ GetsNoConn(p) \/ AgentSends(p)
             \/ get_conn_existing(p) /\ GotConn(p, conns[Own])
             \/ \E a \in DialAddrs : dial(p, a)
      PROVE  ClaimInv'
  BY <1>1, <1>2 DEF ListenerUpgrade, TakeNewAddr, StartAgent, Gather, get_conn, GotConn,
     get_conn_existing, GetsNoConn, get_conn_no_local_addr, AgentSends, SendTo, dial, muxVars, vars
<1>3. ASSUME NEW p \in Agents, NEW c \in Conns, get_conn_create(p, c), GotConn(p, c)
      PROVE  ClaimInv'
  <2>1. /\ conns'[Own] = c /\ heard[c] = {} /\ UNCHANGED <<wpc, buffer, heard>>
    BY <1>3, <1>inv DEF get_conn_create, create_muxed_conn, GotConn, AgentHolds, MadeConns
  <2> QED  BY <1>ag, <2>1 DEF ClaimInv
<1>4. ASSUME NEW a \in Addrs, PeerSends(a) PROVE ClaimInv'
  <2>1. UNCHANGED <<conns, heard>> /\ buffer'.local = Own /\ wpc' \in {"write", "by_ufrag"}
    BY <1>4, PeerDatagram DEF PeerSends, recv_from
  <2> QED  BY <1>ag, <2>1 DEF ClaimInv, Reporting
<1>5. CASE Delivers
  BY <1>5, <1>ag DEF Delivers, write_packet, WorkerTurns, ClaimInv, Reporting
<1>6. CASE WorkerGoesOn
  <2>1. UNCHANGED <<conns, heard, buffer>> /\ wpc' # "by_ufrag"
    BY <1>6 DEF WorkerGoesOn, conn_from_stun_message, not_reported, try_send_fails,
       try_send,
       insert_new_addr, WorkerTurns
  <2>2. Reporting' => Reporting \/ conns[Own] = None
    BY <1>6 DEF WorkerGoesOn, conn_from_stun_message, not_reported, try_send_fails,
       try_send,
       Reportable, insert_new_addr, WorkerTurns, ClaimInv, Reporting
  <2> QED  BY <1>ag, <2>1, <2>2 DEF ClaimInv
<1>7. ASSUME NEW c \in Conns, NEW a \in Addrs, Registers(c, a) PROVE ClaimInv'
  BY <1>1, <1>7 DEF Registers, RegisterStep, register_is_closed,
     register_conn_for_address, register_new_addrs
<1>8. ASSUME NEW c \in Conns, CandidateCloses(c) \/ Watches(c) PROVE ClaimInv'
  BY <1>1, <1>8, <1>inv DEF CandidateCloses, OwnerCloses, Watches, WatcherStep,
     close_rx_changed, RemoveStep, remove_from_conns, remove_from_address_map
<1>9. CASE UNCHANGED allVars
  BY <1>1, <1>9 DEF allVars, muxVars, vars
<1> QED
  BY <1>2, <1>3, <1>4, <1>5, <1>6, <1>7, <1>8, <1>9 DEF EndpointNext, GetsConn

(* What is settled stays settled while no conn of the peer's is closed.    *)
LEMMA SettledStays ==
  ASSUME EndpointInv, ClaimInv, [EndpointNext]_allVars, NEW a \in Addrs, ~Excused(a),
         Settled(a)
  PROVE  Settled(a)'
<1> USE DEF taskVars, connVars, chanVars, workerVars, agentVars
<1>1. PICK p \in Agents : Upgrading(p, a) /\ held[p] # None
  BY DEF Settled
<1>2. Upgrading(p, a)' /\ held'[p] # None
  BY <1>1, AgentsKeep, UdpMuxAssumption DEF Upgrading
<1>3. conns[Own] # None
  BY <1>1 DEF Excused, LapsedPeer, Lapsed, Open, EndpointInv, HeldListed
<1>4. ~Reporting'
  <2>1. CASE UNCHANGED wpc
    BY <2>1 DEF Settled, Reporting
  <2>2. ASSUME NEW q \in Agents,
               \/ ListenerUpgrade(q) \/ Gather(q) \/ GetsConn(q) \/ GetsNoConn(q)
               \/ AgentSends(q) \/ \E b \in DialAddrs : dial(q, b)
        PROVE  UNCHANGED wpc
    BY <2>2 DEF ListenerUpgrade, TakeNewAddr, Gather, get_conn, GetsConn,
       get_conn_existing,
       get_conn_create, GetsNoConn, get_conn_no_local_addr, AgentSends, SendTo, dial,
       muxVars, vars
  <2>3. ASSUME NEW b \in Addrs, PeerSends(b) PROVE ~Reporting'
    BY <2>3, PeerDatagram DEF Reporting
  <2>4. CASE Delivers \/ WorkerGoesOn
    BY <1>3, <2>4 DEF Delivers, write_packet, WorkerGoesOn, conn_from_stun_message,
       not_reported,
       try_send_fails, try_send, Reportable, insert_new_addr, WorkerTurns, Settled, ClaimInv,
       Reporting
  <2>5. CASE \E c \in Conns, b \in Addrs : Registers(c, b)
    BY <2>1, <2>5 DEF Registers, RegisterStep, register_is_closed,
       register_conn_for_address, register_new_addrs
  <2>6. CASE \E c \in Conns : CandidateCloses(c) \/ Watches(c)
    BY <2>1, <2>6 DEF CandidateCloses, OwnerCloses, Watches, WatcherStep,
       close_rx_changed,
       RemoveStep, remove_from_conns, remove_from_address_map
  <2>7. CASE UNCHANGED allVars
    BY <2>1, <2>7 DEF allVars, muxVars, vars
  <2> QED  BY <2>1, <2>2, <2>3, <2>4, <2>5, <2>6, <2>7 DEF EndpointNext
<1> QED  BY <1>2, <1>4 DEF Settled

(* An address keeps its place when neither the channel, the reports, the   *)
(* registrations of it nor its upgrades change.                            *)
LEMMA PlaceKept ==
  ASSUME NEW a \in Addrs, OnePlace(a), Settled(a) => Settled(a)',
         UNCHANGED new_addr_ch,
         \A p \in Agents : Upgrading(p, a)' <=> Upgrading(p, a),
         \A c \in Conns : register'[<<c, a>>] # "idle" => register[<<c, a>>] # "idle" \/ Settled(a)',
         a \in reported => a \in reported' \/ Settled(a)'
  PROVE  OnePlace(a)'
BY DEF OnePlace, Queued, Upgraded

(* The addresses in a channel after a report and after a receive.          *)
LEMMA QueueAppend ==
  ASSUME NEW q \in Seq([addr : Addrs, ufrag : Ufrags]),
         NEW r \in [addr : Addrs, ufrag : Ufrags], NEW a
  PROVE  \A i \in DOMAIN Append(q, r) :
           Append(q, r)[i].addr = a <=> \/ i \in DOMAIN q /\ q[i].addr = a
                                        \/ i = Len(q) + 1 /\ r.addr = a
<1>1. /\ Len(q) \in Nat /\ DOMAIN q = 1..Len(q) /\ DOMAIN Append(q, r) = 1..(Len(q) + 1)
      /\ Append(q, r)[Len(q) + 1] = r /\ \A i \in 1..Len(q) : Append(q, r)[i] = q[i]
  BY AppendProperties, LenProperties
<1> QED  BY <1>1

LEMMA QueueTail ==
  ASSUME NEW q \in Seq([addr : Addrs, ufrag : Ufrags]), q # <<>>
  PROVE  /\ 1 \in DOMAIN q /\ Head(q) = q[1]
         /\ \A i \in DOMAIN Tail(q) : /\ i \in Nat /\ i + 1 \in DOMAIN q /\ i + 1 # 1
                                      /\ Tail(q)[i] = q[i + 1]
<1>1. /\ Len(q) \in Nat \ {0} /\ DOMAIN q = 1..Len(q) /\ DOMAIN Tail(q) = 1..(Len(q) - 1)
      /\ Head(q) = q[1] /\ \A i \in 1..(Len(q) - 1) : Tail(q)[i] = q[i + 1]
  BY HeadTailProperties, LenProperties
<1> QED  BY <1>1

(* The worker reports an address only when it has no place yet.            *)
LEMMA ReportPlace ==
  ASSUME EndpointInv, ReportedListed, NEW a \in Addrs, OnePlace(a), try_send,
         UNCHANGED agentVars
  PROVE  OnePlace(a)'
<1> DEFINE r == [addr |-> waddr, ufrag |-> buffer.remote]
<1>1. /\ wpc = "report" /\ waddr \notin new_addrs /\ new_addr_ch' = Append(new_addr_ch, r)
      /\ reported' = reported \cup {waddr} /\ UNCHANGED <<register, target>>
  BY DEF try_send, Reportable, agentVars
<1>2. r \in [addr : Addrs, ufrag : Ufrags] /\ new_addr_ch \in Seq([addr : Addrs, ufrag : Ufrags])
  BY DEF EndpointInv, TypeInv, TypeOK, WorkerHolds, try_send, Reportable,
     is_stun_message, Stun
<1>3. ~Settled(a) /\ waddr \notin reported
  BY <1>1 DEF Settled, Reporting, ReportedListed
<1>4. Len(new_addr_ch) \in Nat /\ DOMAIN new_addr_ch = 1..Len(new_addr_ch)
  BY <1>2, LenProperties
<1>5. \A i \in DOMAIN new_addr_ch' :
        new_addr_ch'[i].addr = a <=> \/ i \in DOMAIN new_addr_ch /\ new_addr_ch[i].addr = a
                                     \/ i = Len(new_addr_ch) + 1 /\ waddr = a
  BY <1>1, <1>2, QueueAppend
<1>6. Upgraded(a)' <=> Upgraded(a)
  BY <1>1 DEF Upgraded, Upgrading
<1>7. \A p, q \in Agents : Upgrading(p, a)' /\ Upgrading(q, a)' => p = q
  BY <1>1 DEF OnePlace, Upgrading
<1>8. \A c \in Conns : register'[<<c, a>>] = "idle"
  BY <1>1, <1>3 DEF OnePlace
<1>9. CASE waddr = a
  <2>1. ~Queued(a) /\ ~Upgraded(a)
    BY <1>3, <1>9 DEF OnePlace
  <2>2. \A i \in DOMAIN new_addr_ch' : new_addr_ch'[i].addr = a => i = Len(new_addr_ch) + 1
    BY <1>5, <2>1 DEF Queued
  <2>3. a \in reported' /\ ~Upgraded(a)'
    BY <1>1, <1>6, <1>9, <2>1
  <2> QED  BY <1>7, <1>8, <2>2, <2>3 DEF OnePlace
<1>10. CASE waddr # a
  <2>1. Queued(a)' => Queued(a)
    BY <1>5, <1>10 DEF Queued
  <2>2. \A i, j \in DOMAIN new_addr_ch' :
          new_addr_ch'[i].addr = a /\ new_addr_ch'[j].addr = a => i = j
    BY <1>5, <1>10 DEF OnePlace
  <2>3. a \in reported => a \in reported'
    BY <1>1
  <2> QED  BY <1>3, <1>6, <1>7, <1>8, <2>1, <2>2, <2>3 DEF OnePlace
<1> QED  BY <1>9, <1>10

(* The listener moves an address from the channel to an upgrade.           *)
LEMMA UpgradePlace ==
  ASSUME EndpointInv, ClaimInv, NEW a \in Addrs, OnePlace(a), NEW p \in Agents,
         ListenerUpgrade(p), Settled(a) => Settled(a)'
  PROVE  OnePlace(a)'
<1> DEFINE h == Head(new_addr_ch).addr
<1>1. /\ new_addr_ch \in Seq([addr : Addrs, ufrag : Ufrags]) /\ new_addr_ch # <<>>
      /\ new_addr_ch' = Tail(new_addr_ch) /\ UNCHANGED <<register, reported>>
  BY DEF ListenerUpgrade, TakeNewAddr, EndpointInv, TypeInv, TypeOK
<1>2. /\ p \notin Dialers /\ stage[p] = "idle" /\ target[p] = None
      /\ target \in [Agents -> Addrs \cup {None}]
      /\ target' = [target EXCEPT ![p] = h]
  BY DEF ListenerUpgrade, StartAgent, ClaimInv, EndpointInv, EndpointTypeOK
<1>3. /\ 1 \in DOMAIN new_addr_ch /\ Head(new_addr_ch) = new_addr_ch[1]
      /\ \A i \in DOMAIN new_addr_ch' :
           /\ i \in Nat /\ i + 1 \in DOMAIN new_addr_ch /\ i + 1 # 1
           /\ new_addr_ch'[i] = new_addr_ch[i + 1]
  BY <1>1, QueueTail
<1>4. a # None
  BY UdpMuxAssumption
<1>5. \A c \in Conns : register'[<<c, a>>] # "idle" => Settled(a)'
  BY <1>1 DEF OnePlace
<1>6. \A i, j \in DOMAIN new_addr_ch' :
        new_addr_ch'[i].addr = a /\ new_addr_ch'[j].addr = a => i = j
  <2> SUFFICES ASSUME NEW i \in DOMAIN new_addr_ch', NEW j \in DOMAIN new_addr_ch',
                      new_addr_ch'[i].addr = a, new_addr_ch'[j].addr = a
               PROVE  i = j
    OBVIOUS
  <2>1. i + 1 = j + 1
    BY <1>3 DEF OnePlace
  <2> QED  BY <1>3, <2>1
<1>7. Queued(a)' => Queued(a)
  BY <1>3 DEF Queued
<1>8. CASE h = a
  <2>1. Queued(a) /\ ~Upgraded(a)
    BY <1>3, <1>8 DEF Queued, OnePlace
  <2>2. ~Queued(a)'
    BY <1>3, <1>8 DEF Queued, OnePlace
  <2>3. \A q \in Agents : Upgrading(q, a)' => q = p
    BY <1>2, <2>1 DEF Upgrading, Upgraded
  <2>4. a \in reported' \/ Settled(a)'
    BY <1>1, <2>1 DEF OnePlace
  <2> QED  BY <1>5, <1>6, <2>2, <2>3, <2>4 DEF OnePlace
<1>9. CASE h # a
  <2>1. \A q \in Agents : Upgrading(q, a)' <=> Upgrading(q, a)
    BY <1>2, <1>4, <1>9 DEF Upgrading
  <2>2. Upgraded(a)' <=> Upgraded(a)
    BY <2>1 DEF Upgraded
  <2> QED  BY <1>1, <1>5, <1>6, <1>7, <2>1, <2>2 DEF OnePlace
<1> QED  BY <1>8, <1>9

LEMMA NextPeerInv == UpgradeInv /\ [EndpointNext]_allVars => PeerInv'
<1> SUFFICES ASSUME UpgradeInv, [EndpointNext]_allVars, NEW a \in Addrs, ~Excused(a)'
             PROVE  OnePlace(a)'
  BY DEF PeerInv
<1> USE DEF taskVars, connVars, chanVars, workerVars, agentVars
<1>inv. EndpointInv /\ ReportedListed /\ ClaimInv
  BY DEF UpgradeInv, Seen
<1>a. ~Excused(a) /\ OnePlace(a)
  BY <1>inv, ExcusedStays DEF UpgradeInv, PeerInv
<1>set. Settled(a) => Settled(a)'
  BY <1>inv, <1>a, SettledStays
<1>1. CASE UNCHANGED <<new_addr_ch, target, register, reported>>
  BY <1>1, <1>a, <1>set, PlaceKept DEF Upgrading
<1>2. ASSUME NEW p \in Agents,
             Gather(p) \/ GetsConn(p) \/ GetsNoConn(p)
      PROVE  UNCHANGED <<new_addr_ch, target, register, reported>>
  BY <1>2 DEF Gather, get_conn, GetsConn, GotConn, get_conn_existing, get_conn_create,
     GetsNoConn, get_conn_no_local_addr
<1>3. ASSUME NEW p \in Agents, NEW b \in DialAddrs, dial(p, b) PROVE OnePlace(a)'
  <2>1. UNCHANGED <<new_addr_ch, register, reported>>
    BY <1>3 DEF dial, muxVars, vars
  <2>2. \A q \in Agents : Upgrading(q, a)' <=> Upgrading(q, a)
    BY <1>3, <1>inv DEF dial, StartAgent, Upgrading, EndpointInv, EndpointTypeOK
  <2> QED  BY <1>a, <1>set, <2>1, <2>2, PlaceKept
<1>4. ASSUME NEW p \in Agents, ListenerUpgrade(p) PROVE OnePlace(a)'
  BY <1>4, <1>a, <1>inv, <1>set, UpgradePlace
<1>5. ASSUME NEW p \in Agents, AgentSends(p) PROVE OnePlace(a)'
  <2>1. /\ UNCHANGED <<new_addr_ch, target, reported>> /\ held[p] \in Conns
        /\ p \in Dialers \/ target[p] \in heard[held[p]]
        /\ \A c \in Conns : target[p] # a => register'[<<c, a>>] = register[<<c, a>>]
    BY <1>5, <1>inv DEF AgentSends, SendTo, EndpointInv, AgentHolds, TypeInv, TypeOK
  <2>2. ASSUME target[p] = a PROVE Settled(a)
    <3>1. Upgrading(p, a) /\ ~Lapsed(p) /\ heard[held[p]] # {}
      BY <1>a, <2>1, <2>2 DEF Excused, Dialed, LapsedPeer, Upgrading
    <3>2. held[p] # None /\ conns[Own] = held[p]
      BY <1>inv, <2>1, <3>1, UdpMuxAssumption DEF Lapsed, Open, EndpointInv, HeldListed
    <3> QED  BY <1>inv, <3>1, <3>2 DEF Settled, ClaimInv
  <2>3. target[p] = a => Settled(a)'
    BY <1>set, <2>2
  <2> QED  BY <1>a, <1>set, <2>1, <2>3, PlaceKept DEF Upgrading
<1>6. CASE Delivers \/ \E b \in Addrs : PeerSends(b)
  BY <1>1, <1>6 DEF Delivers, write_packet, PeerSends, recv_from
<1>7. CASE WorkerGoesOn
  <2>1. CASE try_send
    BY <1>7, <1>a, <1>inv, <2>1, ReportPlace DEF WorkerGoesOn
  <2>2. CASE ~try_send
    BY <1>1, <1>7, <2>2 DEF WorkerGoesOn, conn_from_stun_message, not_reported,
       try_send_fails,
       insert_new_addr
  <2> QED  BY <2>1, <2>2
<1>8. ASSUME NEW c \in Conns, NEW b \in Addrs, Registers(c, b) PROVE OnePlace(a)'
  <2>1. /\ UNCHANGED <<new_addr_ch, target>> /\ register[<<c, b>>] # "idle"
        /\ reported \ {b} \subseteq reported'
        /\ \A e \in Conns : register'[<<e, a>>] # "idle" => register[<<e, a>>] # "idle"
    BY <1>8, <1>inv DEF Registers, RegisterStep, register_is_closed,
       register_conn_for_address, register_new_addrs,
       EndpointInv, TypeInv, TypeOK
  <2>2. a = b => Settled(a)'
    BY <1>a, <1>set, <2>1 DEF OnePlace
  <2> QED  BY <1>a, <1>set, <2>1, <2>2, PlaceKept DEF Upgrading
<1>9. CASE \E c \in Conns : CandidateCloses(c) \/ Watches(c)
  BY <1>1, <1>9 DEF CandidateCloses, OwnerCloses, Watches, WatcherStep, close_rx_changed,
     RemoveStep, remove_from_conns, remove_from_address_map
<1>10. CASE UNCHANGED allVars
  BY <1>1, <1>10 DEF allVars, muxVars, vars
<1> QED  BY <1>1, <1>2, <1>3, <1>4, <1>5, <1>6, <1>7, <1>8, <1>9, <1>10 DEF EndpointNext

(***************************************************************************)
(* OneUpgradePerPeer: for any number of peers, upgrades, dials and slots   *)
(* of the channel, a peer that nobody dials gets a second upgrade only     *)
(* after the conn of one of its upgrades was closed.                       *)
(***************************************************************************)
THEOREM OneUpgrade == EndpointSpec => []OneUpgradePerPeer
<1>1. EndpointInit => UpgradeInv
  <2> SUFFICES ASSUME EndpointInit PROVE Seen /\ MadeConns /\ ClaimInv /\ PeerInv
    BY InitEndpointInv DEF UpgradeInv
  <2>1. Seen
    BY InitTypeInv, UdpMuxAssumption
    DEF EndpointInit, Init, Seen, ConnsKeyed, ReportedListed, RegisterKeyed
  <2>2. MadeConns /\ ClaimInv
    <3>1. conns[Own] = None
      BY EndpointAssumption DEF EndpointInit, Init
    <3> QED  BY <3>1 DEF EndpointInit, Init, MadeConns, ClaimInv
  <2>3. \A p \in Agents, a \in Addrs : target[p] # a
    BY UdpMuxAssumption DEF EndpointInit
  <2>4. DOMAIN new_addr_ch = {} /\ \A c \in Conns, a \in Addrs : register[<<c, a>>] = "idle"
    BY DEF EndpointInit, Init
  <2>5. PeerInv
    BY <2>3, <2>4 DEF PeerInv, OnePlace, Queued, Upgraded, Upgrading
  <2> QED  BY <2>1, <2>2, <2>5
<1>2. UpgradeInv /\ [EndpointNext]_allVars => UpgradeInv'
  <2> SUFFICES ASSUME UpgradeInv, [EndpointNext]_allVars PROVE UpgradeInv'
    OBVIOUS
  <2>1. Seen'
    BY EndpointStep, NextTypeInv, NextConnsKeyed, NextReportedListed, NextRegisterKeyed
    DEF UpgradeInv, Seen
  <2> QED
    BY <2>1, NextEndpointInv, NextMadeConns, NextClaimInv, NextPeerInv DEF UpgradeInv
<1>3. UpgradeInv => OneUpgradePerPeer
  BY EndpointAssumption DEF UpgradeInv, PeerInv, OnePlace, OneUpgradePerPeer,
     Excused, Dialed, LapsedPeer,
     Upgrading
<1> QED  BY <1>1, <1>2, <1>3, PTL DEF EndpointSpec
=============================================================================
