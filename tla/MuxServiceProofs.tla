-------------------------- MODULE MuxServiceProofs --------------------------
(***************************************************************************)
(* UdpMux implements MuxService: every step of the worker, of a task or of *)
(* a registration is one step of the service or changes nothing in it.     *)
(***************************************************************************)
EXTENDS UdpMuxProofs

USE DEF Tasks

(* Only a conn that was created registers addresses.                       *)
RegisterKeyed ==
  \A c \in Conns, a \in Addrs : register[<<c, a>>] # "idle" => key[c] # None

(* Every step keeps RegisterKeyed: a conn keeps its ufrag.                 *)
LEMMA NextRegisterKeyed ==
  TypeInv /\ RegisterKeyed /\ [Next]_vars => RegisterKeyed'
<1> SUFFICES ASSUME TypeInv, RegisterKeyed, [Next]_vars PROVE RegisterKeyed'
  OBVIOUS
<1> USE UdpMuxAssumption DEF connVars, taskVars, workerVars, chanVars
<1>1. ASSUME UNCHANGED <<key, register>> PROVE RegisterKeyed'
  BY <1>1 DEF RegisterKeyed
<1>2. ASSUME NEW p \in Callers, NEW c \in Conns, get_conn_create(p, c)
      PROVE  RegisterKeyed'
  <2>1. arg[p] \in Ufrags
    BY <1>2 DEF get_conn_create, TypeInv, ArgsKnown
  <2> QED  BY <1>2, <2>1 DEF get_conn_create, create_muxed_conn, RegisterKeyed,
                             TypeInv, TypeOK
<1>3. ASSUME NEW c \in Conns, NEW a \in Addrs, SendTo(c, a) \/ RegisterStep(c, a)
      PROVE  RegisterKeyed'
  BY <1>3 DEF SendTo, RegisterStep, register_is_closed, register_conn_for_address,
     register_new_addrs,
              RegisterKeyed, TypeInv, TypeOK
<1>4. ASSUME NEW p \in Callers, CallerBegins(p) \/ get_conn_existing(p)
                                 \/ get_conn_no_local_addr(p) \/ CloseStep(p)
      PROVE  RegisterKeyed'
  BY <1>1, <1>4 DEF CallerBegins, get_conn, remove_conn_by_ufrag, close,
     get_conn_existing, get_conn_no_local_addr, CloseStep, close_take_tx,
     close_take_conns, close_conn, close_address_map, close_new_addrs
<1>5. ASSUME NEW t \in Tasks, RemoveStep(t) PROVE RegisterKeyed'
  BY <1>1, <1>5 DEF RemoveStep, remove_from_conns, remove_from_address_map
<1>6. ASSUME NEW c \in Conns, close_rx_changed(c) \/ OwnerCloses(c) PROVE RegisterKeyed'
  BY <1>1, <1>6 DEF close_rx_changed, OwnerCloses
<1>7. CASE WorkerStep \/ closed_watch_changed \/ recv_error
  BY <1>1, <1>7 DEF WorkerStep, conn_from_stun_message, write_packet, not_reported,
     hex_to_cow_panics, try_send_fails, try_send, insert_new_addr,
     closed_watch_changed, recv_error
<1>8. ASSUME NEW a \in Addrs, NEW d \in Datagrams, recv_from(a, d) PROVE RegisterKeyed'
  BY <1>1, <1>8 DEF recv_from
<1>9. CASE TakeNewAddr \/ DropReceiver \/ UNCHANGED vars
  BY <1>1, <1>9 DEF TakeNewAddr, DropReceiver, vars
<1> QED
  BY <1>2, <1>3, <1>4, <1>5, <1>6, <1>7, <1>8, <1>9
  DEF Next, CallerStep, GetConnStep, WatcherStep

-----------------------------------------------------------------------------
(* An empty mux is an idle service.                                        *)
LEMMA InitService == Init => Service!Init
<1> SUFFICES ASSUME Init PROVE Service!Init
  OBVIOUS
<1>1. ListedConns = {}
  BY DEF Init, ListedConns
<1> QED  BY <1>1 DEF Init, Service!Init

(* The steps that the service does not see.                                *)
LEMMA Unseen ==
  ASSUME UNCHANGED <<conns, key, address_map, reported, new_addr_ch, rx_alive>>
  PROVE  UNCHANGED Service!vars
BY DEF Service!vars, ListedConns

(* What the service sees of the state when a step is about to be taken.    *)
Seen == TypeInv /\ ConnsKeyed /\ ReportedListed /\ RegisterKeyed

(***************************************************************************)
(* get_conn creates a conn for a ufrag that has none: the lookup and the   *)
(* insertion are under one lock.                                           *)
(***************************************************************************)
LEMMA CreateStep ==
  ASSUME Seen, NEW p \in Callers, NEW c \in Conns, get_conn_create(p, c)
  PROVE  Service!Next
<1> USE DEF chanVars
<1>1. /\ arg[p] \in Ufrags /\ conns[arg[p]] = None /\ key[c] = None
      /\ key' = [key EXCEPT ![c] = arg[p]]
      /\ conns' = [conns EXCEPT ![arg[p]] = c]
      /\ UNCHANGED <<address_map, reported, new_addr_ch, rx_alive>>
  BY DEF get_conn_create, create_muxed_conn, Seen, TypeInv, ArgsKnown
<1>2. conns \in [Ufrags -> Conns \cup {None}] /\ None \notin Conns
  BY UdpMuxAssumption DEF Seen, TypeInv, TypeOK
<1>3. \A d \in ListedConns : key[d] # arg[p]
  BY <1>1, <1>2 DEF ListedConns, Seen, ConnsKeyed
<1>4. ListedConns' = ListedConns \cup {c}
  <2>1. ASSUME NEW d PROVE d \in ListedConns' => d \in ListedConns \cup {c}
    BY <1>1, <1>2 DEF ListedConns
  <2>2. ASSUME NEW d PROVE d \in ListedConns \cup {c} => d \in ListedConns'
    BY <1>1, <1>2 DEF ListedConns
  <2> QED  BY <2>1, <2>2
<1>5. Service!Create(c, arg[p])
  BY <1>1, <1>3, <1>4 DEF Service!Create
<1> QED  BY <1>1, <1>5 DEF Service!Next

(* Removing a conn by its ufrag retires that conn and no other.            *)
LEMMA RemoveRetires ==
  ASSUME Seen, NEW t \in Tasks, remove_from_conns(t)
  PROVE  Service!Next
<1> USE DEF connVars, chanVars
<1> DEFINE S == {conns[arg[t]]} \ {None}
<1>1. /\ arg[t] \in Ufrags /\ conns' = [conns EXCEPT ![arg[t]] = None]
      /\ UNCHANGED <<key, address_map, reported, new_addr_ch, rx_alive>>
  BY DEF remove_from_conns, Seen, TypeInv, ArgsKnown
<1>2. conns \in [Ufrags -> Conns \cup {None}]
  BY DEF Seen, TypeInv, TypeOK
<1>3. S \in SUBSET ListedConns
  BY <1>1 DEF ListedConns
<1>4. ListedConns' = ListedConns \ S
  <2>1. ASSUME NEW d PROVE d \in ListedConns' => d \in ListedConns \ S
    BY <1>1, <1>2 DEF ListedConns, Seen, ConnsKeyed
  <2>2. ASSUME NEW d PROVE d \in ListedConns \ S => d \in ListedConns'
    BY <1>1, <1>2 DEF ListedConns
  <2> QED  BY <2>1, <2>2
<1> HIDE DEF S
<1>5. Service!Retire(S)
  BY <1>1, <1>4 DEF Service!Retire
<1> QED  BY <1>3, <1>5 DEF Service!Next

(* close retires every conn at once.                                       *)
LEMMA CloseRetires ==
  ASSUME Seen, NEW p \in Callers, close_take_conns(p)
  PROVE  Service!Next
<1> USE DEF connVars, chanVars
<1>1. ListedConns' = ListedConns \ ListedConns
  BY DEF close_take_conns, ListedConns
<1>2. Service!Retire(ListedConns)
  BY <1>1 DEF close_take_conns, Service!Retire
<1> QED  BY <1>2 DEF Service!Next

(* Purging a conn, and closing, remove routes.                             *)
LEMMA PurgeUnroutes ==
  ASSUME Seen, NEW A \in SUBSET Addrs,
         address_map' = [a \in Addrs |-> IF a \in A THEN None ELSE address_map[a]],
         UNCHANGED <<conns, key, reported, new_addr_ch, rx_alive>>
  PROVE  Service!Next
<1>1. Service!Unroute(A)
  BY DEF Service!Unroute, ListedConns
<1> QED  BY <1>1 DEF Service!Next

(* A registration fills a route, takes it over from another ufrag, or      *)
(* changes nothing.                                                        *)
LEMMA RegisterRoutes ==
  ASSUME Seen, NEW c \in Conns, NEW a \in Addrs, register_conn_for_address(c, a)
  PROVE  [Service!Next]_(Service!vars)
<1> USE DEF chanVars
<1>1. /\ UNCHANGED <<conns, key, reported, new_addr_ch, rx_alive>>
      /\ register[<<c, a>>] = "insert"
  BY DEF register_conn_for_address
<1>2. key[c] # None
  BY <1>1 DEF Seen, RegisterKeyed
<1>3. address_map \in [Addrs -> Conns \cup {None}]
  BY DEF Seen, TypeInv, TypeOK
<1>4. CASE address_map[a] # None /\ key[address_map[a]] = key[c]
  <2>1. address_map' = address_map
    BY <1>3, <1>4 DEF register_conn_for_address
  <2> QED  BY <1>1, <2>1, Unseen
<1>5. CASE address_map[a] # None => key[address_map[a]] # key[c]
  <2>1. address_map' = [address_map EXCEPT ![a] = c]
    BY <1>5 DEF register_conn_for_address
  <2>2. Service!Route(c, a)
    BY <1>1, <1>2, <1>5, <2>1 DEF Service!Route, ListedConns
  <2> QED  BY <2>2 DEF Service!Next
<1> QED  BY <1>4, <1>5

(* An address that was reported and is not settled is not sent again.      *)
LEMMA SendReports ==
  ASSUME Seen, try_send
  PROVE  Service!Next
<1> USE DEF connVars
<1>1. /\ waddr \in Addrs /\ waddr \notin reported
      /\ buffer.remote \in Ufrags
  BY DEF try_send, Reportable, is_stun_message, Seen, TypeInv, WorkerHolds, Stun,
         ReportedListed
<1>2. Service!Report(waddr, buffer.remote)
  BY <1>1 DEF try_send, CanSend, Service!Report, ListedConns
<1> QED  BY <1>1, <1>2 DEF Service!Next

(* A registration settles its address, the end of close settles all.       *)
LEMMA UnlistSettles ==
  ASSUME NEW A \in SUBSET Addrs, reported' = reported \ A,
         UNCHANGED <<conns, key, address_map, new_addr_ch, rx_alive>>
  PROVE  Service!Next
<1>1. Service!Settle(A)
  BY DEF Service!Settle, ListedConns
<1> QED  BY <1>1 DEF Service!Next

(* Every step of the mux is a step of the service or unseen by it.         *)
LEMMA StepService == Seen /\ [Next]_vars => [Service!Next]_(Service!vars)
<1> SUFFICES ASSUME Seen, [Next]_vars PROVE [Service!Next]_(Service!vars)
  OBVIOUS
<1> USE DEF connVars, taskVars, workerVars, chanVars
<1>1. ASSUME NEW p \in Callers, CallerBegins(p) \/ get_conn_existing(p)
                                 \/ get_conn_no_local_addr(p)
      PROVE  UNCHANGED Service!vars
  BY <1>1, Unseen DEF CallerBegins, get_conn, remove_conn_by_ufrag, close,
     get_conn_existing, get_conn_no_local_addr
<1>2. ASSUME NEW p \in Callers, CloseStep(p) PROVE [Service!Next]_(Service!vars)
  <2>1. ASSUME NEW c \in Conns, close_conn(p, c)
        PROVE  UNCHANGED Service!vars
    BY <2>1, Unseen DEF close_conn
  <2>2. CASE close_take_tx(p)
    BY <2>2, Unseen DEF close_take_tx
  <2>3. CASE close_address_map(p)
    <3>1. address_map' = [a \in Addrs |-> IF a \in Addrs THEN None ELSE address_map[a]]
      BY <2>3 DEF close_address_map
    <3> QED  BY <2>3, <3>1, PurgeUnroutes DEF close_address_map
  <2>4. CASE close_new_addrs(p)
    <3>1. reported \subseteq Addrs
      BY DEF Seen, TypeInv, TypeOK
    <3>2. reported' = reported \ Addrs
      BY <2>4, <3>1 DEF close_new_addrs
    <3> QED  BY <2>4, <3>2, UnlistSettles DEF close_new_addrs
  <2> QED  BY <1>2, <2>1, <2>2, <2>3, <2>4, CloseRetires DEF CloseStep
<1>3. ASSUME NEW t \in Tasks, RemoveStep(t) PROVE [Service!Next]_(Service!vars)
  <2>1. CASE remove_from_address_map(t)
    <3> DEFINE A == {a \in Addrs : \E c \in todo[t] : a \in addresses[c]}
    <3>1. address_map' = [a \in Addrs |-> IF a \in A THEN None ELSE address_map[a]]
      BY <2>1 DEF remove_from_address_map
    <3> HIDE DEF A
    <3>2. A \in SUBSET Addrs
      BY DEF A
    <3> QED  BY <2>1, <3>1, <3>2, PurgeUnroutes DEF remove_from_address_map
  <2> QED  BY <1>3, <2>1, RemoveRetires DEF RemoveStep
<1>4. ASSUME NEW c \in Conns, close_rx_changed(c) \/ OwnerCloses(c)
      PROVE  UNCHANGED Service!vars
  BY <1>4, Unseen DEF close_rx_changed, OwnerCloses
<1>5. ASSUME NEW c \in Conns, NEW a \in Addrs, SendTo(c, a) \/ register_is_closed(c, a)
      PROVE  UNCHANGED Service!vars
  BY <1>5, Unseen DEF SendTo, register_is_closed
<1>6. ASSUME NEW c \in Conns, NEW a \in Addrs, register_new_addrs(c, a)
      PROVE  Service!Next
  BY <1>6, UnlistSettles DEF register_new_addrs
<1>7. CASE \/ conn_from_stun_message \/ write_packet \/ not_reported
           \/ hex_to_cow_panics \/ try_send_fails \/ insert_new_addr
           \/ closed_watch_changed \/ recv_error
  BY <1>7, Unseen DEF conn_from_stun_message, write_packet, not_reported,
     hex_to_cow_panics, try_send_fails, insert_new_addr, closed_watch_changed,
     recv_error
<1>8. ASSUME NEW a \in Addrs, NEW d \in Datagrams, recv_from(a, d)
      PROVE  UNCHANGED Service!vars
  BY <1>8, Unseen DEF recv_from
<1>9. CASE TakeNewAddr
  BY <1>9 DEF TakeNewAddr, Service!Next, Service!Take, ListedConns
<1>10. CASE DropReceiver
  BY <1>10 DEF DropReceiver, Service!Next, Service!Leave, ListedConns
<1>11. CASE UNCHANGED vars
  BY <1>11, Unseen DEF vars
<1> QED
  BY <1>1, <1>2, <1>3, <1>4, <1>5, <1>6, <1>7, <1>8, <1>9, <1>10, <1>11,
     CreateStep, RegisterRoutes, SendReports
  DEF Next, CallerStep, GetConnStep, WatcherStep, RegisterStep, WorkerStep

(* What the service sees is kept by every step, and needs no fairness.     *)
LEMMA SeenHolds == Init /\ [][Next]_vars => []Seen
<1>1. Init => Seen
  BY InitTypeInv, UdpMuxAssumption
  DEF Init, Seen, ConnsKeyed, ReportedListed, RegisterKeyed
<1>2. Seen /\ [Next]_vars => Seen'
  BY NextTypeInv, NextConnsKeyed, NextReportedListed, NextRegisterKeyed DEF Seen
<1> QED  BY <1>1, <1>2, PTL

(***************************************************************************)
(* ImplementsService: the mux, with its locks taken one after the other    *)
(* and its worker in several steps, provides the service of MuxService, to *)
(* whatever uses it by the steps of UdpMux, fairly scheduled or not.       *)
(***************************************************************************)
THEOREM MuxStepsRefineService == Init /\ [][Next]_vars => ImplementsService
BY SeenHolds, InitService, StepService, PTL DEF ImplementsService, Service!Spec

(* The mux under arbitrary callers provides the service.                   *)
THEOREM MuxRefinesService == Spec => ImplementsService
BY MuxStepsRefineService, PTL DEF Spec
=============================================================================
