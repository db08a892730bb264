---------------------------- MODULE UdpMuxProofs ----------------------------
(***************************************************************************)
(* Proofs about UdpMux, for any number of addresses, ufrags, conns and     *)
(* callers, any datagrams and any channel capacity.                        *)
(***************************************************************************)
EXTENDS UdpMux, SequenceTheorems, TLAPS

USE DEF Tasks

-----------------------------------------------------------------------------
(***************************************************************************)
(* Types.  A step that uses the ufrag of a task, the address of a datagram *)
(* or the decoded buffer relies on the place the task is at.               *)
(***************************************************************************)
ArgsKnown ==
  \A t \in Tasks :
    pc[t] \in {"get", "remove", "purge", "watching"} => arg[t] \in Ufrags

WorkerHolds ==
  /\ wpc \in {"by_ufrag", "write", "report", "insert"} => waddr \in Addrs
  /\ wpc \in {"by_ufrag", "insert"} => buffer \in Stun
  /\ wpc = "by_ufrag" /\ datagram \in Stun => buffer = datagram

TypeInv == TypeOK /\ ArgsKnown /\ WorkerHolds

(* The initial state has its types.                                        *)
LEMMA InitTypeInv == Init => TypeInv
<1> SUFFICES ASSUME Init PROVE TypeInv
  OBVIOUS
<1>1. conn_closed \in [Conns -> BOOLEAN]
  BY DEF Init
<1>2. pc \in [Tasks -> CallerPC \cup WatcherPC]
  BY DEF Init, CallerPC, WatcherPC
<1>3. register \in [Conns \X Addrs -> {"idle", "check", "insert", "unlist"}]
  BY DEF Init
<1>4. new_addr_ch \in Seq([addr : Addrs, ufrag : Ufrags])
  BY DEF Init
<1>5. ArgsKnown /\ WorkerHolds
  BY DEF Init, ArgsKnown, WorkerHolds
<1> QED
  BY <1>1, <1>2, <1>3, <1>4, <1>5 DEF Init, TypeInv, TypeOK

(* Every step of the mux, its callers and its environment keeps the types. *)
LEMMA NextTypeInv == TypeInv /\ [Next]_vars => TypeInv'
<1> SUFFICES ASSUME TypeInv, [Next]_vars PROVE TypeInv'
  OBVIOUS
<1> USE UdpMuxAssumption DEF TypeInv, TypeOK, ArgsKnown, WorkerHolds, CallerPC,
        WatcherPC, Go, Finish, WorkerTurns, connVars, taskVars, workerVars, chanVars
<1>1. ASSUME NEW p \in Callers, CallerBegins(p) PROVE TypeInv'
  <2>1. ASSUME NEW u \in Ufrags, get_conn(p, u) PROVE TypeInv'
    BY <2>1 DEF get_conn
  <2>2. ASSUME NEW u \in Ufrags, remove_conn_by_ufrag(p, u) PROVE TypeInv'
    BY <2>2 DEF remove_conn_by_ufrag
  <2>3. CASE close(p)
    BY <2>3 DEF close
  <2> QED  BY <1>1, <2>1, <2>2, <2>3 DEF CallerBegins
<1>2. ASSUME NEW p \in Callers, GetConnStep(p) PROVE TypeInv'
  <2>1. CASE get_conn_existing(p)
    BY <2>1 DEF get_conn_existing
  <2>2. ASSUME NEW c \in Conns, get_conn_create(p, c) PROVE TypeInv'
    BY <2>2 DEF get_conn_create, create_muxed_conn
  <2>3. CASE get_conn_no_local_addr(p)
    BY <2>3 DEF get_conn_no_local_addr
  <2> QED  BY <1>2, <2>1, <2>2, <2>3 DEF GetConnStep
<1>3. ASSUME NEW p \in Callers, CloseStep(p) PROVE TypeInv'
  <2>1. CASE close_take_tx(p)
    BY <2>1 DEF close_take_tx
  <2>2. CASE close_take_conns(p)
    BY <2>2 DEF close_take_conns
  <2>3. ASSUME NEW c \in Conns, close_conn(p, c) PROVE TypeInv'
    BY <2>3 DEF close_conn, CloseConn
  <2>4. CASE close_address_map(p)
    BY <2>4 DEF close_address_map
  <2>5. CASE close_new_addrs(p)
    BY <2>5 DEF close_new_addrs
  <2> QED  BY <1>3, <2>1, <2>2, <2>3, <2>4, <2>5 DEF CloseStep
<1>4. ASSUME NEW t \in Tasks, RemoveStep(t) PROVE TypeInv'
  <2>1. CASE remove_from_conns(t)
    <3>1. todo' \in [Tasks -> SUBSET Conns]
      BY <2>1 DEF remove_from_conns
    <3>2. CASE conns[arg[t]] = None
      <4>1. Finish(t, "remove")
        BY <2>1, <3>2 DEF remove_from_conns
      <4>2. /\ pc' \in [Tasks -> CallerPC \cup WatcherPC]
            /\ arg' \in [Tasks -> Ufrags \cup {None}]
            /\ ArgsKnown'
        BY <4>1
      <4> QED  BY <2>1, <3>1, <4>2 DEF remove_from_conns
    <3>3. CASE conns[arg[t]] # None
      BY <2>1, <3>1, <3>3 DEF remove_from_conns
    <3> QED  BY <3>2, <3>3
  <2>2. CASE remove_from_address_map(t)
    BY <2>2 DEF remove_from_address_map
  <2> QED  BY <1>4, <2>1, <2>2 DEF RemoveStep
<1>5. ASSUME NEW c \in Conns, close_rx_changed(c) \/ OwnerCloses(c) PROVE TypeInv'
  <2>1. CASE close_rx_changed(c)
    BY <2>1 DEF close_rx_changed
  <2>2. CASE OwnerCloses(c)
    BY <2>2 DEF OwnerCloses, CloseConn
  <2> QED  BY <1>5, <2>1, <2>2
<1>6. ASSUME NEW c \in Conns, NEW a \in Addrs, SendTo(c, a) \/ RegisterStep(c, a)
      PROVE TypeInv'
  <2>1. CASE SendTo(c, a)
    BY <2>1 DEF SendTo
  <2>2. CASE register_is_closed(c, a)
    BY <2>2 DEF register_is_closed
  <2>3. CASE register_conn_for_address(c, a)
    BY <2>3 DEF register_conn_for_address
  <2>4. CASE register_new_addrs(c, a)
    BY <2>4 DEF register_new_addrs
  <2> QED  BY <1>6, <2>1, <2>2, <2>3, <2>4 DEF RegisterStep
<1>7. ASSUME NEW a \in Addrs, NEW d \in Datagrams, recv_from(a, d) PROVE TypeInv'
  BY <1>7 DEF recv_from, AfterRecv, is_stun_message
<1>8. CASE WorkerStep
  <2>1. CASE conn_from_stun_message
    BY <2>1 DEF conn_from_stun_message, Stun
  <2>2. CASE write_packet \/ not_reported \/ hex_to_cow_panics \/ try_send_fails
    BY <2>2 DEF write_packet, not_reported, hex_to_cow_panics, try_send_fails
  <2>3. CASE try_send
    BY <2>3 DEF try_send, Reportable, is_stun_message, Stun
  <2>4. CASE insert_new_addr
    BY <2>4 DEF insert_new_addr
  <2> QED  BY <1>8, <2>1, <2>2, <2>3, <2>4 DEF WorkerStep
<1>9. CASE closed_watch_changed \/ recv_error
  BY <1>9 DEF closed_watch_changed, recv_error
<1>10. CASE TakeNewAddr \/ DropReceiver
  <2>1. new_addr_ch' \in Seq([addr : Addrs, ufrag : Ufrags])
    <3> DEFINE Report == [addr : Addrs, ufrag : Ufrags]
    <3> HIDE DEF Report
    <3>1. new_addr_ch \in Seq(Report)
      BY DEF Report
    <3>2. CASE TakeNewAddr
      BY ONLY <3>1, <3>2, HeadTailProperties DEF TakeNewAddr, Report
    <3>3. CASE DropReceiver
      BY <3>3 DEF DropReceiver
    <3> QED  BY <1>10, <3>2, <3>3
  <2> QED  BY <1>10, <2>1 DEF TakeNewAddr, DropReceiver
<1>11. CASE UNCHANGED vars
  BY <1>11 DEF vars
<1> HIDE DEF TypeInv
<1> QED
  BY <1>1, <1>2, <1>3, <1>4, <1>5, <1>6, <1>7, <1>8, <1>9, <1>10, <1>11
  DEF Next, CallerStep, WatcherStep

(* The types hold in every reachable state.                                *)
THEOREM TypesHold == Spec => []TypeInv
  BY InitTypeInv, NextTypeInv, PTL DEF Spec

(* Type correctness of the mux, its callers and its worker.                *)
THEOREM TypeCorrect == Spec => []TypeOK
<1>1. TypeInv => TypeOK
  BY DEF TypeInv
<1> QED  BY <1>1, TypesHold, PTL

-----------------------------------------------------------------------------
(***************************************************************************)
(* Closing.  OneTearDown is inductive given the types: a caller starts the *)
(* tear-down only where closed turns TRUE, and closed never turns back.    *)
(***************************************************************************)

(* No step of the mux lets a second caller into the tear-down.             *)
LEMMA NextOneTearDown ==
  TypeInv /\ OneTearDown /\ [Next]_vars => OneTearDown'
<1> SUFFICES ASSUME TypeInv, OneTearDown, [Next]_vars PROVE OneTearDown'
  OBVIOUS
<1> DEFINE Late == {"drain", "close_conns", "clear_new"}
           Kept == /\ closed' = closed
                   /\ \A p \in Callers : pc'[p] \in Late => pc[p] \in Late
<1> USE UdpMuxAssumption DEF Go, Finish, connVars, taskVars, workerVars, chanVars
<1>pc. pc \in [Tasks -> CallerPC \cup WatcherPC] /\ closed \in BOOLEAN
  BY DEF TypeInv, TypeOK
<1>1. ASSUME Kept PROVE OneTearDown'
  BY <1>1 DEF OneTearDown, TearingDown
<1> HIDE DEF Kept
<1>2. ASSUME NEW p \in Callers, CallerBegins(p) PROVE Kept
  BY <1>2, <1>pc DEF CallerBegins, get_conn, remove_conn_by_ufrag, close, Kept
<1>3. ASSUME NEW p \in Callers, GetConnStep(p) PROVE Kept
  BY <1>3, <1>pc DEF GetConnStep, get_conn_existing, get_conn_create,
                     get_conn_no_local_addr, Kept
<1>4. ASSUME NEW p \in Callers, close_take_tx(p) PROVE OneTearDown'
  BY <1>4, <1>pc DEF close_take_tx, OneTearDown, TearingDown
<1>5. ASSUME NEW p \in Callers, CloseStep(p), ~close_take_tx(p) PROVE Kept
  BY <1>5, <1>pc DEF CloseStep, close_take_conns, close_conn, close_address_map,
                     close_new_addrs, Kept
<1>6. ASSUME NEW t \in Tasks, RemoveStep(t) PROVE Kept
  BY <1>6, <1>pc DEF RemoveStep, remove_from_conns, remove_from_address_map, Kept
<1>7. ASSUME NEW c \in Conns, close_rx_changed(c) PROVE Kept
  BY <1>7, <1>pc DEF close_rx_changed, Kept
<1>8. CASE UNCHANGED <<pc, closed>>
  BY <1>1, <1>8 DEF Kept
<1>9. ASSUME NEW c \in Conns, OwnerCloses(c) PROVE UNCHANGED <<pc, closed>>
  BY <1>9 DEF OwnerCloses
<1>10. ASSUME NEW c \in Conns, NEW a \in Addrs, SendTo(c, a) \/ RegisterStep(c, a)
       PROVE UNCHANGED <<pc, closed>>
  BY <1>10 DEF SendTo, RegisterStep, register_is_closed, register_conn_for_address,
     register_new_addrs
<1>11. CASE WorkerStep \/ closed_watch_changed \/ recv_error
  BY <1>8, <1>11 DEF WorkerStep, conn_from_stun_message, write_packet, not_reported,
     hex_to_cow_panics, try_send_fails, try_send, insert_new_addr,
     closed_watch_changed, recv_error
<1>12. ASSUME NEW a \in Addrs, NEW d \in Datagrams, recv_from(a, d)
       PROVE UNCHANGED <<pc, closed>>
  BY <1>12 DEF recv_from
<1>13. CASE TakeNewAddr \/ DropReceiver \/ UNCHANGED vars
  BY <1>8, <1>13 DEF TakeNewAddr, DropReceiver, vars
<1> QED
  BY <1>1, <1>2, <1>3, <1>4, <1>5, <1>6, <1>7, <1>8, <1>9, <1>10, <1>11, <1>12, <1>13
  DEF Next, CallerStep, WatcherStep

(***************************************************************************)
(* However many tasks call close at once, one at most tears the mux down,  *)
(* and the mux is closed before it starts.                                 *)
(***************************************************************************)
THEOREM TearDownOnce == Spec => []OneTearDown
<1>1. Init => OneTearDown
  BY UdpMuxAssumption DEF Init, OneTearDown, TearingDown
<1> QED  BY <1>1, TypesHold, NextOneTearDown, PTL DEF Spec

-----------------------------------------------------------------------------
(***************************************************************************)
(* Routes.  RoutesAccounted is not inductive.  A take-over removes the     *)
(* address from the conn that loses the route; were that conn about to     *)
(* register the same address again, its set and the map would part.  Hence *)
(* the second part: a conn that is about to register an address has it in  *)
(* its set and does not own the route yet.                                 *)
(***************************************************************************)
Forgotten(c) == CloseForgets /\ conn_closed[c]

Pending == {"check", "insert"}

PendingRoutes ==
  \A c \in Conns, a \in Addrs :
    register[<<c, a>>] \in Pending =>
      Accounted(c, a) /\ (address_map[a] # c \/ Forgotten(c))

RoutesInv == RoutesAccounted /\ PendingRoutes

(* Steps that only take routes out, or that close a conn, keep RoutesInv.  *)
LEMMA ShrinkRoutes ==
  ASSUME TypeInv, RoutesInv,
         UNCHANGED register,
         \A a \in Addrs : address_map'[a] \in {address_map[a], None},
         \A c \in Conns, a \in Addrs : Accounted(c, a) => Accounted(c, a)',
         \A c \in Conns : Forgotten(c) => Forgotten(c)'
  PROVE  RoutesInv'
  BY UdpMuxAssumption DEF RoutesInv, RoutesAccounted, PendingRoutes

(* Every step of the mux keeps RoutesInv.                                  *)
LEMMA NextRoutesInv == TypeInv /\ RoutesInv /\ [Next]_vars => RoutesInv'
<1> SUFFICES ASSUME TypeInv, RoutesInv, [Next]_vars PROVE RoutesInv'
  OBVIOUS
<1> USE UdpMuxAssumption DEF connVars, taskVars, workerVars, chanVars
<1>ty. /\ address_map \in [Addrs -> Conns \cup {None}]
       /\ addresses \in [Conns -> SUBSET Addrs]
       /\ conn_closed \in [Conns -> BOOLEAN]
       /\ register \in [Conns \X Addrs -> {"idle", "check", "insert", "unlist"}]
  BY DEF TypeInv, TypeOK
<1>1. CASE UNCHANGED <<address_map, addresses, conn_closed, register>>
  BY <1>1, ShrinkRoutes DEF Accounted, Forgotten
<1>2. ASSUME NEW c \in Conns, CloseConn(c), UNCHANGED <<address_map, register>>
      PROVE RoutesInv'
  <2>1. \A d \in Conns : conn_closed[d] => conn_closed'[d]
    BY <1>2, <1>ty DEF CloseConn
  <2>2. \A d \in Conns, a \in Addrs : Accounted(d, a) => Accounted(d, a)'
    BY <1>2, <1>ty, <2>1 DEF CloseConn, Accounted
  <2> QED  BY <1>2, <1>ty, <2>1, <2>2, ShrinkRoutes DEF Forgotten
<1>3. ASSUME UNCHANGED <<addresses, conn_closed, register>>,
             \A a \in Addrs : address_map'[a] \in {address_map[a], None}
      PROVE RoutesInv'
  BY <1>3, ShrinkRoutes DEF Accounted, Forgotten
<1>4. ASSUME NEW p \in Callers, CallerBegins(p) \/ GetConnStep(p) PROVE RoutesInv'
  BY <1>1, <1>4 DEF CallerBegins, get_conn, remove_conn_by_ufrag, close, GetConnStep,
     get_conn_existing, get_conn_create, get_conn_no_local_addr
<1>5. ASSUME NEW p \in Callers, CloseStep(p) PROVE RoutesInv'
  <2>1. CASE close_take_tx(p) \/ close_take_conns(p) \/ close_new_addrs(p)
    BY <1>1, <2>1 DEF close_take_tx, close_take_conns, close_new_addrs
  <2>2. ASSUME NEW c \in Conns, close_conn(p, c) PROVE RoutesInv'
    BY <1>2, <2>2 DEF close_conn
  <2>3. CASE close_address_map(p)
    BY <1>3, <2>3 DEF close_address_map
  <2> QED  BY <1>5, <2>1, <2>2, <2>3 DEF CloseStep
<1>6. ASSUME NEW t \in Tasks, RemoveStep(t) PROVE RoutesInv'
  BY <1>1, <1>3, <1>6 DEF RemoveStep, remove_from_conns, remove_from_address_map
<1>7. ASSUME NEW c \in Conns, close_rx_changed(c) \/ OwnerCloses(c) PROVE RoutesInv'
  BY <1>1, <1>2, <1>7 DEF close_rx_changed, OwnerCloses
<1>8. ASSUME NEW c \in Conns, NEW a \in Addrs, SendTo(c, a) PROVE RoutesInv'
  <2>1. address_map[a] # c \/ Forgotten(c)
    BY <1>8 DEF SendTo, RoutesInv, RoutesAccounted, Accounted, Forgotten
  <2>2. /\ \A d \in Conns, b \in Addrs : Accounted(d, b) => Accounted(d, b)'
        /\ Accounted(c, a)'
        /\ UNCHANGED <<address_map, conn_closed>>
    BY <1>8, <1>ty DEF SendTo, Accounted
  <2>3. \A d \in Conns, b \in Addrs :
          register'[<<d, b>>] \in Pending =>
            register[<<d, b>>] \in Pending \/ (d = c /\ b = a)
    BY <1>8, <1>ty DEF SendTo, Pending
  <2> QED
    BY <2>1, <2>2, <2>3 DEF RoutesInv, RoutesAccounted, PendingRoutes, Forgotten
<1>9. ASSUME NEW c \in Conns, NEW a \in Addrs, register_conn_for_address(c, a)
      PROVE RoutesInv'
  <2>e. PICK e \in Conns \cup {None} : address_map[a] = e
    BY <1>ty
  <2>1. /\ register[<<c, a>>] = "insert"
        /\ Accounted(c, a)
        /\ UNCHANGED conn_closed
        /\ \A d \in Conns, b \in Addrs :
             register'[<<d, b>>] \in Pending =>
               register[<<d, b>>] \in Pending /\ <<d, b>> # <<c, a>>
    BY <1>9, <1>ty DEF register_conn_for_address, RoutesInv, PendingRoutes, Pending
  <2>2. \A b \in Addrs : b # a => address_map'[b] = address_map[b]
    BY <1>9, <1>ty DEF register_conn_for_address
  <2>3. CASE e = None
    <3>1. address_map'[a] = c /\ UNCHANGED addresses
      BY <1>9, <1>ty, <2>e, <2>3 DEF register_conn_for_address
    <3> QED
      BY <2>e, <2>1, <2>2, <2>3, <3>1
      DEF RoutesInv, RoutesAccounted, PendingRoutes, Accounted, Forgotten
  <2>4. CASE e # None /\ key[e] = key[c]
    <3>1. address_map'[a] = e /\ UNCHANGED addresses
      BY <1>9, <1>ty, <2>e, <2>4 DEF register_conn_for_address
    <3> QED
      BY <2>e, <2>1, <2>2, <3>1
      DEF RoutesInv, RoutesAccounted, PendingRoutes, Accounted, Forgotten
  <2>5. CASE e # None /\ key[e] # key[c]
    <3>1. e \in Conns /\ e # c
      BY <1>ty, <2>5
    <3>2. /\ address_map'[a] = c
          /\ addresses' = [addresses EXCEPT ![e] = @ \ {a}]
      BY <1>9, <1>ty, <2>e, <2>5 DEF register_conn_for_address
    <3>3. \A d \in Conns, b \in Addrs :
            Accounted(d, b) /\ <<d, b>> # <<e, a>> => Accounted(d, b)'
      BY <1>ty, <2>1, <3>1, <3>2 DEF Accounted
    <3>4. register[<<e, a>>] \in Pending => Accounted(e, a)'
      <4>1. register[<<e, a>>] \in Pending => Forgotten(e)
        BY <2>e, <3>1 DEF RoutesInv, PendingRoutes
      <4>2. Forgotten(e) => Forgotten(e)'
        BY <2>1 DEF Forgotten
      <4> QED  BY <4>1, <4>2 DEF Accounted, Forgotten
    <3>5. RoutesAccounted'
      BY <2>1, <2>2, <3>1, <3>2, <3>3 DEF RoutesInv, RoutesAccounted
    <3>6. PendingRoutes'
      <4> SUFFICES ASSUME NEW d \in Conns, NEW b \in Addrs, register'[<<d, b>>] \in Pending
                   PROVE  Accounted(d, b)' /\ (address_map'[b] # d \/ Forgotten(d)')
        BY DEF PendingRoutes
      <4>1. /\ register[<<d, b>>] \in Pending /\ <<d, b>> # <<c, a>>
            /\ Accounted(d, b)
            /\ address_map[b] # d \/ Forgotten(d)
        BY <2>1 DEF RoutesInv, PendingRoutes
      <4>2. Accounted(d, b)'
        BY <3>3, <3>4, <4>1
      <4>3. address_map'[b] # d \/ Forgotten(d)'
        BY <2>1, <2>2, <3>2, <4>1 DEF Forgotten
      <4> QED  BY <4>2, <4>3
    <3> QED  BY <3>5, <3>6 DEF RoutesInv
  <2> QED  BY <2>3, <2>4, <2>5
<1>10. ASSUME NEW c \in Conns, NEW a \in Addrs,
              register_is_closed(c, a) \/ register_new_addrs(c, a)
       PROVE RoutesInv'
  <2>1. \A d \in Conns, b \in Addrs :
          register'[<<d, b>>] \in Pending => register[<<d, b>>] \in Pending
    BY <1>10, <1>ty DEF register_is_closed, register_new_addrs, Pending
  <2> QED
    BY <1>10, <2>1 DEF register_is_closed, register_new_addrs, RoutesInv,
       RoutesAccounted, PendingRoutes,
                       Accounted, Forgotten
<1>11. CASE WorkerStep \/ closed_watch_changed \/ recv_error
  BY <1>1, <1>11 DEF WorkerStep, conn_from_stun_message, write_packet, not_reported,
     hex_to_cow_panics, try_send_fails, try_send, insert_new_addr,
     closed_watch_changed, recv_error
<1>12. ASSUME NEW a \in Addrs, NEW d \in Datagrams, recv_from(a, d) PROVE RoutesInv'
  BY <1>1, <1>12 DEF recv_from
<1>13. CASE TakeNewAddr \/ DropReceiver \/ UNCHANGED vars
  BY <1>1, <1>13 DEF TakeNewAddr, DropReceiver, vars
<1> QED
  BY <1>4, <1>5, <1>6, <1>7, <1>8, <1>9, <1>10, <1>11, <1>12, <1>13
  DEF Next, CallerStep, WatcherStep, RegisterStep

(* RoutesInv holds in every reachable state.                               *)
THEOREM RoutesInvHolds == Spec => []RoutesInv
<1>1. Init => RoutesInv
  BY UdpMuxAssumption DEF Init, RoutesInv, RoutesAccounted, PendingRoutes, Pending
<1> QED  BY <1>1, TypesHold, NextRoutesInv, PTL DEF Spec

(***************************************************************************)
(* The routes of the mux and the address sets of its conns agree, whatever *)
(* registrations, removals and closings run at once: purging the addresses *)
(* of a conn purges every route to it.                                     *)
(***************************************************************************)
THEOREM RoutesAgree == Spec => []RoutesAccounted
<1>1. RoutesInv => RoutesAccounted
  BY DEF RoutesInv
<1> QED  BY <1>1, RoutesInvHolds, PTL

-----------------------------------------------------------------------------
(***************************************************************************)
(* Reports.  Between the send and the insertion into new_addrs an address  *)
(* is reported and not listed, and only the worker, which is the one that  *)
(* reports, can be there.                                                  *)
(***************************************************************************)
ReportedListed ==
  reported \subseteq new_addrs \cup (IF wpc = "insert" THEN {waddr} ELSE {})

(* Every step keeps ReportedListed.                                        *)
LEMMA NextReportedListed ==
  TypeInv /\ ReportedListed /\ [Next]_vars => ReportedListed'
<1> SUFFICES ASSUME TypeInv, ReportedListed, [Next]_vars PROVE ReportedListed'
  OBVIOUS
<1> USE DEF connVars, taskVars, workerVars, chanVars
<1>1. CASE UNCHANGED <<reported, new_addrs, wpc, waddr>>
  BY <1>1 DEF ReportedListed
<1>2. ASSUME NEW p \in Callers, CallerBegins(p) \/ GetConnStep(p)
      PROVE UNCHANGED <<reported, new_addrs, wpc, waddr>>
  BY <1>2 DEF CallerBegins, get_conn, remove_conn_by_ufrag, close, GetConnStep,
     get_conn_existing, get_conn_create, get_conn_no_local_addr
<1>3. ASSUME NEW p \in Callers, CloseStep(p) PROVE ReportedListed'
  BY <1>1, <1>3 DEF CloseStep, close_take_tx, close_take_conns, close_conn,
     close_address_map, close_new_addrs, ReportedListed
<1>4. ASSUME NEW t \in Tasks, RemoveStep(t)
      PROVE UNCHANGED <<reported, new_addrs, wpc, waddr>>
  BY <1>4 DEF RemoveStep, remove_from_conns, remove_from_address_map
<1>5. ASSUME NEW c \in Conns, close_rx_changed(c) \/ OwnerCloses(c)
      PROVE UNCHANGED <<reported, new_addrs, wpc, waddr>>
  BY <1>5 DEF close_rx_changed, OwnerCloses
<1>6. ASSUME NEW c \in Conns, NEW a \in Addrs, SendTo(c, a) \/ RegisterStep(c, a)
      PROVE ReportedListed'
  BY <1>1, <1>6 DEF SendTo, RegisterStep, register_is_closed, register_conn_for_address,
     register_new_addrs, ReportedListed
<1>7. ASSUME NEW a \in Addrs, NEW d \in Datagrams, recv_from(a, d)
      PROVE ReportedListed'
  BY <1>7 DEF recv_from, ReportedListed
<1>8. CASE WorkerStep \/ closed_watch_changed \/ recv_error
  BY <1>8 DEF WorkerStep, conn_from_stun_message, write_packet, not_reported,
     hex_to_cow_panics, try_send_fails, try_send, Reportable, insert_new_addr,
     closed_watch_changed, recv_error, WorkerTurns, ReportedListed
<1>9. CASE TakeNewAddr \/ DropReceiver \/ UNCHANGED vars
  BY <1>1, <1>9 DEF TakeNewAddr, DropReceiver, vars
<1> QED
  BY <1>1, <1>2, <1>3, <1>4, <1>5, <1>6, <1>7, <1>8, <1>9
  DEF Next, CallerStep, WatcherStep

(* ReportedListed holds in every reachable state.                          *)
THEOREM ReportedListedHolds == Spec => []ReportedListed
<1>1. Init => ReportedListed
  BY DEF Init, ReportedListed
<1> QED  BY <1>1, TypesHold, NextReportedListed, PTL DEF Spec

(***************************************************************************)
(* The worker reports an address again only after a registration or the    *)
(* closing of the mux, wherever those two fall between its check of        *)
(* new_addrs, its send and its insertion.                                  *)
(***************************************************************************)
THEOREM NeverReportedTwice == Spec => ReportOnce
<1> DEFINE Step == Len(new_addr_ch') > Len(new_addr_ch)
                     => new_addr_ch'[Len(new_addr_ch')].addr \notin reported
<1>1. TypeInv /\ ReportedListed /\ [Next]_vars => [Step]_vars
  <2> SUFFICES ASSUME TypeInv, ReportedListed, Next PROVE Step
    BY DEF vars
  <2> DEFINE Report == [addr : Addrs, ufrag : Ufrags]
  <2>ch. new_addr_ch \in Seq(Report)
    BY DEF TypeInv, TypeOK
  <2>1. CASE try_send
    <3>1. waddr \notin reported /\ waddr \in Addrs /\ buffer.remote \in Ufrags
      BY <2>1 DEF try_send, Reportable, is_stun_message, Stun, ReportedListed,
                  TypeInv, WorkerHolds
    <3> DEFINE r == [addr |-> waddr, ufrag |-> buffer.remote]
    <3>2. r \in Report /\ r.addr = waddr
      BY <3>1
    <3>3. new_addr_ch' = Append(new_addr_ch, r)
      BY <2>1 DEF try_send
    <3> HIDE DEF r, Report
    <3>4. new_addr_ch'[Len(new_addr_ch')] = r
      BY ONLY <2>ch, <3>2, <3>3, AppendProperties
    <3> QED  BY <3>1, <3>2, <3>4
  <2>2. CASE TakeNewAddr
    <3> HIDE DEF Report
    <3>1. Len(new_addr_ch') = Len(new_addr_ch) - 1 /\ Len(new_addr_ch) \in Nat
      BY ONLY <2>ch, <2>2, HeadTailProperties, LenProperties DEF TakeNewAddr
    <3> QED  BY <3>1
  <2>3. CASE DropReceiver
    BY <2>ch, <2>3 DEF DropReceiver
  <2>4. CASE UNCHANGED new_addr_ch
    BY <2>ch, <2>4
  <2>5. Next => \/ try_send \/ TakeNewAddr \/ DropReceiver \/ UNCHANGED new_addr_ch
    <3> USE DEF chanVars
    <3>1. ASSUME NEW p \in Callers, CallerBegins(p) \/ CallerStep(p)
          PROVE  UNCHANGED new_addr_ch
      BY <3>1 DEF CallerBegins, get_conn, remove_conn_by_ufrag, close, CallerStep,
         GetConnStep, get_conn_existing, get_conn_create, get_conn_no_local_addr,
         CloseStep, close_take_tx, close_take_conns, close_conn, close_address_map,
         close_new_addrs, RemoveStep, remove_from_conns, remove_from_address_map
    <3>2. ASSUME NEW c \in Conns, WatcherStep(c) \/ OwnerCloses(c)
          PROVE  UNCHANGED new_addr_ch
      BY <3>2 DEF WatcherStep, close_rx_changed, RemoveStep, remove_from_conns,
                  remove_from_address_map, OwnerCloses
    <3>3. ASSUME NEW c \in Conns, NEW a \in Addrs, SendTo(c, a) \/ RegisterStep(c, a)
          PROVE  UNCHANGED new_addr_ch
      BY <3>3 DEF SendTo, RegisterStep, register_is_closed,
         register_conn_for_address, register_new_addrs
    <3>4. CASE WorkerStep \/ closed_watch_changed \/ recv_error
      BY <3>4 DEF WorkerStep, conn_from_stun_message, write_packet, not_reported,
         hex_to_cow_panics, try_send_fails, insert_new_addr, closed_watch_changed,
         recv_error
    <3>5. ASSUME NEW a \in Addrs, NEW d \in Datagrams, recv_from(a, d)
          PROVE  UNCHANGED new_addr_ch
      BY <3>5 DEF recv_from
    <3> QED  BY <3>1, <3>2, <3>3, <3>4, <3>5 DEF Next
  <2> QED  BY <2>1, <2>2, <2>3, <2>4, <2>5
<1> QED
  BY <1>1, TypesHold, ReportedListedHolds, PTL DEF Spec, ReportOnce

-----------------------------------------------------------------------------
(***************************************************************************)
(* Delivery.  A conn is in conns under its own ufrag only; a conn that has *)
(* no ufrag yet is not in conns at all, so creating one disturbs nothing.  *)
(***************************************************************************)
ConnsKeyed == \A u \in Ufrags : conns[u] # None => key[conns[u]] = u

(* Every step keeps ConnsKeyed.                                            *)
LEMMA NextConnsKeyed == TypeInv /\ ConnsKeyed /\ [Next]_vars => ConnsKeyed'
<1> SUFFICES ASSUME TypeInv, ConnsKeyed, [Next]_vars PROVE ConnsKeyed'
  OBVIOUS
<1> USE UdpMuxAssumption DEF connVars, taskVars, workerVars, chanVars
<1>ty. /\ conns \in [Ufrags -> Conns \cup {None}]
       /\ key \in [Conns -> Ufrags \cup {None}]
  BY DEF TypeInv, TypeOK
<1>1. ASSUME UNCHANGED key, \A u \in Ufrags : conns'[u] \in {conns[u], None}
      PROVE ConnsKeyed'
  BY <1>1 DEF ConnsKeyed
<1>2. ASSUME NEW p \in Callers, CallerBegins(p) PROVE ConnsKeyed'
  BY <1>1, <1>2 DEF CallerBegins, get_conn, remove_conn_by_ufrag, close
<1>3. ASSUME NEW p \in Callers, NEW c \in Conns, get_conn_create(p, c)
      PROVE ConnsKeyed'
  <2>1. arg[p] \in Ufrags
    BY <1>3 DEF get_conn_create, TypeInv, ArgsKnown
  <2>2. /\ key[c] = None
        /\ key' = [key EXCEPT ![c] = arg[p]]
        /\ conns' = [conns EXCEPT ![arg[p]] = c]
    BY <1>3 DEF get_conn_create, create_muxed_conn
  <2>3. \A u \in Ufrags : conns[u] # c
    BY <2>2 DEF ConnsKeyed
  <2> QED  BY <1>ty, <2>1, <2>2, <2>3 DEF ConnsKeyed
<1>4. ASSUME NEW p \in Callers, get_conn_existing(p) \/ get_conn_no_local_addr(p)
      PROVE ConnsKeyed'
  BY <1>1, <1>4 DEF get_conn_existing, get_conn_no_local_addr
<1>5. ASSUME NEW p \in Callers, CloseStep(p) PROVE ConnsKeyed'
  BY <1>1, <1>5 DEF CloseStep, close_take_tx, close_take_conns, close_conn,
     close_address_map, close_new_addrs
<1>6. ASSUME NEW t \in Tasks, RemoveStep(t) PROVE ConnsKeyed'
  BY <1>1, <1>ty, <1>6 DEF RemoveStep, remove_from_conns, remove_from_address_map
<1>7. ASSUME NEW c \in Conns, close_rx_changed(c) \/ OwnerCloses(c) PROVE ConnsKeyed'
  BY <1>1, <1>7 DEF close_rx_changed, OwnerCloses
<1>8. ASSUME NEW c \in Conns, NEW a \in Addrs, SendTo(c, a) \/ RegisterStep(c, a)
      PROVE ConnsKeyed'
  BY <1>1, <1>8 DEF SendTo, RegisterStep, register_is_closed, register_conn_for_address,
     register_new_addrs
<1>9. CASE WorkerStep \/ closed_watch_changed \/ recv_error
  BY <1>1, <1>9 DEF WorkerStep, conn_from_stun_message, write_packet, not_reported,
     hex_to_cow_panics, try_send_fails, try_send, insert_new_addr,
     closed_watch_changed, recv_error
<1>10. ASSUME NEW a \in Addrs, NEW d \in Datagrams, recv_from(a, d) PROVE ConnsKeyed'
  BY <1>1, <1>10 DEF recv_from
<1>11. CASE TakeNewAddr \/ DropReceiver \/ UNCHANGED vars
  BY <1>1, <1>11 DEF TakeNewAddr, DropReceiver, vars
<1> QED
  BY <1>2, <1>3, <1>4, <1>5, <1>6, <1>7, <1>8, <1>9, <1>10, <1>11
  DEF Next, CallerStep, GetConnStep, WatcherStep

(* ConnsKeyed holds in every reachable state.                              *)
THEOREM ConnsKeyedHolds == Spec => []ConnsKeyed
<1>1. Init => ConnsKeyed
  BY DEF Init, ConnsKeyed
<1> QED  BY <1>1, TypesHold, NextConnsKeyed, PTL DEF Spec

(***************************************************************************)
(* The worker looks up for a datagram only a conn that has sent to its     *)
(* source address or whose ufrag its username names, although routes and   *)
(* conns change under it between the two look-ups; for one too short to be *)
(* decoded, the username left in the buffer.                               *)
(***************************************************************************)
THEOREM DeliveredToOwner == Spec => RoutedToOwner
<1> DEFINE Step == wpc # "write" /\ wpc' = "write" =>
                     \/ wpc = "recv" /\ Accounted(wconn', waddr')
                     \/ wpc = "by_ufrag" /\ key[wconn'] = Decoded.local
<1>1. TypeInv /\ RoutesInv /\ ConnsKeyed /\ [Next]_vars => [Step]_vars
  <2> SUFFICES ASSUME TypeInv, RoutesInv, ConnsKeyed, Next PROVE Step
    BY DEF vars
  <2> USE DEF workerVars
  <2>1. ASSUME NEW a \in Addrs, NEW d \in Datagrams, recv_from(a, d) PROVE Step
    <3>1. address_map[a] \in Conns \cup {None}
      BY DEF TypeInv, TypeOK
    <3>2. waddr' = a /\ wconn' = address_map[a] /\ wpc = "recv"
      BY <2>1 DEF recv_from
    <3>3. address_map[a] # None => Accounted(address_map[a], a)
      BY <3>1 DEF RoutesInv, RoutesAccounted
    <3>4. wpc' = "write" => address_map[a] # None
      BY <2>1 DEF recv_from
    <3> QED  BY <3>2, <3>3, <3>4 DEF Accounted
  <2>2. CASE conn_from_stun_message
    <3>1. Decoded = buffer
      BY <2>2 DEF conn_from_stun_message, TypeInv, WorkerHolds, Decoded
    <3>2. buffer.local \in Ufrags
      BY <2>2 DEF conn_from_stun_message, TypeInv, WorkerHolds, Stun
    <3> QED  BY <2>2, <3>1, <3>2 DEF conn_from_stun_message, ConnsKeyed
  <2>3. CASE UNCHANGED wpc \/ wpc' # "write"
    BY <2>3
  <2>4. \/ \E a \in Addrs, d \in Datagrams : recv_from(a, d)
        \/ conn_from_stun_message
        \/ UNCHANGED wpc
        \/ wpc' # "write"
    <3>1. ASSUME NEW p \in Callers, CallerBegins(p) \/ CallerStep(p)
          PROVE  UNCHANGED wpc
      BY <3>1 DEF CallerBegins, get_conn, remove_conn_by_ufrag, close, CallerStep,
         GetConnStep, get_conn_existing, get_conn_create, get_conn_no_local_addr,
         CloseStep, close_take_tx, close_take_conns, close_conn, close_address_map,
         close_new_addrs, RemoveStep, remove_from_conns, remove_from_address_map
    <3>2. ASSUME NEW c \in Conns, WatcherStep(c) \/ OwnerCloses(c)
          PROVE  UNCHANGED wpc
      BY <3>2 DEF WatcherStep, close_rx_changed, RemoveStep, remove_from_conns,
                  remove_from_address_map, OwnerCloses
    <3>3. ASSUME NEW c \in Conns, NEW a \in Addrs, SendTo(c, a) \/ RegisterStep(c, a)
          PROVE  UNCHANGED wpc
      BY <3>3 DEF SendTo, RegisterStep, register_is_closed,
         register_conn_for_address, register_new_addrs
    <3>4. CASE WorkerStep \/ closed_watch_changed \/ recv_error
      BY <3>4 DEF WorkerStep, write_packet, not_reported, hex_to_cow_panics,
         try_send_fails, try_send, insert_new_addr, closed_watch_changed, recv_error,
         WorkerTurns
    <3>5. CASE TakeNewAddr \/ DropReceiver
      BY <3>5 DEF TakeNewAddr, DropReceiver
    <3> QED  BY <3>1, <3>2, <3>3, <3>4, <3>5 DEF Next
  <2> QED  BY <2>1, <2>2, <2>3, <2>4
<1> QED
  BY <1>1, TypesHold, RoutesInvHolds, ConnsKeyedHolds, PTL DEF Spec, RoutedToOwner

-----------------------------------------------------------------------------
(* Every step keeps ListedWatched.                                         *)
LEMMA NextListedWatched ==
  TypeInv /\ ConnsKeyed /\ ListedWatched /\ [Next]_vars => ListedWatched'
<1> SUFFICES ASSUME TypeInv, ConnsKeyed, ListedWatched, [Next]_vars PROVE ListedWatched'
  OBVIOUS
<1> USE UdpMuxAssumption DEF connVars, taskVars, workerVars, chanVars, Go, Finish
<1>ty. /\ conns \in [Ufrags -> Conns \cup {None}]
       /\ pc \in [Tasks -> CallerPC \cup WatcherPC]
       /\ arg \in [Tasks -> Ufrags \cup {None}]
       /\ Callers \subseteq Tasks /\ Conns \subseteq Tasks
  BY DEF TypeInv, TypeOK, Tasks
<1>1. ASSUME \A u \in Ufrags : conns'[u] \in {conns[u], None},
             \A c \in Conns : pc'[c] = pc[c] /\ arg'[c] = arg[c]
      PROVE  ListedWatched'
  BY <1>1, <1>ty DEF ListedWatched
<1>2. ASSUME NEW p \in Callers, CallerBegins(p) PROVE ListedWatched'
  BY <1>1, <1>2, <1>ty DEF CallerBegins, get_conn, remove_conn_by_ufrag, close
<1>3. ASSUME NEW p \in Callers, NEW c \in Conns, get_conn_create(p, c)
      PROVE  ListedWatched'
  <2>1. arg[p] \in Ufrags /\ p # c
    BY <1>3 DEF get_conn_create, TypeInv, ArgsKnown
  <2>2. /\ key[c] = None
        /\ conns' = [conns EXCEPT ![arg[p]] = c]
        /\ pc' = [pc EXCEPT ![p] = "idle", ![c] = "watching"]
        /\ arg' = [arg EXCEPT ![p] = None, ![c] = arg[p]]
    BY <1>3 DEF get_conn_create, create_muxed_conn
  <2>3. \A u \in Ufrags : conns[u] # c
    BY <2>2 DEF ConnsKeyed
  <2>4. \A e \in Conns : IF e = c THEN pc'[e] = "watching" /\ arg'[e] = arg[p]
                                  ELSE pc'[e] = pc[e] /\ arg'[e] = arg[e]
    BY <1>ty, <2>1, <2>2
  <2> QED  BY <1>ty, <2>1, <2>2, <2>3, <2>4 DEF ListedWatched
<1>4. ASSUME NEW p \in Callers, get_conn_existing(p) \/ get_conn_no_local_addr(p)
      PROVE  ListedWatched'
  BY <1>1, <1>4, <1>ty DEF get_conn_existing, get_conn_no_local_addr
<1>5. ASSUME NEW p \in Callers, CloseStep(p) PROVE ListedWatched'
  BY <1>1, <1>5, <1>ty DEF CloseStep, close_take_tx, close_take_conns, close_conn,
     close_address_map, close_new_addrs
<1>6. ASSUME NEW t \in Tasks, remove_from_conns(t) PROVE ListedWatched'
  <2>1. /\ conns' = [conns EXCEPT ![arg[t]] = None] /\ arg[t] \in Ufrags
        /\ \A e \in Tasks \ {t} : pc'[e] = pc[e] /\ arg'[e] = arg[e]
    BY <1>6, <1>ty DEF remove_from_conns, TypeInv, ArgsKnown
  <2>2. \A u \in Ufrags : conns'[u] # None => conns'[u] = conns[u] /\ u # arg[t]
    BY <1>ty, <2>1
  <2> QED  BY <1>ty, <2>1, <2>2 DEF ListedWatched
<1>7. ASSUME NEW t \in Tasks, remove_from_address_map(t) PROVE ListedWatched'
  <2>1. /\ pc[t] = "purge" /\ UNCHANGED conns
        /\ \A e \in Tasks \ {t} : pc'[e] = pc[e] /\ arg'[e] = arg[e]
    BY <1>7, <1>ty DEF remove_from_address_map
  <2> QED  BY <1>ty, <2>1 DEF ListedWatched
<1>8. ASSUME NEW c \in Conns, close_rx_changed(c) PROVE ListedWatched'
  BY <1>8, <1>ty DEF close_rx_changed, ListedWatched
<1>9. ASSUME NEW c \in Conns, OwnerCloses(c) PROVE ListedWatched'
  BY <1>1, <1>9 DEF OwnerCloses
<1>10. ASSUME NEW c \in Conns, NEW a \in Addrs, SendTo(c, a) \/ RegisterStep(c, a)
       PROVE  ListedWatched'
  BY <1>1, <1>10 DEF SendTo, RegisterStep, register_is_closed,
     register_conn_for_address, register_new_addrs
<1>11. CASE WorkerStep \/ closed_watch_changed \/ recv_error
  BY <1>1, <1>11 DEF WorkerStep, conn_from_stun_message, write_packet, not_reported,
     hex_to_cow_panics, try_send_fails, try_send, insert_new_addr,
     closed_watch_changed, recv_error
<1>12. ASSUME NEW a \in Addrs, NEW d \in Datagrams, recv_from(a, d) PROVE ListedWatched'
  BY <1>1, <1>12 DEF recv_from
<1>13. CASE TakeNewAddr \/ DropReceiver \/ UNCHANGED vars
  BY <1>1, <1>13 DEF TakeNewAddr, DropReceiver, vars
<1> QED
  BY <1>2, <1>3, <1>4, <1>5, <1>6, <1>7, <1>8, <1>9, <1>10, <1>11, <1>12, <1>13, <1>ty
  DEF Next, CallerStep, GetConnStep, WatcherStep, RemoveStep

(***************************************************************************)
(* ListedWatched: what ClosedConnRemoved rests on.  No conn that get_conn  *)
(* can hand out has lost the task that takes it out once it is closed.     *)
(***************************************************************************)
THEOREM ListedConnsWatched == Spec => []ListedWatched
<1>1. Init => ListedWatched
  BY UdpMuxAssumption DEF Init, ListedWatched
<1> QED  BY <1>1, TypesHold, ConnsKeyedHolds, NextListedWatched, PTL DEF Spec
=============================================================================
