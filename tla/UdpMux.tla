------------------------------- MODULE UdpMux -------------------------------
(***************************************************************************)
(* The UDP multiplexer of src/udp_mux.rs: one UDP socket shared by all the *)
(* ICE connections of a transport.  A worker task reads datagrams and      *)
(* routes each one to a UDPMuxConn, by the source address if that address  *)
(* has been registered, else by the ufrag in a STUN message; a STUN        *)
(* message that matches nothing is reported to the listener as a new       *)
(* address.  get_conn, remove_conn_by_ufrag, close and                     *)
(* register_conn_for_address run concurrently with the worker on other     *)
(* tasks.  Each of them is split where it releases one lock and takes the  *)
(* next one, since other tasks may run there.                              *)
(*                                                                         *)
(* UDPMuxConn itself is code of the webrtc-ice crate and is modelled from  *)
(* the calls udp_mux.rs makes on it.                                       *)
(***************************************************************************)
EXTENDS Naturals, Sequences

CONSTANTS
  Addrs,          \* remote socket addresses
  Ufrags,         \* ICE user fragments
  BadHex,         \* the ufrags that are not 32 bytes in hexadecimal
  Conns,          \* identities of UDPMuxConn objects (bounds how many are created)
  Callers,        \* tasks that call the UDPMux trait
  Datagrams,      \* what the socket may deliver
  NewAddrBuffer,  \* the argument of mpsc::channel in transport.rs
  CloseForgets,   \* does UDPMuxConn::close empty the conn's address set?
  Data, Short, None

(***************************************************************************)
(* A datagram is abstracted to what its bytes decode to.  A STUN message   *)
(* with a username carries the receiver's ufrag (local) and the sender's   *)
(* (remote).  Data stands for every datagram without a readable username:  *)
(* DTLS records, STUN responses, malformed messages.  Short is a datagram  *)
(* that ends before the STUN magic cookie (an empty one, for example).     *)
(***************************************************************************)
Stun == [local : Ufrags, remote : Ufrags]

ASSUME UdpMuxAssumption ==
  /\ BadHex \subseteq Ufrags
  /\ Datagrams \subseteq Stun \cup {Data, Short}
  /\ Data \notin Stun /\ Short \notin Stun /\ Data # Short
  /\ None \notin Conns \cup Ufrags \cup Addrs \cup Stun \cup {Data, Short}
  /\ Callers \cap Conns = {}
  /\ NewAddrBuffer \in Nat
  /\ CloseForgets \in BOOLEAN

(***************************************************************************)
(* The task that get_conn spawns for a conn is named after the conn.       *)
(***************************************************************************)
Tasks == Callers \cup Conns

VARIABLES
  conns,          \* ufrag -> UDPMuxConn
  address_map,    \* address -> UDPMuxConn
  new_addrs,      \* addresses reported and not yet established
  closed,         \* closed_watch_tx is None
  key,            \* the ufrag a UDPMuxConn was created with, None before that
  addresses,      \* the addresses a UDPMuxConn has sent to
  conn_closed,    \* the UDPMuxConn was closed, or its last handle dropped
  pc, arg, todo,  \* tasks: where they are, their ufrag, the conns still to handle
  register,       \* progress of register_conn_for_address, per conn and address
  wpc, waddr, wconn, datagram,  \* worker: where it is, and the datagram in hand
  buffer,         \* what the whole receive buffer decodes to
  new_addr_ch,    \* the new-address channel
  rx_alive,       \* its receiver exists
  reported        \* history: reported, and not established since

connVars   == <<key, addresses, conn_closed>>
taskVars   == <<pc, arg, todo>>
workerVars == <<wpc, waddr, wconn, datagram, buffer>>
chanVars   == <<new_addr_ch, rx_alive>>
vars == <<conns, address_map, new_addrs, closed, connVars, taskVars, register,
          workerVars, chanVars, reported>>

CallerPC == {"idle", "get", "remove", "purge", "take", "drain", "close_conns",
             "clear_new"}
WatcherPC == {"unborn", "watching", "remove", "purge", "done"}

TypeOK ==
  /\ conns \in [Ufrags -> Conns \cup {None}]
  /\ address_map \in [Addrs -> Conns \cup {None}]
  /\ new_addrs \subseteq Addrs
  /\ closed \in BOOLEAN
  /\ key \in [Conns -> Ufrags \cup {None}]
  /\ addresses \in [Conns -> SUBSET Addrs]
  /\ conn_closed \in [Conns -> BOOLEAN]
  /\ pc \in [Tasks -> CallerPC \cup WatcherPC]
  /\ arg \in [Tasks -> Ufrags \cup {None}]
  /\ todo \in [Tasks -> SUBSET Conns]
  /\ register \in [Conns \X Addrs -> {"idle", "check", "insert", "unlist"}]
  /\ wpc \in {"recv", "by_ufrag", "write", "report", "insert", "stopped"}
  /\ waddr \in Addrs \cup {None}
  /\ wconn \in Conns \cup {None}
  /\ datagram \in Stun \cup {Data, Short, None}
  /\ buffer \in Stun \cup {Data}
  /\ new_addr_ch \in Seq([addr : Addrs, ufrag : Ufrags])
  /\ rx_alive \in BOOLEAN
  /\ reported \subseteq Addrs

(***************************************************************************)
(* UDPMuxNewAddr::new: the zeroed buffer is not a STUN message.            *)
(***************************************************************************)
Init ==
  /\ conns = [u \in Ufrags |-> None]
  /\ address_map = [a \in Addrs |-> None]
  /\ new_addrs = {}
  /\ closed = FALSE
  /\ key = [c \in Conns |-> None]
  /\ addresses = [c \in Conns |-> {}]
  /\ conn_closed = [c \in Conns |-> FALSE]
  /\ pc = [t \in Tasks |-> IF t \in Callers THEN "idle" ELSE "unborn"]
  /\ arg = [t \in Tasks |-> None]
  /\ todo = [t \in Tasks |-> {}]
  /\ register = [ca \in Conns \X Addrs |-> "idle"]
  /\ wpc = "recv" /\ waddr = None /\ wconn = None /\ datagram = None
  /\ buffer = Data
  /\ new_addr_ch = <<>>
  /\ rx_alive = TRUE
  /\ reported = {}

-----------------------------------------------------------------------------
(* Tasks: starting a call, moving on, and ending it.                       *)

Go(t, from, to) == pc[t] = from /\ pc' = [pc EXCEPT ![t] = to]

Finish(t, from) ==
  /\ Go(t, from, IF t \in Callers THEN "idle" ELSE "done")
  /\ arg' = [arg EXCEPT ![t] = None]

-----------------------------------------------------------------------------
(* get_conn.  A call on a closed mux returns ErrUseClosedNetworkConn and   *)
(* changes nothing.                                                        *)

get_conn(p, u) ==
  /\ ~closed
  /\ Go(p, "idle", "get")
  /\ arg' = [arg EXCEPT ![p] = u]
  /\ UNCHANGED <<conns, address_map, new_addrs, closed, connVars, todo,
                 register, workerVars, chanVars, reported>>

(***************************************************************************)
(* The section under the conns lock, kept across create_muxed_conn: return *)
(* the conn of the ufrag, or create it and spawn the task that waits for   *)
(* its closing, or fail if the socket has no local address.                *)
(***************************************************************************)
create_muxed_conn(c, u) ==
  /\ key[c] = None
  /\ key' = [key EXCEPT ![c] = u]
  /\ conns' = [conns EXCEPT ![u] = c]

get_conn_existing(p) ==
  /\ Finish(p, "get")
  /\ conns[arg[p]] # None
  /\ UNCHANGED <<conns, address_map, new_addrs, closed, connVars, todo,
                 register, workerVars, chanVars, reported>>

(* Wrong: looks the ufrag up before it takes the lock, and not again.      *)
get_conn_create_unlocked(p, c) ==
  /\ pc[p] = "get"
  /\ create_muxed_conn(c, arg[p])
  /\ pc' = [pc EXCEPT ![p] = "idle", ![c] = "watching"]
  /\ arg' = [arg EXCEPT ![p] = None, ![c] = arg[p]]
  /\ UNCHANGED <<address_map, new_addrs, closed, addresses, conn_closed, todo,
                 register, workerVars, chanVars, reported>>

get_conn_create(p, c) ==
  /\ pc[p] = "get"
  /\ conns[arg[p]] = None
  /\ create_muxed_conn(c, arg[p])
  /\ pc' = [pc EXCEPT ![p] = "idle", ![c] = "watching"]
  /\ arg' = [arg EXCEPT ![p] = None, ![c] = arg[p]]
  /\ UNCHANGED <<address_map, new_addrs, closed, addresses, conn_closed, todo,
                 register, workerVars, chanVars, reported>>

get_conn_no_local_addr(p) ==
  /\ Finish(p, "get")
  /\ conns[arg[p]] = None
  /\ UNCHANGED <<conns, address_map, new_addrs, closed, connVars, todo,
                 register, workerVars, chanVars, reported>>

-----------------------------------------------------------------------------
(* UDPMuxConn::close, called by close below and by the owner of the conn.  *)

CloseConn(c) ==
  /\ conn_closed' = [conn_closed EXCEPT ![c] = TRUE]
  /\ addresses' = IF CloseForgets THEN [addresses EXCEPT ![c] = {}]
                                  ELSE addresses

OwnerCloses(c) ==
  /\ key[c] # None
  /\ ~conn_closed[c]
  /\ CloseConn(c)
  /\ UNCHANGED <<conns, address_map, new_addrs, closed, key, taskVars,
                 register, workerVars, chanVars, reported>>

(***************************************************************************)
(* remove_conn_by_ufrag, called by the owner of a conn or by the task that *)
(* watches a conn, once close_rx has changed.  It takes the conn out under *)
(* the conns lock, then its addresses under the address_map lock.          *)
(***************************************************************************)
remove_conn_by_ufrag(p, u) ==
  /\ Go(p, "idle", "remove")
  /\ arg' = [arg EXCEPT ![p] = u]
  /\ UNCHANGED <<conns, address_map, new_addrs, closed, connVars, todo,
                 register, workerVars, chanVars, reported>>

close_rx_changed(c) ==
  /\ conn_closed[c]
  /\ Go(c, "watching", "remove")
  /\ UNCHANGED <<conns, address_map, new_addrs, closed, connVars, arg, todo,
                 register, workerVars, chanVars, reported>>

(* Wrong: does not look whether the ufrag had a conn.                      *)
remove_from_conns_unchecked(t) ==
  /\ Go(t, "remove", "purge") /\ UNCHANGED arg
  /\ todo' = [todo EXCEPT ![t] = {conns[arg[t]]}]
  /\ conns' = [conns EXCEPT ![arg[t]] = None]
  /\ UNCHANGED <<address_map, new_addrs, closed, connVars, register,
                 workerVars, chanVars, reported>>

(* Wrong: looks the conn up without removing it.                           *)
remove_from_conns_get(t) ==
  /\ pc[t] = "remove"
  /\ IF conns[arg[t]] = None THEN Finish(t, "remove")
                             ELSE Go(t, "remove", "purge") /\ UNCHANGED arg
  /\ todo' = [todo EXCEPT ![t] = {conns[arg[t]]} \ {None}]
  /\ UNCHANGED <<conns, address_map, new_addrs, closed, connVars, register,
                 workerVars, chanVars, reported>>

remove_from_conns(t) ==
  /\ pc[t] = "remove"
  /\ IF conns[arg[t]] = None THEN Finish(t, "remove")
                             ELSE Go(t, "remove", "purge") /\ UNCHANGED arg
  /\ todo' = [todo EXCEPT ![t] = {conns[arg[t]]} \ {None}]
  /\ conns' = [conns EXCEPT ![arg[t]] = None]
  /\ UNCHANGED <<address_map, new_addrs, closed, connVars, register,
                 workerVars, chanVars, reported>>

remove_from_address_map(t) ==
  /\ Finish(t, "purge")
  /\ address_map' = [a \in Addrs |->
       IF \E c \in todo[t] : a \in addresses[c] THEN None ELSE address_map[a]]
  /\ todo' = [todo EXCEPT ![t] = {}]
  /\ UNCHANGED <<conns, new_addrs, closed, connVars, register,
                 workerVars, chanVars, reported>>

-----------------------------------------------------------------------------
(* close.  Two calls may both find the mux open; only one takes the        *)
(* sender, the other returns Ok.                                           *)

close(p) ==
  /\ ~closed
  /\ Go(p, "idle", "take")
  /\ UNCHANGED <<conns, address_map, new_addrs, closed, connVars, arg, todo,
                 register, workerVars, chanVars, reported>>

(* Wrong: relies on the is_closed of close instead of taking the sender.   *)
close_take_tx_unchecked(p) ==
  /\ Go(p, "take", "drain")
  /\ closed' = TRUE
  /\ UNCHANGED <<conns, address_map, new_addrs, connVars, arg, todo, register,
                 workerVars, chanVars, reported>>

close_take_tx(p) ==
  /\ Go(p, "take", IF closed THEN "idle" ELSE "drain")
  /\ closed' = TRUE
  /\ UNCHANGED <<conns, address_map, new_addrs, connVars, arg, todo, register,
                 workerVars, chanVars, reported>>

close_take_conns(p) ==
  /\ Go(p, "drain", "close_conns")
  /\ todo' = [todo EXCEPT ![p] = {conns[u] : u \in Ufrags} \ {None}]
  /\ conns' = [u \in Ufrags |-> None]
  /\ UNCHANGED <<address_map, new_addrs, closed, connVars, arg, register,
                 workerVars, chanVars, reported>>

close_conn(p, c) ==
  /\ pc[p] = "close_conns"
  /\ c \in todo[p]
  /\ CloseConn(c)
  /\ todo' = [todo EXCEPT ![p] = @ \ {c}]
  /\ UNCHANGED <<conns, address_map, new_addrs, closed, key, pc, arg, register,
                 workerVars, chanVars, reported>>

close_address_map(p) ==
  /\ todo[p] = {}
  /\ Go(p, "close_conns", "clear_new")
  /\ address_map' = [a \in Addrs |-> None]
  /\ UNCHANGED <<conns, new_addrs, closed, connVars, arg, todo, register,
                 workerVars, chanVars, reported>>

close_new_addrs(p) ==
  /\ Go(p, "clear_new", "idle")
  /\ new_addrs' = {}
  /\ reported' = {}
  /\ UNCHANGED <<conns, address_map, closed, connVars, arg, todo, register,
                 workerVars, chanVars>>

-----------------------------------------------------------------------------
(* A UDPMuxConn that sends to an address for the first time records it and *)
(* calls register_conn_for_address, which returns at once if the mux is    *)
(* closed.  One such call is under way at a time for a conn and an address.*)

SendTo(c, a) ==
  /\ key[c] # None
  /\ a \notin addresses[c]
  /\ register[<<c, a>>] = "idle"
  /\ addresses' = [addresses EXCEPT ![c] = @ \cup {a}]
  /\ register' = [register EXCEPT ![<<c, a>>] = "check"]
  /\ UNCHANGED <<conns, address_map, new_addrs, closed, key, conn_closed,
                 taskVars, workerVars, chanVars, reported>>

register_is_closed(c, a) ==
  /\ register[<<c, a>>] = "check"
  /\ register' = [register EXCEPT ![<<c, a>>] = IF closed THEN "idle" ELSE "insert"]
  /\ UNCHANGED <<conns, address_map, new_addrs, closed, connVars, taskVars,
                 workerVars, chanVars, reported>>

(* Wrong: a take-over removes the address from the conn that gains it.     *)
register_wrong_conn(c, a) ==
  LET e == address_map[a]
      takeOver == IF e = None THEN FALSE ELSE key[e] # key[c]
  IN
  /\ register[<<c, a>>] = "insert"
  /\ register' = [register EXCEPT ![<<c, a>>] = "unlist"]
  /\ address_map' = [address_map EXCEPT
                       ![a] = IF e = None \/ takeOver THEN c ELSE e]
  /\ addresses' = IF takeOver THEN [addresses EXCEPT ![c] = @ \ {a}]
                              ELSE addresses
  /\ UNCHANGED <<conns, new_addrs, closed, key, conn_closed, taskVars,
                 workerVars, chanVars, reported>>

(***************************************************************************)
(* Under the address_map lock: a vacant entry is filled, an entry of a     *)
(* conn with another key is taken over, an entry of a conn with the same   *)
(* key is left alone.                                                      *)
(***************************************************************************)
register_conn_for_address(c, a) ==
  LET e == address_map[a]
      takeOver == IF e = None THEN FALSE ELSE key[e] # key[c]
  IN
  /\ register[<<c, a>>] = "insert"
  /\ register' = [register EXCEPT ![<<c, a>>] = "unlist"]
  /\ address_map' = [address_map EXCEPT
                       ![a] = IF e = None \/ takeOver THEN c ELSE e]
  /\ addresses' = IF takeOver THEN [addresses EXCEPT ![e] = @ \ {a}]
                              ELSE addresses
  /\ UNCHANGED <<conns, new_addrs, closed, key, conn_closed, taskVars,
                 workerVars, chanVars, reported>>

register_new_addrs(c, a) ==
  /\ register[<<c, a>>] = "unlist"
  /\ register' = [register EXCEPT ![<<c, a>>] = "idle"]
  /\ new_addrs' = new_addrs \ {a}
  /\ reported' = reported \ {a}
  /\ UNCHANGED <<conns, address_map, closed, connVars, taskVars, workerVars,
                 chanVars>>

-----------------------------------------------------------------------------
(* The worker.  A datagram overwrites the front of the buffer only, and    *)
(* the whole buffer is decoded afterwards.                                 *)

AfterRecv(d) == IF d = Short THEN buffer ELSE d

is_stun_message(b) == b \in Stun

recv_from(a, d) ==
  /\ wpc = "recv"
  /\ waddr' = a
  /\ datagram' = d
  /\ buffer' = AfterRecv(d)
  /\ wconn' = address_map[a]
  /\ wpc' = IF address_map[a] # None THEN "write"
            ELSE IF is_stun_message(buffer') THEN "by_ufrag" ELSE "report"
  /\ UNCHANGED <<conns, address_map, new_addrs, closed, connVars, taskVars,
                 register, chanVars, reported>>

(* Wrong: looks up the sender's half of the username.                      *)
conn_from_remote_ufrag ==
  /\ wpc = "by_ufrag"
  /\ wconn' = conns[buffer.remote]
  /\ wpc' = IF wconn' = None THEN "report" ELSE "write"
  /\ UNCHANGED <<conns, address_map, new_addrs, closed, connVars, taskVars,
                 register, waddr, datagram, buffer, chanVars, reported>>

conn_from_stun_message ==
  /\ wpc = "by_ufrag"
  /\ wconn' = conns[buffer.local]
  /\ wpc' = IF wconn' = None THEN "report" ELSE "write"
  /\ UNCHANGED <<conns, address_map, new_addrs, closed, connVars, taskVars,
                 register, waddr, datagram, buffer, chanVars, reported>>

WorkerTurns(next) ==
  /\ wpc' = next
  /\ waddr' = None /\ wconn' = None /\ datagram' = None
  /\ UNCHANGED buffer

(* The packet is queued on the conn or the failure is logged.              *)
write_packet ==
  /\ wpc = "write"
  /\ WorkerTurns("recv")
  /\ UNCHANGED <<conns, address_map, new_addrs, closed, connVars, taskVars,
                 register, chanVars, reported>>

(* The address is known already, or no username can be decoded.            *)
not_reported ==
  /\ wpc = "report"
  /\ waddr \in new_addrs \/ ~is_stun_message(buffer)
  /\ WorkerTurns("recv")
  /\ UNCHANGED <<conns, address_map, new_addrs, closed, connVars, taskVars,
                 register, chanVars, reported>>

(* hex_to_cow panics on a ufrag that is not a fingerprint.                 *)
hex_to_cow_panics ==
  /\ wpc = "report"
  /\ waddr \notin new_addrs /\ is_stun_message(buffer)
  /\ buffer.remote \in BadHex
  /\ WorkerTurns("stopped")
  /\ UNCHANGED <<conns, address_map, new_addrs, closed, connVars, taskVars,
                 register, chanVars, reported>>

(***************************************************************************)
(* try_send fails when the receiver is gone or the channel holds its       *)
(* buffer and the one message the single sender is always granted.         *)
(***************************************************************************)
CanSend == rx_alive /\ Len(new_addr_ch) <= NewAddrBuffer

Reportable ==
  /\ wpc = "report"
  /\ waddr \notin new_addrs
  /\ is_stun_message(buffer)
  /\ buffer.remote \notin BadHex

(* Wrong: lists the address although the channel was full.                 *)
try_send_fails_listed ==
  /\ Reportable
  /\ ~CanSend
  /\ new_addrs' = new_addrs \cup {waddr}
  /\ WorkerTurns("recv")
  /\ UNCHANGED <<conns, address_map, closed, connVars, taskVars, register,
                 chanVars, reported>>

try_send_fails ==
  /\ Reportable
  /\ ~CanSend
  /\ WorkerTurns("recv")
  /\ UNCHANGED <<conns, address_map, new_addrs, closed, connVars, taskVars,
                 register, chanVars, reported>>

try_send ==
  /\ Reportable
  /\ CanSend
  /\ new_addr_ch' = Append(new_addr_ch, [addr |-> waddr, ufrag |-> buffer.remote])
  /\ reported' = reported \cup {waddr}
  /\ wpc' = "insert"
  /\ UNCHANGED <<conns, address_map, new_addrs, closed, connVars, taskVars,
                 register, waddr, wconn, datagram, buffer, rx_alive>>

(* Wrong: does not remember that the address was sent.                     *)
forget_new_addr ==
  /\ wpc = "insert"
  /\ WorkerTurns("recv")
  /\ UNCHANGED <<conns, address_map, new_addrs, closed, connVars, taskVars,
                 register, chanVars, reported>>

insert_new_addr ==
  /\ wpc = "insert"
  /\ new_addrs' = new_addrs \cup {waddr}
  /\ WorkerTurns("recv")
  /\ UNCHANGED <<conns, address_map, closed, connVars, taskVars, register,
                 chanVars, reported>>

(* A read error other than a timeout ends the loop.                        *)
recv_error ==
  /\ wpc = "recv"
  /\ WorkerTurns("stopped")
  /\ UNCHANGED <<conns, address_map, new_addrs, closed, connVars, taskVars,
                 register, chanVars, reported>>

(* Wrong: goes on reading instead of returning.                            *)
closed_watch_ignored ==
  /\ wpc = "recv"
  /\ closed
  /\ WorkerTurns("recv")
  /\ UNCHANGED <<conns, address_map, new_addrs, closed, connVars, taskVars,
                 register, chanVars, reported>>

closed_watch_changed ==
  /\ wpc = "recv"
  /\ closed
  /\ WorkerTurns("stopped")
  /\ UNCHANGED <<conns, address_map, new_addrs, closed, connVars, taskVars,
                 register, chanVars, reported>>

-----------------------------------------------------------------------------
(* The listener at the other end of the channel.                           *)

TakeNewAddr ==
  /\ rx_alive
  /\ new_addr_ch # <<>>
  /\ new_addr_ch' = Tail(new_addr_ch)
  /\ UNCHANGED <<conns, address_map, new_addrs, closed, connVars, taskVars,
                 register, workerVars, rx_alive, reported>>

DropReceiver ==
  /\ rx_alive
  /\ rx_alive' = FALSE
  /\ new_addr_ch' = <<>>
  /\ UNCHANGED <<conns, address_map, new_addrs, closed, connVars, taskVars,
                 register, workerVars, reported>>

-----------------------------------------------------------------------------
CallerBegins(p) ==
  \/ \E u \in Ufrags : get_conn(p, u) \/ remove_conn_by_ufrag(p, u)
  \/ close(p)

GetConnStep(p) ==
  \/ get_conn_existing(p)
  \/ \E c \in Conns : get_conn_create(p, c)
  \/ get_conn_no_local_addr(p)

CloseStep(p) ==
  \/ close_take_tx(p)
  \/ close_take_conns(p)
  \/ \E c \in Conns : close_conn(p, c)
  \/ close_address_map(p)
  \/ close_new_addrs(p)

RemoveStep(t) == remove_from_conns(t) \/ remove_from_address_map(t)

CallerStep(p) == GetConnStep(p) \/ CloseStep(p) \/ RemoveStep(p)

WatcherStep(c) == close_rx_changed(c) \/ RemoveStep(c)

RegisterStep(c, a) ==
  \/ register_is_closed(c, a)
  \/ register_conn_for_address(c, a)
  \/ register_new_addrs(c, a)

WorkerStep ==
  \/ conn_from_stun_message
  \/ write_packet
  \/ not_reported
  \/ hex_to_cow_panics
  \/ try_send_fails
  \/ try_send
  \/ insert_new_addr

Next ==
  \/ \E p \in Callers : CallerBegins(p) \/ CallerStep(p)
  \/ \E c \in Conns : WatcherStep(c) \/ OwnerCloses(c)
  \/ \E c \in Conns, a \in Addrs : SendTo(c, a) \/ RegisterStep(c, a)
  \/ \E a \in Addrs, d \in Datagrams : recv_from(a, d)
  \/ WorkerStep
  \/ closed_watch_changed
  \/ recv_error
  \/ TakeNewAddr
  \/ DropReceiver

(***************************************************************************)
(* The runtime keeps polling a task that is ready, so a started call, the  *)
(* watching tasks and the worker go on; nothing makes a caller begin a     *)
(* call, an owner close or use its conn, or the network deliver.  select!  *)
(* picks at random between its ready branches, so a worker that returns to *)
(* it again and again cannot overlook the closing for ever, however many   *)
(* datagrams arrive.                                                       *)
(***************************************************************************)
Fairness ==
  /\ WF_vars(WorkerStep)
  /\ SF_vars(closed_watch_changed)
  /\ \A p \in Callers : WF_vars(CallerStep(p))
  /\ \A c \in Conns : WF_vars(WatcherStep(c))
  /\ \A c \in Conns, a \in Addrs : WF_vars(RegisterStep(c, a))

Spec == Init /\ [][Next]_vars /\ Fairness

-----------------------------------------------------------------------------
(***************************************************************************)
(* What the mux gets right.                                                *)
(***************************************************************************)

(***************************************************************************)
(* Two tasks may call close at once and both may see the mux open, but     *)
(* only the one that takes closed_watch_tx tears it down.                  *)
(***************************************************************************)
TearingDown == {p \in Callers : pc[p] \in {"drain", "close_conns", "clear_new"}}

OneTearDown ==
  /\ \A p, q \in TearingDown : p = q
  /\ TearingDown # {} => closed

(***************************************************************************)
(* An address is reported again only after it has been registered for a    *)
(* conn (or the mux was closed) in between, although the check of          *)
(* new_addrs, the send and the insertion take separate locks and           *)
(* register_conn_for_address may run between them.                         *)
(***************************************************************************)
ReportOnce ==
  [][Len(new_addr_ch') > Len(new_addr_ch)
       => new_addr_ch'[Len(new_addr_ch')].addr \notin reported]_vars

(***************************************************************************)
(* The mux's routes agree with the address sets of the conns: purging the  *)
(* addresses of a conn purges every route to it.  (A crate that forgets    *)
(* the addresses of a conn on close is excused for closed conns.)          *)
(***************************************************************************)
Accounted(c, a) == a \in addresses[c] \/ (CloseForgets /\ conn_closed[c])

RoutesAccounted ==
  \A a \in Addrs, c \in Conns : address_map[a] = c => Accounted(c, a)

(***************************************************************************)
(* The worker picks for a datagram only a conn that has itself sent to its *)
(* source address, or whose ufrag its STUN username names; for a datagram  *)
(* too short to be decoded, the username left in the buffer.  This is of   *)
(* the moment of the look-up: the conn may be gone when the packet is      *)
(* written.                                                                *)
(***************************************************************************)
Decoded == IF datagram \in Stun THEN datagram ELSE buffer

RoutedToOwner ==
  [][wpc # "write" /\ wpc' = "write" =>
       \/ wpc = "recv" /\ Accounted(wconn', waddr')
       \/ wpc = "by_ufrag" /\ key[wconn'] = Decoded.local]_vars

(***************************************************************************)
(* A conn that get_conn can hand out has a task that is still to take it   *)
(* out under its ufrag, also when that ufrag was removed and given to      *)
(* another conn meanwhile: no listed conn is left without one.             *)
(***************************************************************************)
ListedWatched ==
  \A u \in Ufrags, c \in Conns :
    conns[u] = c => pc[c] \in {"watching", "remove"} /\ arg[c] = u

(***************************************************************************)
(* The watching task takes a closed conn out of conns, so that get_conn    *)
(* does not hand out a closed conn for ever.                               *)
(***************************************************************************)
ClosedConnRemoved ==
  \A c \in Conns : conn_closed[c] ~> \A u \in Ufrags : conns[u] # c

(***************************************************************************)
(* Closing the mux stops the worker, even under a stream of datagrams.     *)
(***************************************************************************)
CloseStopsWorker == closed ~> wpc = "stopped"

(***************************************************************************)
(* Split as they are into sections under different locks, the operations   *)
(* implement the service of MuxService: one conn for a ufrag however many  *)
(* get_conn race, removed conns never found again, routes that follow the  *)
(* last ufrag, reports that are not repeated until settled.                *)
(***************************************************************************)
ListedConns == {conns[u] : u \in Ufrags} \ {None}

Service == INSTANCE MuxService WITH
             owner <- key, listed <- ListedConns, route <- address_map,
             pending <- reported, queue <- new_addr_ch, listening <- rx_alive

ImplementsService == Service!Spec

-----------------------------------------------------------------------------
(***************************************************************************)
(* What comments of udp_mux.rs say and the code does not do.               *)
(***************************************************************************)

(***************************************************************************)
(* Comment in close: "we need to drop all instances of `UDPMuxConn` to     *)
(* avoid a retain cycle".  Once close is over the mux holds no conn.       *)
(***************************************************************************)
ClosedDropsConns ==
  closed /\ TearingDown = {} =>
    /\ \A u \in Ufrags : conns[u] = None
    /\ \A a \in Addrs : address_map[a] = None

(***************************************************************************)
(* Comment in remove_conn_by_ufrag: removing by ufrag and removing a conn  *)
(* are "equivalent".  The task that watches a conn removes no other conn.  *)
(***************************************************************************)
WatcherRemovesOwnConn ==
  [][\A c \in Conns : pc[c] = "remove" /\ pc'[c] # "remove"
       => conns[key[c]] \in {c, None}]_vars

(***************************************************************************)
(* Comment in register_conn_for_address: "remove addr from new_addrs once  *)
(* conn is established".  A registered address is not listed as new.       *)
(***************************************************************************)
EstablishedUnlisted ==
  \A a \in Addrs :
    address_map[a] # None /\ (\A c \in Conns : register[<<c, a>>] = "idle")
      => a \notin new_addrs
=============================================================================
