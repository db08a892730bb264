----------------------------- MODULE MuxService -----------------------------
(***************************************************************************)
(* What the UDP mux of src/udp_mux.rs promises to the ICE agents and to    *)
(* the listener, without its worker, tasks and locks: a table of conns,    *)
(* one for a ufrag at most; routes from addresses to conns; and a queue of *)
(* addresses, each of which is reported once until it is settled.          *)
(***************************************************************************)
EXTENDS Sequences

CONSTANTS Addrs, Ufrags, Conns, None

VARIABLES
  owner,     \* the ufrag of a conn, None before it exists
  listed,    \* the conns that a lookup by ufrag finds
  route,     \* address -> conn
  pending,   \* the addresses reported and not settled
  queue,     \* the reports the listener has not taken
  listening  \* there is a listener

vars == <<owner, listed, route, pending, queue, listening>>

Init ==
  /\ owner = [c \in Conns |-> None]
  /\ listed = {}
  /\ route = [a \in Addrs |-> None]
  /\ pending = {}
  /\ queue = <<>>
  /\ listening = TRUE

(* A ufrag gets a conn only while it has none.                             *)
Create(c, u) ==
  /\ owner[c] = None
  /\ \A d \in listed : owner[d] # u
  /\ owner' = [owner EXCEPT ![c] = u]
  /\ listed' = listed \cup {c}
  /\ UNCHANGED <<route, pending, queue, listening>>

(* A conn that is retired is never listed again.                           *)
Retire(S) ==
  /\ listed' = listed \ S
  /\ UNCHANGED <<owner, route, pending, queue, listening>>

(* An address follows the last ufrag that used it.                         *)
Route(c, a) ==
  /\ owner[c] # None
  /\ route[a] # None => owner[route[a]] # owner[c]
  /\ route' = [route EXCEPT ![a] = c]
  /\ UNCHANGED <<owner, listed, pending, queue, listening>>

Unroute(A) ==
  /\ route' = [a \in Addrs |-> IF a \in A THEN None ELSE route[a]]
  /\ UNCHANGED <<owner, listed, pending, queue, listening>>

Report(a, u) ==
  /\ listening
  /\ a \notin pending
  /\ pending' = pending \cup {a}
  /\ queue' = Append(queue, [addr |-> a, ufrag |-> u])
  /\ UNCHANGED <<owner, listed, route, listening>>

Settle(A) ==
  /\ pending' = pending \ A
  /\ UNCHANGED <<owner, listed, route, queue, listening>>

Take ==
  /\ queue # <<>>
  /\ queue' = Tail(queue)
  /\ UNCHANGED <<owner, listed, route, pending, listening>>

Leave ==
  /\ listening' = FALSE
  /\ queue' = <<>>
  /\ UNCHANGED <<owner, listed, route, pending>>

Next ==
  \/ \E c \in Conns, u \in Ufrags : Create(c, u)
  \/ \E S \in SUBSET listed : Retire(S)
  \/ \E c \in Conns, a \in Addrs : Route(c, a)
  \/ \E A \in SUBSET Addrs : Unroute(A) \/ Settle(A)
  \/ \E a \in Addrs, u \in Ufrags : Report(a, u)
  \/ Take
  \/ Leave

Spec == Init /\ [][Next]_vars
=============================================================================
