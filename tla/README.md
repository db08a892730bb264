# libp2p-webrtc-direct: a TLA+ verification project

`libp2p-webrtc-direct` is a libp2p transport that runs WebRTC data channels
straight over UDP: no signalling server, the remote's SDP is made up from its
multiaddress and its certificate's fingerprint. This directory holds TLA+
models of its concurrent parts, TLC configurations, and TLAPS proofs. Paths
below are relative to the repository.

## 1. Inventory

| Part | Source | State | Operations | Talks to |
|---|---|---|---|---|
| UDP mux | `src/udp_mux.rs` | `conns` (ufrag → conn), `address_map` (address → conn), `new_addrs`, `closed_watch_tx`; the worker's receive buffer | `get_conn`, `remove_conn_by_ufrag`, `close`, `register_conn_for_address`, the worker loop, one watching task per conn | `UDPMuxConn` of webrtc-ice; the new-address channel to the listeners |
| Listener stream | `src/transport.rs` 183-361 | `in_addr` (one address, or an `IfWatcher`), `pause`, the shared `Receiver` | `new`, `poll_next` | the mux (channel), the swarm (items), the upgrade |
| Connection | `src/connection.rs`, `src/connection/poll_data_channel.rs` | `map` (identifier → channel), the inbound queue, the `connection_inner` lock, `OutboundSubstream` futures | `poll_event`, `open_outbound`, `poll_outbound`, `destroy_*`, `shutdown_substream`, `flush_all`, `close`, the `on_data_channel` and `on_open` callbacks | the webrtc crate (callbacks), the swarm (polls) |
| Dialing | `src/transport.rs` 363-489 | one future per dial | `do_dial`: offer, answer, first data channel within 10 s, noise, fingerprints, peer-id check | the mux (`get_conn`), the remote's upgrade |
| Inbound upgrade | `src/upgrade.rs` | one future per new address | `webrtc`: the same from the listener's side | as above |
| Transport | `src/transport.rs` 60-181 | the config, the mux, the shared receiver | `new`, `listen_on`, `dial` | builds the parts above |
| Addresses, fingerprints, SDP | `src/transport.rs` 491-605, `src/sdp.rs` | none | pure functions | |

How they interact. The worker of the mux reads every datagram. It goes to a
`UDPMuxConn` by source address, else by the local ufrag of a STUN username; a
STUN message nobody wants is reported through the new-address channel. A
listener stream takes the report and yields an upgrade, which opens a peer
connection over the mux (`get_conn`) and, when its handshake is over, becomes a
`Connection`. Sending to an address registers it with the mux.

What is hard.

* *Locks taken one after the other.* Every operation of the mux takes two to
  four locks in sequence and releases each before the next; the worker checks,
  sends and inserts under different locks. Any other task may run in between.
* *Checks that go stale.* `is_closed` is tested before the locks are taken, the
  watching task of a conn remembers a ufrag only, a substream is destroyed by
  its identifier, the receive buffer outlives the datagram.
* *Wakers.* `poll_next` returns `Pending` from four places. Each must have left
  its waker with whatever brings the next event, and the receiver, shared by
  all listeners, has room for one waker.
* *Callbacks against polls against `close`* in the connection; futures that are
  dropped at an await while they hold a lock.
* *Failures part-way*: an error of the interface watcher, a channel that is not
  created, not detached, not flushed or not shut down; a panic of the worker.
* *Timeouts* in dialing and upgrade, that the two sides do not agree on.

What makes each part correct: routes and address sets of the mux agree, a
datagram reaches only the conn it belongs to, a peer is reported once, closing
happens once and ends the worker, closed conns disappear; a listener's
announcements follow the interfaces, no report waits for ever, errors are
followed by a pause; the connection never leaves its lock taken and its `close`
shuts down what the swarm holds; an established connection ends at the peer
that noise has authenticated, no future waits for a channel for ever, and what
the dialer accepts the listener accepts; the agents of a transport share one
conn, and a peer that keeps trying is upgraded, once. The hazards, line by line,
with the properties that cover them, are listed in `PROJECT.json`.

## 2. Plan

1. `UdpMux`, `MCUdpMux`, `UdpMuxProofs`: the mux. *Done.*
2. `ListenStream`, `ListenStreamProofs`: the listeners and their wakers. *Done.*
3. `Connection`, `ConnectionProofs`: the stream muxer. *Done.*
4. `Handshake`, `MCHandshake`, `HandshakeProofs`: `do_dial` against
   `upgrade::webrtc`, with a relay between the two. *Done.*
5. `MuxService`, `MuxServiceProofs`: the abstract specification of the mux and
   the refinement. *Done.*
6. `Endpoint`, `MCEndpoint`, `EndpointProofs`: mux, listener, upgrades and dials
   composed. *Done.*
7. Proofs: every invariant and action property that a passing run checks is a
   theorem. *Done.* Next, of lesser weight: the action properties of the mux
   (`ReportOnce`, `RoutedToOwner`) restated for a transport, as
   `TransportRefinesService` does for the service.

`Endpoint` extends `UdpMux`, whose variables and actions it uses; `UdpMux`
instantiates `MuxService`. `Handshake`, `ListenStream` and `Connection` stand
alone: `Endpoint` keeps of the handshake only when an agent gets its conn, sends
and ends, and of the listener only that it takes a report and upgrades it.

## 3. Modules and code

Definitions carry the names of the functions they model where TLA+ allows it;
`PROJECT.json` maps each one to its lines. Definitions introduced by a comment
that begins with "Wrong:" are deliberately faulty variants of the definition
that follows them; no specification uses them. They serve to check that a
property would notice that mistake.

### UdpMux

The state is the fields of `UDPMuxNewAddr` plus, for each `UDPMuxConn`, its key,
the addresses it has sent to and whether it is closed. `pc[t]` is where a task
stands: the callers of the `UDPMux` trait, and one watching task per conn, named
after it. One action is one section under a lock (or what happens between two
awaits); `get_conn`, `remove_conn_by_ufrag` and `close` begin a call and
`get_conn_*`, `remove_from_*`, `close_*` go on with it. `register[c, a]` is the
progress of `register_conn_for_address`, which conns call on tasks of their own:
`SendTo` records the address in the conn (the crate's code) and begins the call,
`register_is_closed`, `register_conn_for_address` and `register_new_addrs` are its
three locks. For a conn and an address one such call is under way at a time.
The worker goes through `recv_from`, `conn_from_stun_message`, then
`write_packet` or one of `not_reported`, `hex_to_cow_panics`, `try_send_fails`,
`try_send`; `insert_new_addr` follows the send. The lookup in `address_map` is
part of `recv_from`, the lookup in `conns` is a step of its own.

Abstractions. A datagram is what it decodes to: a STUN message with its two
ufrags, `Data` for anything without a readable username, `Short` for one that
ends before the magic cookie. `buffer` is what the *whole* buffer decodes to,
because the code decodes all of it: a `Short` datagram leaves the earlier message
in place. `try_send` succeeds while the channel holds at most its buffer: the
futures crate grants each sender one slot beyond it. `UDPMuxConn` is library
code; since the crate's version decides whether closing a conn empties its
address set, `CloseForgets` is a constant: `mux_close` runs with it, the other
runs without, and the theorems hold for both.
`reported` is a history variable. `RoutedToOwner` speaks of the look-up: it holds a
whole message to its own username and a short datagram to what the buffer says,
and a conn that is closed or removed after the look-up still gets the packet.

The watching task of a conn removes whatever conn has its ufrag. That is how a
newer conn can disappear (`mux_remove`), but never how a conn stays without a
task: `ListedWatched` says that each listed conn still has its own, the safety
half of `ClosedConnRemoved`.

### MuxService

What the mux is for, without worker, tasks and locks: a table with at most one
conn for a ufrag (`Create`), from which conns are retired and never come back
(`Retire`); routes from addresses to conns, which a conn with another ufrag may
take over (`Route`, `Unroute`); a queue of reports, none of an address that is
still unsettled (`Report`, `Settle`, `Take`, `Leave`). `UdpMux!Service` is the
instance with `owner <- key`, `listed` the range of `conns`, `route <-
address_map`, `pending <- reported`, `queue <- new_addr_ch`; `ImplementsService`
is its specification, a property of `UdpMux`. The service is a safety
specification: that its queue is served is `Endpoint`'s and `ListenStream`'s.

### ListenStream

One action per path of `poll_next` that ends a turn of its loop or a poll:
`IfWatchPending/Ok/Err` and `IfUp/Down/OtherFamily/Err/Idle` for the two stages
of `InAddr::Any`, `OneOut/OneTaken` for `InAddr::One`, then `PausePending` and,
once the pause is over, `Upgrade`, `StreamEnds`, `ChannelPending`. A stream is
polled only if it is in `woken`; `wakers` and `rx_waker` say who would wake it.
`IfWatcherMade/Fails`, `IfChange`, `PauseElapses`, `NewAddr` and `WorkerEnds` are the
events of the environment; each takes the waker it finds. The paths that end in
`Err` after a watcher error start the pause and the next attempt, as the code
does. IP addresses are of the socket's family (`OwnIPs`) or not (`OtherIPs`). Each
listener is polled by a task of its own, so each has its own waker. `unrested`
is a history variable: the streams that returned an error and had no pause since.
`ErrorsPause` says that such a stream returns no upgrade; what could break it is
that every poll takes the pause out of the stream and has to put it back.

Two invariants are the safety half of "no wake-up is lost". `WakersLeft`: a
stream whose poll has returned `Pending`, and which nothing has woken since, has
left its waker with the watcher and, in a pause, with the timer.
`NoAddressStranded`: while an address is in the channel and no stream was dropped,
not every stream waits for the channel. `AddressUpgraded` adds, under fairness,
that the address leaves. The end of the worker is different: `WorkerEnds` wakes
the one stream whose waker the receiver has, and the others that wait for the
channel are not told, so `WorkerEndEndsStreams` claims the end of one of them,
and of every stream that does not wait there.

### Connection

`on_data_channel`, `on_open_*` and `detach_fails_*` are the callbacks.
`open_outbound` starts a future whose awaits are the actions `lock_connection`,
`create_data_channel` or `create_fails`, `register_data_channel_open_handler`,
and the result, `poll_outbound` or `poll_outbound_err`; `destroy_outbound` drops
it anywhere. `close` is `flush_all` then `close`, with a `..._stops` action for
polls that are pending or fail part-way, at any subset of the channels, since a
hash map is walked in any order; after an error it may be called again. The
webrtc crate may give a new channel the identifier of a closed one (`FreshId`),
so `CloseShutsSubstreams` excepts a substream that shares its identifier with
another channel, and no other. Every inbound channel sends
once, on its own clone of the sender, which has its own slot, so `try_send`
fails only once the receiver is closed.

### Handshake

A *dial* is a future of `do_dial`, an *upgrade* one of `upgrade::webrtc`. `do_dial`
(or `do_dial_invalid`) and `webrtc` are everything up to the two descriptions,
with the helpers of `transport.rs` 496-605 as operators; `create_data_channel` and
the errors of the webrtc crate come next, then the wait for the channel:
`on_open` and `detach_fails` are the callback, `rx_ready` and `delay_elapsed` the
two branches of the `select!`. `upgrade_outbound/inbound`, `write_fingerprint` and
`read_fingerprint` are the noise handshake, the exchange, the checks and
`Connection::new`. `open_outbound` and `on_data_channel` are the first substream
that a connection opens on the other one.

Abstractions. Certificate, fingerprint and peer id are named by their node. A
fingerprint is a record of its node and the form it is written in (`bytes`,
`colons`, `bare`), because the code converts between the three and compares
strings: two forms of one fingerprint are different. A description keeps setup,
fingerprint and ufrag. `Connect` is ICE and DTLS: the ufrags match, one side is
the DTLS client and the other the server, and each finds the certificate its
description names (the webrtc crate's default is to verify it). A relay is a
node in between with a certificate of its own: it has a session with each side,
may forward a noise handshake and what follows, may stop forwarding, and may
speak for itself, but cannot make messages of a noise session that is not its
own. `Break` cuts a session off at any time. Noise is two steps, since the
initiator has finished when it sends the last message.

### Endpoint

One `WebRTCDirectTransport`. The agents are the callers of `UdpMux`: the
`Dialers` start with `dial`, the others with `ListenerUpgrade`, which takes a
report off the channel. `Gather` calls `get_conn` with the transport's own
fingerprint, as `build_setting_engine` makes every agent do. A dialing agent sends
on its own; an upgrade is ICE lite and sends only to an address it has heard
from (`heard`). Peers send STUN messages that name the two fingerprints. The ICE
agents of the crate may close the conn (`CandidateCloses`), after which the task
that watches it removes it (`Watches`) and the next `get_conn` makes another.
Nothing under `src/` calls `remove_conn_by_ufrag` or closes the mux, so those
actions of `UdpMux` do not occur here. A future that ends, in whatever way, is
one that takes no further step: nothing obliges it to gather or to send.

## 4. Runs

| Run | Instance | Shows |
|---|---|---|
| `mux_routing` | 2 conns, 2 ufrags, 1 address, 1 caller | `TypeOK`; `RoutesAccounted`: a route's conn lists the address, so purging a conn purges its routes; `ListedWatched`: a conn in `conns` has its watching task; `ReportOnce`: no second report without a registration or a close in between; `RoutedToOwner`: a datagram is looked up only for a conn that sent to its source or whose ufrag it names; `ImplementsService` |
| `mux_close` | 1 conn, 2 callers; `CloseForgets`; short datagrams, an undecodable ufrag | `OneTearDown`: of two concurrent closes one tears down; `CloseStopsWorker`: even under a stream of datagrams; `ClosedConnRemoved`: a closed conn leaves `conns`, whatever the callers do to its ufrag |
| `listen_any` | 2 listeners, each on one or on a wildcard address, one droppable; an interface address of either family, 2 changes or errors | `TypeOK`; `AnnouncesInterfaces`; `WakersLeft`; `NoAddressStranded`; `ErrorsPause`: no upgrade between an error and the end of its pause; `AddressUpgraded`: no wake-up is lost; `WorkerEndEndsStreams` |
| `conn_mux` | 1 inbound, 2 outbound channels; 2 identifiers | `TypeOK`; `LockOwner`; `LockObtained`; `CloseShutsSubstreams`, with identifiers reused |
| `handshake` | 1 dial, 2 upgrades, 1 relay; 8 addresses, 4 of them invalid | `TypeOK`; `AuthenticatedEnd`: established means that DTLS and noise end at the same peer; `PeerNotRefused`: once a dial has succeeded only the loss of the session makes its upgrade fail; `FutureEnds`: a dial or upgrade ends unless it is in the exchange with an end gone silent; `ExchangeEnds`: two ends in the exchange do not wait for each other; `PeerFollows`: a dial that succeeds has its upgrade succeed |
| `endpoint` | 2 peers, 2 upgrades, 1 dial, 2 conns, the first of which may be closed | `EndpointTypeOK`; `SharedConn`: agents with an open conn have the same; `OneUpgradePerPeer`: no second upgrade before the conn of the first is closed; `PeerServed`: the full channel loses nobody for good |
| `mux_retain`, `mux_remove`, `mux_unlist`, `listen_drop`, `hs_lost`, `ep_second` | the smallest that does it | violations: what a comment or a test says and the code does not do, section 5 |

Bounds. Two callers, two conns and one address are enough for each race of the
mux: every property is about one address and at most two tasks or conns that
compete for it, and what holds for two of them is proved for any number.
`NewAddrBuffer = 0` leaves one slot, so a full channel and an empty one both
occur. Conns are created from a finite set, which bounds how often a ufrag is
reused; in `mux_routing` they are interchangeable and a symmetry set (safety
only). `MaxFaults` bounds what happens to the interfaces in one behaviour, `MaxEvents`
the events a watcher may hold: two faults allow an address to go and come back,
an error and a change, or a second error in the pause of the first. Two
listeners compete for the one waker of the receiver; which of them may be
dropped does not matter, since they are alike, and the same holds for the peer
that is dialed in `endpoint` (`DialAddrs`). `Capacity = 1` leaves room for one
address, so the channel is full and empty in turn. In `conn_mux` three channels
share two identifiers, so one is given out twice. In `handshake` the
relay needs one dial and one upgrade to forward between; the second upgrade is
the one a session may be confused with. In `endpoint` two peers compete for one
slot of the channel, two agents and a dial for the conn of their ufrag; the
second conn is the one that must not be created while the first is open, or
that replaces it once it is closed (`Closable`).
Deadlock is checked for the mux, whose worker or environment always has a step
unless it is stopped and everyone may begin a call. A stream that has ended, a
connection that is closed, a handshake that is over and a transport with no
agents left stop for good, so those runs do not check it.

Fairness. Tokio and async-std poll a task that was woken, so steps of a started
call, of the watching tasks, of the worker, of a woken stream, of a future that
can go on are weakly fair. `select!` in the worker chooses at random between
its ready branches: a worker that keeps coming back to it takes the closing
branch in the end, which is strong fairness of `closed_watch_changed`; weak
fairness would not do, since each datagram takes the worker away. The watcher
is made in the end and a timer fires; nothing makes anyone drop a stream. In `Handshake` the webrtc crate's calls
return, the delay elapses, and a future goes on where what it waits for is
there, on a session with another end; a relay owes nothing. In `Endpoint` a peer
retransmits: strong fairness of `PeerSends` for each peer, since the worker is
often busy when a message arrives and ICE sends the next one. Otherwise nothing makes a caller begin a call, a
conn send or close, the network deliver, a channel open, or `close` be called.

## 5. Where comments and code disagree

* `mux_retain`: a `get_conn` (or a registration) that found the mux open inserts
  into a map that `close` has already emptied; the closed mux keeps a conn,
  the retain cycle the comment in `close` wants to avoid.
* `mux_remove`: the watching task removes by ufrag. If the ufrag was removed and
  got again since, it removes the newer conn. The comment calls removal by
  ufrag and by conn equivalent.
* `mux_unlist`: the address is sent to the listener before it is put into
  `new_addrs`. A registration between the two has nothing to remove, and the
  established address stays listed as new.
* `listen_drop`: listeners share one receiver, which keeps one waker. When the
  listener that polled last is dropped, the next address wakes nobody. This
  needs the listeners polled by different tasks; an executor (a swarm, for
  example) that polls all of them from one task has one waker for all and does
  not show it.
* `hs_lost`: the listener writes its fingerprint, reads the dialer's and only
  then, in `Connection::new`, sets `on_data_channel`. The dialer may be done
  before that; a substream it opens at once, as for the request of `smoke.rs`,
  arrives where nobody handles it.
* `ep_second`: all agents of a transport have its fingerprint as ufrag. As soon
  as one of them has called `get_conn`, the mux finds that conn for the STUN
  messages of every peer, and no further peer is reported or upgraded.

More consequences can be read off the models and are not runs.

* The mux decodes the whole buffer and not its first `len` bytes, so a short
  datagram counts as the STUN message before it (`recv_from`).
* After an error the next attempt to watch the interfaces, and its error, do
  not wait for the pause (`IfWatchErr`, `IfErr`).
* The end of the worker wakes one of the streams that wait for the channel. With
  a task for each listener the others stay pending for ever.
* `map` is keyed by the identifier of a channel. If the remote closes an inbound
  channel before it is handed out and an outbound one gets its identifier,
  handing out the dead one replaces the entry of the live one, which `close`
  then leaves open; `destroy_substream` of the dead one does the same. It is the
  exception `CloseShutsSubstreams` makes (`SharesId`): without it TLC finds this
  behaviour. Whether the identifier comes back so soon is the webrtc crate's
  decision.
* A conn that was closed stays in `address_map` until its watching task has run,
  and its peer's messages go to it.
* `close` of a connection does not touch channels that wait for `poll_event`. The
  queue of inbound channels has no effective bound, because each channel sends
  on a clone of its own.
* Only `do_dial` checks a peer id, and after the exchange: the listener may keep
  a connection that the dialer has refused (`PeerFollows` has no converse).
* An upgrade that fails before it has sent leaves its address in `new_addrs`,
  where the peer's next attempt from that port is ignored.
* A dial registers an address at any time, so the worker may find the address
  neither registered nor listed and report it again: `OneUpgradePerPeer` fails
  without its excuse for a dial to the same peer.
* The exchange has no time limit, so a future whose other end failed, was cut
  off or is a relay may stay in it for ever (the exception of `FutureEnds`).

## 6. Proofs

All theorems hold for every value of the constants that satisfies the named
assumptions (`UdpMuxAssumption`, `ListenAssumption`, `ConnectionAssumption`,
`HandshakeAssumption`, `EndpointAssumption`: kinds of identities are disjoint,
flags are Boolean, bounds are numbers, a host has finitely many interface
addresses, owners and fingerprints are what they should be). Six modules hold
theorems, one for each component and one for the refinement of the mux.

`UdpMuxProofs`

* `TypeCorrect`: `TypeOK`. It is not inductive: an action at some place of a
  task uses that the task has a ufrag or a conn at hand there. `TypeInv` adds
  what each place has at hand.
* `TearDownOnce`: `OneTearDown` is inductive as it stands.
* `RoutesAgree`: `RoutesAccounted`, strengthened to `RoutesInv` by
  `PendingRoutes`: a registration still under way is of an address its conn
  lists and has no route for yet. The first half makes the entry it will fill
  accounted for; the second, which begins with `SendTo`, keeps a take-over, which removes the address from
  the conn that loses the route, from spoiling another entry. A closed conn
  that forgot its addresses is excused.
* `NeverReportedTwice`: `ReportOnce`, from the invariant `ReportedListed`: a
  reported address is in `new_addrs` or in the worker's hand, just sent.
* `DeliveredToOwner`: `RoutedToOwner`, from `RoutesInv`, `ConnsKeyed` (a conn in
  `conns` was created with the ufrag it is found under) and, in `TypeInv`, that
  what the worker decodes is the datagram in hand unless that is too short.
* `ListedConnsWatched`: `ListedWatched`, inductive with `TypeInv` and `ConnsKeyed`.
  The delicate step is a watching task that removes by ufrag: it may take out a
  newer conn, whose task then finds nothing, but `conns` has no third one under
  that ufrag.

`ListenStreamProofs`

* `TypeCorrect`: `TypeOK`, inductive as it stands.
* `InterfacesAnnounced`: `AnnouncesInterfaces`, for any number of interface
  addresses and changes. The invariant compares what a stream has announced
  with the interfaces *through* the events still queued in its watcher. `Says` is
  the last word of a sequence of events on an address; lemmas give it for an
  event appended (`SaysAppend`), one taken (`SaysTail`) and the listing a new
  watcher starts with (`SaysListing`, `ListingOfUp`). It is inductive with
  `WatchInv`: nothing is announced before there is a watcher, and then only
  addresses of the socket's family.
* `ErrorsFollowedByPause`: `ErrorsPause`, from `PauseInv`: the pause of a stream that
  returned an error runs until the timer fires, whatever polls come between.
* `StreamsWakeable`: `WakersLeft`. It speaks of finished polls, so `PollInv` says
  what holds in the middle of one: below the match the watcher has been polled,
  and has kept the waker or used it since.
* `AddressesOnTheirWay`: `NoAddressStranded`, for any number of streams. `ChannelInv`:
  while none was dropped, when all streams wait for the channel it is empty, and
  the receiver's one waker belongs to one of them. One waker is enough, since
  the stream it wakes takes the address or polls again and leaves its own. That
  nobody was dropped is needed: `listen_drop` is the behaviour that breaks the
  conclusion otherwise.

`ConnectionProofs`

* `TypeCorrect`: `TypeOK`, strengthened by: whatever is queued, sent or held
  has an identifier.
* `LockHeldByCreator`: `LockOwner` is inductive with the types.
* `CloseShutsAllHeld`: `CloseShutsSubstreams`, whatever identifiers the crate gives
  out, from `MapInv`: a held substream is in `map` under its own identifier, or
  another channel has the same.

`MuxServiceProofs`

* `MuxRefinesService`: `UdpMux` implements `MuxService`, and so does anything that
  takes only its steps, without fairness (`MuxStepsRefineService`). The lookup under the
  `conns` lock makes `get_conn_create` a `Create`, given `ConnsKeyed`; a removal by
  ufrag is a `Retire`, the purge an `Unroute`. A registration is a `Route` or a
  stutter, for which its conn must exist: `RegisterKeyed`. `try_send` is a
  `Report` by `ReportedListed`. Everything else stutters.

`HandshakeProofs`

* `TypeCorrect`: `TypeOK`, inductive with what each place has at hand.
* `Authenticated`: `AuthenticatedEnd`, from `AuthInv`: a session ends at whoever
  owns the certificate of the remote description (`CertifiedLink`); a noise
  session is with the other end of the session or through a relay it shares
  (`NoiseOverLink`); an end writes only its own fingerprint (`SentOwn`); an
  established end has read what its description names (`ReadExpected`). If the
  session ended at a relay, the description would name the relay, but noise
  brings the fingerprint of a peer, and no peer is a relay.
* `PeerFollowsSafely`: `PeerNotRefused`, the safety half of `PeerFollows`. Stated of
  established dials it is not inductive, since the upgrade may fail first;
  `Follows` says of any dial whose own session noise runs over that its upgrade
  fails only after it or because the session is cut off. That rests on
  `AuthInv` and `PairInv`: noise begins once the channel is there and pairs two
  ends; each description names the certificate of the other end, so that the
  fingerprint which arrives is the one expected; a session breaks for both ends
  at once.

`EndpointProofs`

* `EndpointTypeCorrect` and `AgentsShareConn` (`SharedConn`), from `EndpointInv`: an
  agent in `get_conn` asks for the ufrag of all, and `HeldListed`: an open conn of
  an agent is the one listed under that ufrag, and so is a conn whose watching
  task has not yet taken it out. That task therefore removes no other conn,
  unlike under the arbitrary callers of `mux_remove`.
* `EndpointUsesMux`: every step of a transport is a step of `UdpMux` or leaves it
  alone, so all that is proved of the mux holds in a transport;
  `TransportRefinesService` draws the conclusion for `ImplementsService`.
* `OneUpgrade`: `OneUpgradePerPeer`. `PeerInv` says where the address of a peer is
  that nobody dials and whose upgrades have open conns: once in the channel, or
  with one upgrade, and while it is either, the mux remembers it as reported, or
  it is settled. *Settled* is that an upgrade of the address has its conn and the
  worker is not about to report what it looked up before. Registration, which
  makes the mux forget, happens only then: an upgrade sends only to what it has
  heard, and when the conn has heard something the worker is past the datagram
  it looked up before there was a conn (`ClaimInv`; `MadeConns` says that only a
  conn that was made is routed to or hears).

Each proof of an inductive step has one case per action. Model-checked only are
the liveness properties (`ClosedConnRemoved`, `CloseStopsWorker`,
`AddressUpgraded`, `WorkerEndEndsStreams`, `LockObtained`, `FutureEnds`,
`ExchangeEnds`, `PeerFollows`, `PeerServed`), since the prover does not reason about
fairness. For four of them the safety half is proved: `ListedWatched`,
`WakersLeft` and `NoAddressStranded`, `LockOwner`, `PeerNotRefused`.

## 7. Not modelled

* `sdp.rs` beyond the setup, fingerprint and ufrag attributes: constant text
  rendered from a template. `error.rs`, `lib.rs`: types and documentation.
* `PollDataChannel`: reads, writes and flushes are delegated to webrtc-data;
  what a clone of a channel shares with the original is decided there.
  `set_data_channels_read_buf_capacity` stores a value that nothing reads.
* Contents of packets, congestion, and the internals of ICE, DTLS, SCTP and
  noise beyond what section 3 states.
