----------------------------- MODULE Connection -----------------------------
(***************************************************************************)
(* The StreamMuxer of src/connection.rs: substreams are WebRTC data        *)
(* channels.  A channel the remote opens goes through an mpsc channel to   *)
(* poll_event; a channel opened here goes through a oneshot from the       *)
(* on_open callback to the OutboundSubstream future.  Both end up in map,  *)
(* which close walks.  The callbacks run on the tasks of the webrtc crate, *)
(* the future and the polls on those of the swarm.                         *)
(*                                                                         *)
(* RTCPeerConnection, RTCDataChannel and the detached DataChannel are      *)
(* library code, modelled from the calls connection.rs makes.              *)
(***************************************************************************)
EXTENDS Naturals, Sequences

CONSTANTS
  Inbound,    \* data channels the remote may open
  Outbound,   \* data channels open_outbound may open
  Ids,        \* stream identifiers
  None

Chans == Inbound \cup Outbound

ASSUME ConnectionAssumption ==
  /\ Inbound \cap Outbound = {}
  /\ None \notin Chans \cup Ids

VARIABLES
  id,           \* the stream_identifier of a channel, None before it has one
  channel,      \* the data channel: "none", "connecting", "open" or "closed"
  incoming,     \* incoming_data_channels_rx
  rx_closed,    \* incoming_data_channels_rx.close() was called
  map,          \* stream identifier -> PollDataChannel
  outbound,     \* the OutboundSubstream futures
  lock,         \* connection_inner: the future that holds it
  substreams,   \* the substreams the swarm holds
  close_pc      \* "no", "flush" (pending), "shutdown", "ok", "err"

chanVars == <<id, channel>>
rxVars   == <<incoming, rx_closed>>
outVars  == <<outbound, lock>>
vars == <<chanVars, rxVars, map, outVars, substreams, close_pc>>

OutboundPC == {"new", "locking", "creating", "registering", "waiting", "sent",
               "canceled", "done", "destroyed"}

TypeOK ==
  /\ id \in [Chans -> Ids \cup {None}]
  /\ channel \in [Chans -> {"none", "connecting", "open", "closed"}]
  /\ incoming \in Seq(Inbound)
  /\ rx_closed \in BOOLEAN
  /\ map \in [Ids -> Chans \cup {None}]
  /\ outbound \in [Outbound -> OutboundPC]
  /\ lock \in Outbound \cup {None}
  /\ substreams \subseteq Chans
  /\ close_pc \in {"no", "flush", "shutdown", "ok", "err"}

(* Connection::new                                                         *)
Init ==
  /\ id = [c \in Chans |-> None]
  /\ channel = [c \in Chans |-> "none"]
  /\ incoming = <<>> /\ rx_closed = FALSE
  /\ map = [i \in Ids |-> None]
  /\ outbound = [c \in Outbound |-> "new"]
  /\ lock = None
  /\ substreams = {}
  /\ close_pc = "no"

-----------------------------------------------------------------------------
(* The webrtc crate.                                                       *)

(* The identifier of a new channel may be that of a channel that is closed. *)
FreshId(i) == \A c \in Chans : id[c] = i => channel[c] = "closed"

NewChannel(c, i) ==
  /\ channel[c] = "none"
  /\ FreshId(i)
  /\ id' = [id EXCEPT ![c] = i]
  /\ channel' = [channel EXCEPT ![c] = "connecting"]

(* The other end closes a channel, or the channel fails.                   *)
RemoteCloses(c) ==
  /\ channel[c] = "open"
  /\ channel' = [channel EXCEPT ![c] = "closed"]
  /\ UNCHANGED <<id, rxVars, map, outVars, substreams, close_pc>>

-----------------------------------------------------------------------------
(***************************************************************************)
(* Inbound channels.  The on_data_channel handler clones the sender and    *)
(* sets the on_open callback, which detaches the channel and sends it.     *)
(* The fresh clone has a slot of its own in the mpsc channel, so try_send  *)
(* fails only once the receiver is closed.                                 *)
(***************************************************************************)
on_data_channel(c) ==
  /\ \E i \in Ids : NewChannel(c, i)
  /\ UNCHANGED <<rxVars, map, outVars, substreams, close_pc>>

Opens(c) ==
  /\ channel[c] = "connecting"
  /\ channel' = [channel EXCEPT ![c] = "open"]
  /\ UNCHANGED id

on_open_inbound(c) ==
  /\ Opens(c)
  /\ incoming' = IF rx_closed THEN incoming ELSE Append(incoming, c)
  /\ UNCHANGED <<rx_closed, map, outVars, substreams, close_pc>>

detach_fails_inbound(c) ==
  /\ Opens(c)
  /\ UNCHANGED <<rxVars, map, outVars, substreams, close_pc>>

(* Wrong: hands out what the insertion returned, the previous entry.       *)
HandOutPrevious(c) ==
  /\ map' = [map EXCEPT ![id[c]] = c]
  /\ substreams' = substreams \cup {map[id[c]]}

(* Wrong: hands the channel out without an entry in map.                   *)
HandOutUnmapped(c) ==
  /\ substreams' = substreams \cup {c}
  /\ UNCHANGED map

(* The map insertion of poll_event and poll_outbound.                      *)
HandOut(c) ==
  /\ map' = [map EXCEPT ![id[c]] = c]
  /\ substreams' = substreams \cup {c}

(* On an empty receiver poll_event is Pending, or an error once closed.    *)
poll_event ==
  /\ incoming # <<>>
  /\ HandOut(Head(incoming))
  /\ incoming' = Tail(incoming)
  /\ UNCHANGED <<chanVars, rx_closed, outVars, close_pc>>

-----------------------------------------------------------------------------
(* Outbound channels: the future of open_outbound, an await at a time.     *)

Moves(c, from, to) ==
  outbound[c] = from /\ outbound' = [outbound EXCEPT ![c] = to]

open_outbound(c) ==
  /\ Moves(c, "new", "locking")
  /\ UNCHANGED <<chanVars, rxVars, map, lock, substreams, close_pc>>

lock_connection(c) ==
  /\ Moves(c, "locking", "creating")
  /\ lock = None
  /\ lock' = c
  /\ UNCHANGED <<chanVars, rxVars, map, substreams, close_pc>>

(* create_data_channel(..).await? : the guard is dropped either way.       *)
create_fails(c) ==
  /\ Moves(c, "creating", "canceled")
  /\ lock' = None
  /\ UNCHANGED <<chanVars, rxVars, map, substreams, close_pc>>

(* Wrong: keeps the lock while the channel opens.                          *)
create_data_channel_locked(c) ==
  /\ Moves(c, "creating", "registering")
  /\ \E i \in Ids : NewChannel(c, i)
  /\ UNCHANGED <<rxVars, map, lock, substreams, close_pc>>

create_data_channel(c) ==
  /\ Moves(c, "creating", "registering")
  /\ lock' = None
  /\ \E i \in Ids : NewChannel(c, i)
  /\ UNCHANGED <<rxVars, map, substreams, close_pc>>

register_data_channel_open_handler(c) ==
  /\ Moves(c, "registering", "waiting")
  /\ UNCHANGED <<chanVars, rxVars, map, lock, substreams, close_pc>>

(***************************************************************************)
(* on_open: detach and send on the oneshot, whose receiver the future      *)
(* holds; a failed detach drops the sender, which cancels the receiver.    *)
(* The callback runs once it is registered and the channel is open, even   *)
(* if the future is gone by then.                                          *)
(***************************************************************************)
on_open_outbound(c) ==
  /\ Opens(c)
  /\ outbound[c] \in {"waiting", "destroyed"}
  /\ outbound' = [outbound EXCEPT ![c] = IF @ = "waiting" THEN "sent" ELSE @]
  /\ UNCHANGED <<rxVars, map, lock, substreams, close_pc>>

detach_fails_outbound(c) ==
  /\ Opens(c)
  /\ Moves(c, "waiting", "canceled")
  /\ UNCHANGED <<rxVars, map, lock, substreams, close_pc>>

poll_outbound(c) ==
  /\ Moves(c, "sent", "done")
  /\ HandOut(c)
  /\ UNCHANGED <<chanVars, rxVars, lock, close_pc>>

poll_outbound_err(c) ==
  /\ Moves(c, "canceled", "done")
  /\ UNCHANGED <<chanVars, rxVars, map, lock, substreams, close_pc>>

(* The future is dropped wherever it is, with the lock if it holds it.     *)
destroy_outbound(c) ==
  /\ outbound[c] \in OutboundPC \ {"new", "done", "destroyed"}
  /\ outbound' = [outbound EXCEPT ![c] = "destroyed"]
  /\ lock' = IF lock = c THEN None ELSE lock
  /\ UNCHANGED <<chanVars, rxVars, map, substreams, close_pc>>

-----------------------------------------------------------------------------
(***************************************************************************)
(* Substreams.  Reading, writing and flushing go to the channel and change *)
(* nothing here.                                                           *)
(***************************************************************************)
shutdown_substream(c) ==
  /\ c \in substreams
  /\ channel[c] = "open"
  /\ channel' = [channel EXCEPT ![c] = "closed"]
  /\ UNCHANGED <<id, rxVars, map, outVars, substreams, close_pc>>

destroy_substream(c) ==
  /\ c \in substreams
  /\ substreams' = substreams \ {c}
  /\ map' = [map EXCEPT ![id[c]] = None]
  /\ UNCHANGED <<chanVars, rxVars, outVars, close_pc>>

-----------------------------------------------------------------------------
(***************************************************************************)
(* close.  Each poll first flushes every channel of map under the lock of  *)
(* map, in some order, and stops at the first one that is not ready or     *)
(* fails; then, under the lock again, shuts every channel down the same    *)
(* way; then closes the receiver.                                          *)
(***************************************************************************)
Mapped == {map[i] : i \in Ids} \ {None}

(* close is polled for the first time, again, or anew after an error.      *)
CanClose == close_pc \in {"no", "flush", "err"}

flush_all ==
  /\ CanClose
  /\ close_pc' = "shutdown"
  /\ UNCHANGED <<chanVars, rxVars, map, outVars, substreams>>

(* A channel is not ready, or fails: the poll returns Pending or the error. *)
flush_all_stops(end) ==
  /\ CanClose
  /\ Mapped # {}
  /\ close_pc' = end
  /\ UNCHANGED <<chanVars, rxVars, map, outVars, substreams>>

(* The channels of S are shut down.                                        *)
ShutDown(S) ==
  channel' = [c \in Chans |-> IF c \in S THEN "closed" ELSE channel[c]]

close ==
  /\ close_pc = "shutdown"
  /\ ShutDown(Mapped)
  /\ rx_closed' = TRUE
  /\ close_pc' = "ok"
  /\ UNCHANGED <<id, incoming, map, outVars, substreams>>

close_stops(S, end) ==
  /\ close_pc = "shutdown"
  /\ S # Mapped
  /\ ShutDown(S)
  /\ close_pc' = end
  /\ UNCHANGED <<id, rxVars, map, outVars, substreams>>

-----------------------------------------------------------------------------
CloseStep ==
  \/ flush_all
  \/ close
  \/ \E end \in {"flush", "err"} :
       flush_all_stops(end) \/ \E S \in SUBSET Mapped : close_stops(S, end)

FutureStep(c) ==
  \/ lock_connection(c)
  \/ create_fails(c) \/ create_data_channel(c)
  \/ register_data_channel_open_handler(c)
  \/ poll_outbound(c) \/ poll_outbound_err(c)

Next ==
  \/ \E c \in Inbound :
       on_data_channel(c) \/ on_open_inbound(c) \/ detach_fails_inbound(c)
  \/ poll_event
  \/ \E c \in Outbound :
       \/ open_outbound(c) \/ FutureStep(c) \/ destroy_outbound(c)
       \/ on_open_outbound(c) \/ detach_fails_outbound(c)
  \/ \E c \in Chans :
       RemoteCloses(c) \/ shutdown_substream(c) \/ destroy_substream(c)
  \/ CloseStep

(***************************************************************************)
(* The swarm polls a future that can go on.  Nobody promises that a        *)
(* channel opens, that events are polled or that close is called.          *)
(***************************************************************************)
Fairness == \A c \in Outbound : WF_vars(FutureStep(c))

Spec == Init /\ [][Next]_vars /\ Fairness

-----------------------------------------------------------------------------
(***************************************************************************)
(* connection_inner is locked exactly while a future creates its channel:  *)
(* an error, or dropping the future at its await, does not leave it        *)
(* locked, and two futures never create channels at once.                  *)
(***************************************************************************)
LockOwner == \A c \in Outbound : lock = c <=> outbound[c] = "creating"

(***************************************************************************)
(* A future that waits for connection_inner gets it (or is dropped),       *)
(* whatever happens to the futures before it.                              *)
(***************************************************************************)
LockObtained ==
  \A c \in Outbound : outbound[c] = "locking" ~> outbound[c] # "locking"

(***************************************************************************)
(* Comment in close: "shutdown all the substreams".  When close returns    *)
(* Ok, a substream the swarm holds is shut down, those handed out between  *)
(* two polls of close, or between its flush and its shutdown, included.    *)
(* Only one that shares its identifier with another channel may be left    *)
(* open: map is keyed by the identifier, so handing out or dropping the    *)
(* other one takes its entry.                                              *)
(***************************************************************************)
SharesId(c) == \E d \in Chans \ {c} : id[d] = id[c]

CloseShutsSubstreams ==
  [][close_pc # "ok" /\ close_pc' = "ok" =>
       \A c \in substreams : channel'[c] = "closed" \/ SharesId(c)]_vars
=============================================================================
