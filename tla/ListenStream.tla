---------------------------- MODULE ListenStream ----------------------------
(***************************************************************************)
(* The listeners of src/transport.rs: WebRTCListenStream::poll_next, a     *)
(* stream that announces the addresses it listens on and turns each        *)
(* address the UDP mux reports into an upgrade.  A task is polled only     *)
(* after something woke it, so the model keeps the wakers: a poll that     *)
(* returns Pending must have left its waker where the next event will find *)
(* it.  Every listener of a transport reads the same Receiver, which       *)
(* remembers the waker of the last poll only.                              *)
(*                                                                         *)
(* IfWatcher, Delay and mpsc::Receiver are library code, modelled from     *)
(* their use.                                                              *)
(***************************************************************************)
EXTENDS Naturals, Sequences, FiniteSets

CONSTANTS
  Listeners,   \* the streams listen_on has returned
  Droppable,   \* those whose owner may drop them
  Bindings,    \* what the socket may be bound to: "one" IP or "any"
  OwnIPs,      \* interface addresses of the family of listen_addr
  OtherIPs,    \* interface addresses of the other family
  SocketIP,    \* the IP of listen_addr, when specified
  Addrs,       \* remote addresses the mux reports
  Capacity,    \* how many reports the channel holds
  MaxEvents,   \* bound: interface events waiting in one watcher
  MaxFaults,   \* bound: interface changes and watcher errors in a behaviour
  None

ASSUME ListenAssumption ==
  /\ Bindings \subseteq {"one", "any"}
  /\ Capacity \in Nat \ {0} /\ MaxEvents \in Nat /\ MaxFaults \in Nat
  /\ OwnIPs \cap OtherIPs = {} /\ IsFiniteSet(OwnIPs \cup OtherIPs)
  /\ Droppable \subseteq Listeners
  /\ None \notin Listeners \cup OwnIPs \cup OtherIPs

VARIABLES
  in_addr,    \* "out", "taken" (InAddr::One) or "pending", "ready" (InAddr::Any)
  pause,      \* "none", "running", "elapsed"
  pc,         \* "idle", "poll" (top of the loop), "accept" (below the match), "ended", "dropped"
  woken,      \* the listeners whose task the runtime will poll
  watcher,    \* IfWatch::Pending: "busy", "ok", "err"; else "none"
  events,     \* the events waiting in the listener's IfWatcher
  wakers,     \* where the listener's task waits: "if_watch", "pause"
  up,         \* the interface addresses that are up
  ch,         \* the new-address channel
  tx_alive,   \* the mux worker, which owns the sender, runs
  rx_waker,   \* the waker in the Receiver: that of the last task to find it empty
  faults,     \* interface changes and errors so far
  announced,  \* what each stream has announced: NewAddress less AddressExpired
  unrested    \* history: the streams that returned an error and had no pause since

streamVars  == <<in_addr, pause, pc>>
ifVars      == <<watcher, events, up, faults>>
chanVars    == <<ch, tx_alive, rx_waker>>
vars == <<streamVars, woken, ifVars, wakers, chanVars, announced, unrested>>

IPs == OwnIPs \cup OtherIPs

IfEvents == [kind : {"Up", "Down"}, ip : IPs] \cup [kind : {"Err"}, ip : {None}]

TypeOK ==
  /\ in_addr \in [Listeners -> {"out", "taken", "pending", "ready"}]
  /\ pause \in [Listeners -> {"none", "running", "elapsed"}]
  /\ pc \in [Listeners -> {"idle", "poll", "accept", "ended", "dropped"}]
  /\ woken \subseteq Listeners
  /\ watcher \in [Listeners -> {"none", "busy", "ok", "err"}]
  /\ events \in [Listeners -> Seq(IfEvents)]
  /\ \A l \in Listeners : Len(events[l]) <= MaxEvents + Cardinality(IPs)
  /\ wakers \in [Listeners -> SUBSET {"if_watch", "pause"}]
  /\ up \subseteq IPs
  /\ ch \in Seq(Addrs) /\ Len(ch) <= Capacity
  /\ tx_alive \in BOOLEAN
  /\ rx_waker \in Listeners \cup {None}
  /\ faults \in 0..MaxFaults
  /\ announced \in [Listeners -> SUBSET (IPs \cup {SocketIP})]
  /\ unrested \subseteq Listeners

(***************************************************************************)
(* WebRTCListenStream::new for every listener; each one is polled once to  *)
(* begin with.                                                             *)
(***************************************************************************)
Init ==
  /\ \E b \in Bindings :
       /\ in_addr = [l \in Listeners |-> IF b = "any" THEN "pending" ELSE "out"]
       /\ watcher = [l \in Listeners |-> IF b = "any" THEN "busy" ELSE "none"]
  /\ pause = [l \in Listeners |-> "none"]
  /\ pc = [l \in Listeners |-> "idle"]
  /\ woken = Listeners
  /\ events = [l \in Listeners |-> <<>>]
  /\ wakers = [l \in Listeners |-> {}]
  /\ up \in SUBSET IPs
  /\ ch = <<>> /\ tx_alive = TRUE /\ rx_waker = None
  /\ faults = 0
  /\ announced = [l \in Listeners |-> {}]
  /\ unrested = {}

-----------------------------------------------------------------------------
(* How a poll ends.  Whoever receives an item polls again for the next.    *)

Item(l, item) ==
  /\ unrested' = IF item = "Error" THEN unrested \cup {l} ELSE unrested
  /\ pc' = [pc EXCEPT ![l] = "idle"]
  /\ woken' = woken \cup {l}

Pending(l) ==
  /\ pc' = [pc EXCEPT ![l] = "idle"]
  /\ UNCHANGED <<unrested, woken>>

At(l, place) == pc[l] = place

poll_next(l) ==
  /\ At(l, "idle")
  /\ l \in woken
  /\ woken' = woken \ {l}
  /\ pc' = [pc EXCEPT ![l] = "poll"]
  /\ UNCHANGED <<in_addr, pause, ifVars, wakers, chanVars, announced, unrested>>

-----------------------------------------------------------------------------
(* IfWatch::Pending: poll the future that makes the IfWatcher.             *)

IfWatchPending(l) ==
  /\ At(l, "poll") /\ in_addr[l] = "pending" /\ watcher[l] = "busy"
  /\ wakers' = [wakers EXCEPT ![l] = @ \cup {"if_watch"}]
  /\ Pending(l)
  /\ UNCHANGED <<in_addr, pause, ifVars, chanVars, announced>>

IfWatchOk(l) ==
  /\ At(l, "poll") /\ in_addr[l] = "pending" /\ watcher[l] = "ok"
  /\ in_addr' = [in_addr EXCEPT ![l] = "ready"]
  /\ watcher' = [watcher EXCEPT ![l] = "none"]
  /\ UNCHANGED <<pause, pc, woken, events, up, faults, wakers, chanVars,
                 announced, unrested>>

(* The next future is started at once, and the pause with it.              *)
IfWatchErr(l) ==
  /\ At(l, "poll") /\ in_addr[l] = "pending" /\ watcher[l] = "err"
  /\ watcher' = [watcher EXCEPT ![l] = "busy"]
  /\ pause' = [pause EXCEPT ![l] = "running"]
  /\ Item(l, "Error")
  /\ UNCHANGED <<in_addr, events, up, faults, wakers, chanVars, announced>>

-----------------------------------------------------------------------------
(* IfWatch::Ready: consume the events up to the first one to return.       *)

PollsWatch(l) == At(l, "poll") /\ in_addr[l] = "ready"

NextEvent(l) == Head(events[l])

ConsumeEvent(l) ==
  /\ PollsWatch(l)
  /\ events[l] # <<>>
  /\ events' = [events EXCEPT ![l] = Tail(@)]
  /\ UNCHANGED <<in_addr, watcher, up, faults, wakers, chanVars>>

IfUp(l) ==
  /\ ConsumeEvent(l)
  /\ NextEvent(l).kind = "Up" /\ NextEvent(l).ip \in OwnIPs
  /\ announced' = [announced EXCEPT ![l] = @ \cup {NextEvent(l).ip}]
  /\ Item(l, "NewAddress")
  /\ UNCHANGED pause

(* Wrong: forgets to report an address that is gone.                       *)
IfDownSkipped(l) ==
  /\ ConsumeEvent(l)
  /\ NextEvent(l).kind = "Down" /\ NextEvent(l).ip \in OwnIPs
  /\ UNCHANGED <<pause, pc, woken, announced, unrested>>

IfDown(l) ==
  /\ ConsumeEvent(l)
  /\ NextEvent(l).kind = "Down" /\ NextEvent(l).ip \in OwnIPs
  /\ announced' = [announced EXCEPT ![l] = @ \ {NextEvent(l).ip}]
  /\ Item(l, "AddressExpired")
  /\ UNCHANGED pause

IfOtherFamily(l) ==
  /\ ConsumeEvent(l)
  /\ NextEvent(l).ip \in OtherIPs
  /\ UNCHANGED <<pause, pc, woken, announced, unrested>>

IfErr(l) ==
  /\ ConsumeEvent(l)
  /\ NextEvent(l).kind = "Err"
  /\ pause' = [pause EXCEPT ![l] = "running"]
  /\ Item(l, "Error")
  /\ UNCHANGED announced

IfIdle(l) ==
  /\ PollsWatch(l)
  /\ events[l] = <<>>
  /\ wakers' = [wakers EXCEPT ![l] = @ \cup {"if_watch"}]
  /\ pc' = [pc EXCEPT ![l] = "accept"]
  /\ UNCHANGED <<in_addr, pause, woken, ifVars, chanVars, announced, unrested>>

-----------------------------------------------------------------------------
(* InAddr::One: the address is announced once.                             *)

OneOut(l) ==
  /\ At(l, "poll") /\ in_addr[l] = "out"
  /\ in_addr' = [in_addr EXCEPT ![l] = "taken"]
  /\ announced' = [announced EXCEPT ![l] = @ \cup {SocketIP}]
  /\ Item(l, "NewAddress")
  /\ UNCHANGED <<pause, ifVars, wakers, chanVars>>

OneTaken(l) ==
  /\ At(l, "poll") /\ in_addr[l] = "taken"
  /\ pc' = [pc EXCEPT ![l] = "accept"]
  /\ UNCHANGED <<in_addr, pause, woken, ifVars, wakers, chanVars, announced,
                 unrested>>

-----------------------------------------------------------------------------
(* Below the match: the pause, then the channel.                           *)

(* Wrong: returns Pending without polling the timer.                       *)
PauseNotPolled(l) ==
  /\ At(l, "accept") /\ pause[l] = "running"
  /\ Pending(l)
  /\ UNCHANGED <<in_addr, pause, ifVars, wakers, chanVars, announced>>

(* Wrong: takes the pause and does not put it back.                        *)
PauseTaken(l) ==
  /\ At(l, "accept") /\ pause[l] = "running"
  /\ pause' = [pause EXCEPT ![l] = "none"]
  /\ Pending(l)
  /\ UNCHANGED <<in_addr, ifVars, wakers, chanVars, announced>>

PausePending(l) ==
  /\ At(l, "accept") /\ pause[l] = "running"
  /\ wakers' = [wakers EXCEPT ![l] = @ \cup {"pause"}]
  /\ Pending(l)
  /\ UNCHANGED <<in_addr, pause, ifVars, chanVars, announced>>

Accepts(l) ==
  /\ At(l, "accept") /\ pause[l] # "running"
  /\ pause' = [pause EXCEPT ![l] = "none"]

Upgrade(l) ==
  /\ Accepts(l)
  /\ ch # <<>>
  /\ ch' = Tail(ch)
  /\ Item(l, "Upgrade")
  /\ UNCHANGED <<in_addr, ifVars, wakers, tx_alive, rx_waker, announced>>

StreamEnds(l) ==
  /\ Accepts(l)
  /\ ch = <<>> /\ ~tx_alive
  /\ pc' = [pc EXCEPT ![l] = "ended"]
  /\ UNCHANGED <<in_addr, woken, ifVars, wakers, chanVars, announced, unrested>>

(* Wrong: returns Pending without polling the receiver.                    *)
ChannelNotPolled(l) ==
  /\ Accepts(l)
  /\ ch = <<>> /\ tx_alive
  /\ Pending(l)
  /\ UNCHANGED <<in_addr, ifVars, wakers, chanVars, announced>>

ChannelPending(l) ==
  /\ Accepts(l)
  /\ ch = <<>> /\ tx_alive
  /\ rx_waker' = l
  /\ Pending(l)
  /\ UNCHANGED <<in_addr, ifVars, wakers, ch, tx_alive, announced>>

-----------------------------------------------------------------------------
(* What wakes a listener.                                                  *)

Live == {l \in Listeners : pc[l] # "dropped"}

(* Wake the listeners of L that wait at the place.                         *)
Wake(L, place) ==
  LET waiting == {l \in L : place \in wakers[l]} IN
  /\ woken' = woken \cup waiting
  /\ wakers' = [l \in Listeners |-> IF l \in waiting THEN wakers[l] \ {place}
                                                     ELSE wakers[l]]

IfWatcherMade(l) ==
  /\ l \in Live /\ watcher[l] = "busy"
  /\ watcher' = [watcher EXCEPT ![l] = "ok"]
  /\ \E s \in {t \in [1..Cardinality(up) -> up] : \A i, j \in DOMAIN t :
                                                    t[i] = t[j] => i = j} :
       events' = [events EXCEPT ![l] =
                    [i \in DOMAIN s |-> [kind |-> "Up", ip |-> s[i]]]]
  /\ Wake({l}, "if_watch")
  /\ UNCHANGED <<streamVars, up, faults, chanVars, announced, unrested>>

IfWatcherFails(l) ==
  /\ l \in Live /\ watcher[l] = "busy" /\ faults < MaxFaults
  /\ watcher' = [watcher EXCEPT ![l] = "err"]
  /\ faults' = faults + 1
  /\ Wake({l}, "if_watch")
  /\ UNCHANGED <<streamVars, events, up, chanVars, announced, unrested>>

(* A change of an interface reaches every watcher there is.                *)
Watching == {l \in Live : in_addr[l] = "ready" \/ watcher[l] = "ok"}

IfChange(ip) ==
  LET ev == [kind |-> IF ip \in up THEN "Down" ELSE "Up", ip |-> ip] IN
  /\ faults < MaxFaults
  /\ \A l \in Watching : Len(events[l]) < MaxEvents
  /\ faults' = faults + 1
  /\ up' = IF ip \in up THEN up \ {ip} ELSE up \cup {ip}
  /\ events' = [l \in Listeners |-> IF l \in Watching THEN Append(events[l], ev)
                                                      ELSE events[l]]
  /\ Wake(Watching, "if_watch")
  /\ UNCHANGED <<streamVars, watcher, chanVars, announced, unrested>>

IfError(l) ==
  /\ l \in Watching
  /\ faults < MaxFaults /\ Len(events[l]) < MaxEvents
  /\ faults' = faults + 1
  /\ events' = [events EXCEPT ![l] = Append(@, [kind |-> "Err", ip |-> None])]
  /\ Wake({l}, "if_watch")
  /\ UNCHANGED <<streamVars, watcher, up, chanVars, announced, unrested>>

PauseElapses(l) ==
  /\ l \in Live /\ pause[l] = "running"
  /\ pause' = [pause EXCEPT ![l] = "elapsed"]
  /\ unrested' = unrested \ {l}
  /\ Wake({l}, "pause")
  /\ UNCHANGED <<in_addr, pc, ifVars, chanVars, announced>>

WakeReceiver ==
  /\ woken' = woken \cup ({rx_waker} \cap Live)
  /\ rx_waker' = None

(* Wrong: the channel has no bound.                                        *)
NewAddrUnbounded(a) ==
  /\ tx_alive
  /\ ch' = Append(ch, a)
  /\ WakeReceiver
  /\ UNCHANGED <<streamVars, ifVars, wakers, tx_alive, announced, unrested>>

NewAddr(a) ==
  /\ tx_alive
  /\ Len(ch) < Capacity
  /\ a \notin {ch[i] : i \in DOMAIN ch}
  /\ ch' = Append(ch, a)
  /\ WakeReceiver
  /\ UNCHANGED <<streamVars, ifVars, wakers, tx_alive, announced, unrested>>

(* The worker of the mux ends and drops the sender.                        *)
WorkerEnds ==
  /\ tx_alive
  /\ tx_alive' = FALSE
  /\ WakeReceiver
  /\ UNCHANGED <<streamVars, ifVars, wakers, ch, announced, unrested>>

(* The owner of a stream drops it; its wakers now wake nobody.             *)
DropListener(l) ==
  /\ l \in Droppable /\ At(l, "idle")
  /\ pc' = [pc EXCEPT ![l] = "dropped"]
  /\ woken' = woken \ {l}
  /\ UNCHANGED <<in_addr, pause, ifVars, wakers, chanVars, announced, unrested>>

-----------------------------------------------------------------------------
PollStep(l) ==
  \/ poll_next(l)
  \/ IfWatchPending(l) \/ IfWatchOk(l) \/ IfWatchErr(l)
  \/ IfUp(l) \/ IfDown(l) \/ IfOtherFamily(l) \/ IfErr(l) \/ IfIdle(l)
  \/ OneOut(l) \/ OneTaken(l)
  \/ PausePending(l)
  \/ Upgrade(l) \/ StreamEnds(l) \/ ChannelPending(l)

Environment ==
  \/ \E l \in Listeners : \/ IfWatcherMade(l) \/ IfWatcherFails(l) \/ IfError(l)
                          \/ PauseElapses(l) \/ DropListener(l)
  \/ \E ip \in IPs : IfChange(ip)
  \/ \E a \in Addrs : NewAddr(a)
  \/ WorkerEnds

Next == (\E l \in Listeners : PollStep(l)) \/ Environment

(***************************************************************************)
(* The runtime polls a task that was woken and a poll runs to its end;     *)
(* the watcher is made in the end and the timer fires.                     *)
(***************************************************************************)
Fairness ==
  \A l \in Listeners : /\ WF_vars(PollStep(l))
                       /\ WF_vars(IfWatcherMade(l))
                       /\ WF_vars(PauseElapses(l))

Spec == Init /\ [][Next]_vars /\ Fairness

-----------------------------------------------------------------------------
(***************************************************************************)
(* Once the events that wait in its IfWatcher are consumed, what a stream  *)
(* has announced is exactly the addresses of its family that are up,       *)
(* whatever errors, retries and changes came in between.                   *)
(***************************************************************************)
WillAnnounce(l, ip) ==
  LET about == {i \in DOMAIN events[l] : events[l][i].ip = ip} IN
  IF about = {} THEN ip \in announced[l]
  ELSE \E i \in about : events[l][i].kind = "Up" /\ \A j \in about : j <= i

AnnouncesInterfaces ==
  \A l \in Watching : /\ \A ip \in OwnIPs : WillAnnounce(l, ip) <=> ip \in up
                      /\ announced[l] \subseteq OwnIPs

(***************************************************************************)
(* Between an error and the end of the pause after it a stream returns no  *)
(* upgrade, however often it is polled meanwhile: each poll takes the      *)
(* pause out of the stream and has to put it back, also when a second      *)
(* error has replaced it.                                                  *)
(***************************************************************************)
ErrorsPause ==
  [][\A l \in unrested : ~(pc[l] = "accept" /\ ch' # ch /\ pc'[l] = "idle")]_vars

(***************************************************************************)
(* A stream whose poll has returned Pending has left its waker with all    *)
(* that it waits for, or has been woken since, although events, the timer  *)
(* and the watcher may be ready between any two steps of the poll.         *)
(***************************************************************************)
Waiting(l) == At(l, "idle") /\ l \notin woken

WakersLeft ==
  \A l \in Listeners : Waiting(l) =>
    /\ in_addr[l] = "pending" => watcher[l] = "busy" /\ "if_watch" \in wakers[l]
    /\ in_addr[l] = "ready" => events[l] = <<>> /\ "if_watch" \in wakers[l]
    /\ in_addr[l] # "pending" /\ pause[l] = "running" => "pause" \in wakers[l]

(***************************************************************************)
(* While no stream was dropped, an address in the channel has a stream on  *)
(* its way to it, which is being polled, is woken, or waits for its        *)
(* watcher or its pause: not all of them wait for the channel, although    *)
(* the receiver they share keeps one waker.                                *)
(***************************************************************************)
AtChannel(l) == Waiting(l) /\ in_addr[l] # "pending" /\ pause[l] # "running"

AllHere == Live = Listeners /\ Listeners # {}

NoAddressStranded ==
  ch # <<>> /\ AllHere => \E l \in Listeners : pc[l] # "ended" /\ ~AtChannel(l)

(***************************************************************************)
(* No wake-up is lost: an address that the mux reports becomes an upgrade, *)
(* whether it arrives before, during or after a poll, while the watchers   *)
(* are being made or in a pause; unless a stream is dropped.               *)
(***************************************************************************)
Reported == {ch[i] : i \in DOMAIN ch}

AddressUpgraded ==
  \A a \in Addrs : a \in Reported ~> a \notin Reported \/ ~AllHere

(***************************************************************************)
(* After the worker of the mux has ended, a stream that does not wait for  *)
(* the channel ends, and so does one of those that wait there, if no       *)
(* stream is dropped.  (Not all of them: the receiver wakes one.)          *)
(***************************************************************************)
WorkerEndEndsStreams ==
  /\ \A l \in Listeners :
       ~tx_alive /\ ~AtChannel(l) ~> pc[l] \in {"ended", "dropped"}
  /\ ~tx_alive ~> (\E l \in Listeners : pc[l] = "ended") \/ ~AllHere

(***************************************************************************)
(* Comment on WebRTCListenStream: "a stream of incoming connections".  An  *)
(* address in the channel becomes an upgrade while one of the streams is   *)
(* there, each polled by a task of its own.                                *)
(***************************************************************************)
EveryListenerAccepts ==
  \A a \in Addrs : a \in Reported ~> a \notin Reported \/ Live = {}
=============================================================================
