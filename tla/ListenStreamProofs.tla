------------------------- MODULE ListenStreamProofs -------------------------
(***************************************************************************)
(* Proofs about ListenStream, for any number of listeners, interfaces,     *)
(* addresses and faults.                                                   *)
(***************************************************************************)
EXTENDS ListenStream, SequenceTheorems, FiniteSetTheorems, TLAPS

-----------------------------------------------------------------------------
(***************************************************************************)
(* What a fresh IfWatcher has to tell: the addresses that are up, each of  *)
(* them once, in some order.                                               *)
(***************************************************************************)
Listing(s) == [i \in DOMAIN s |-> [kind |-> "Up", ip |-> s[i]]]

LEMMA ListingOfUp ==
  ASSUME NEW U \in SUBSET IPs, NEW s \in [1..Cardinality(U) -> U],
         \A i, j \in DOMAIN s : s[i] = s[j] => i = j
  PROVE  /\ Listing(s) \in Seq(IfEvents)
         /\ Len(Listing(s)) <= Cardinality(IPs)
         /\ DOMAIN Listing(s) = DOMAIN s
         /\ \A ip : ip \in U <=> \E i \in DOMAIN s : s[i] = ip
<1>1. IsFiniteSet(IPs) /\ IsFiniteSet(U)
  BY ListenAssumption, FS_Subset DEF IPs
<1>2. /\ Cardinality(U) \in Nat /\ Cardinality(IPs) \in Nat
      /\ Cardinality(U) <= Cardinality(IPs)
  BY <1>1, FS_Subset, FS_CardinalityType
<1> DEFINE n == Cardinality(U)
<1>3. DOMAIN s = 1..n
  OBVIOUS
<1>4. \A i \in 1..n : [kind |-> "Up", ip |-> s[i]] \in IfEvents
  BY DEF IfEvents
<1>5. Listing(s) \in [1..n -> IfEvents]
  BY <1>3, <1>4 DEF Listing
<1>6. Listing(s) \in Seq(IfEvents) /\ Len(Listing(s)) = n /\ DOMAIN Listing(s) = 1..n
  BY <1>2, <1>5
<1>7. s \in Surjection(1..n, U)
  <2>1. s \in Injection(1..n, U)
    BY <1>3 DEF Injection, IsInjective
  <2>2. Cardinality(1..n) = n
    BY <1>2, FS_Interval
  <2> QED  BY <1>1, <2>1, <2>2, FS_Injection
<1>8. \A ip \in U : \E i \in 1..n : s[i] = ip
  BY <1>7 DEF Surjection
<1> QED  BY <1>2, <1>3, <1>6, <1>8

-----------------------------------------------------------------------------
(* Types.                                                                  *)

(* No listener has been polled and the channel is empty.                   *)
LEMMA InitTypeOK == Init => TypeOK
<1> SUFFICES ASSUME Init PROVE TypeOK
  OBVIOUS
<1>1. events \in [Listeners -> Seq(IfEvents)] /\ ch \in Seq(Addrs)
  BY DEF Init
<1>2. MaxEvents \in Nat /\ Cardinality(IPs) \in Nat /\ Capacity \in Nat /\ MaxFaults \in Nat
  BY ListenAssumption, FS_CardinalityType DEF IPs
<1>3. Len(ch) <= Capacity
      /\ \A l \in Listeners : Len(events[l]) <= MaxEvents + Cardinality(IPs)
  BY <1>2 DEF Init
<1>4. PICK b \in Bindings :
         /\ in_addr = [l \in Listeners |-> IF b = "any" THEN "pending" ELSE "out"]
         /\ watcher = [l \in Listeners |-> IF b = "any" THEN "busy" ELSE "none"]
  BY DEF Init
<1>5. /\ in_addr \in [Listeners -> {"out", "taken", "pending", "ready"}]
      /\ watcher \in [Listeners -> {"none", "busy", "ok", "err"}]
  BY <1>4
<1> QED  BY <1>1, <1>2, <1>3, <1>5 DEF Init, TypeOK

(* Consuming an event of the watcher leaves the rest of them.              *)
LEMMA ConsumedType ==
  ASSUME TypeOK, NEW l \in Listeners, ConsumeEvent(l)
  PROVE  /\ events' \in [Listeners -> Seq(IfEvents)]
         /\ \A m \in Listeners : Len(events'[m]) <= MaxEvents + Cardinality(IPs)
         /\ NextEvent(l) \in IfEvents
<1>1. events[l] \in Seq(IfEvents) /\ events[l] # <<>>
  BY DEF TypeOK, ConsumeEvent
<1>2. /\ Head(events[l]) \in IfEvents /\ Tail(events[l]) \in Seq(IfEvents)
      /\ Len(Tail(events[l])) = Len(events[l]) - 1 /\ Len(events[l]) \in Nat
  BY <1>1, HeadTailProperties, LenProperties
<1>3. events' = [events EXCEPT ![l] = Tail(events[l])]
  BY DEF ConsumeEvent
<1>4. MaxEvents \in Nat /\ Cardinality(IPs) \in Nat
  BY ListenAssumption, FS_CardinalityType DEF IPs
<1> QED  BY <1>2, <1>3, <1>4 DEF TypeOK, NextEvent

(* A new event of the watcher of the listeners in W.                       *)
LEMMA AppendedType ==
  ASSUME TypeOK, NEW W \in SUBSET Listeners, NEW ev \in IfEvents,
         \A l \in W : Len(events[l]) < MaxEvents,
         events' = [l \in Listeners |-> IF l \in W THEN Append(events[l], ev)
                                                    ELSE events[l]]
  PROVE  /\ events' \in [Listeners -> Seq(IfEvents)]
         /\ \A m \in Listeners : Len(events'[m]) <= MaxEvents + Cardinality(IPs)
<1>1. MaxEvents \in Nat /\ Cardinality(IPs) \in Nat
  BY ListenAssumption, FS_CardinalityType DEF IPs
<1>2. \A l \in Listeners : /\ events[l] \in Seq(IfEvents) /\ Len(events[l]) \in Nat
                           /\ Append(events[l], ev) \in Seq(IfEvents)
                           /\ Len(Append(events[l], ev)) = Len(events[l]) + 1
  BY AppendProperties, LenProperties DEF TypeOK
<1> QED  BY <1>1, <1>2 DEF TypeOK

(* Waking leaves the types of what it changes.                             *)
LEMMA WakeType ==
  ASSUME TypeOK, NEW L \in SUBSET Listeners, NEW place, Wake(L, place)
  PROVE  /\ woken' \subseteq Listeners
         /\ wakers' \in [Listeners -> SUBSET {"if_watch", "pause"}]
BY DEF TypeOK, Wake

(* Every step of a listener and of its environment keeps the types.        *)
LEMMA NextTypeOK == TypeOK /\ [Next]_vars => TypeOK'
<1> SUFFICES ASSUME TypeOK, [Next]_vars PROVE TypeOK'
  OBVIOUS
<1> USE DEF streamVars, ifVars, chanVars, At, Item, Pending
<1>1. ASSUME NEW l \in Listeners, poll_next(l) PROVE TypeOK'
  BY <1>1 DEF poll_next, TypeOK
<1>2. ASSUME NEW l \in Listeners,
             IfWatchPending(l) \/ IfWatchOk(l) \/ IfWatchErr(l)
      PROVE TypeOK'
  <2>1. CASE IfWatchPending(l)
    BY <2>1 DEF IfWatchPending, TypeOK
  <2>2. CASE IfWatchOk(l)
    BY <2>2 DEF IfWatchOk, TypeOK
  <2>3. CASE IfWatchErr(l)
    BY <2>3 DEF IfWatchErr, TypeOK
  <2> QED  BY <1>2, <2>1, <2>2, <2>3
<1>3. ASSUME NEW l \in Listeners,
             IfUp(l) \/ IfDown(l) \/ IfOtherFamily(l) \/ IfErr(l)
      PROVE TypeOK'
  <2>1. ConsumeEvent(l)
    BY <1>3 DEF IfUp, IfDown, IfOtherFamily, IfErr
  <2>2. UNCHANGED <<in_addr, watcher, up, faults, wakers, ch, tx_alive, rx_waker>>
    BY <2>1 DEF ConsumeEvent
  <2>3. /\ pause' \in [Listeners -> {"none", "running", "elapsed"}]
        /\ pc' \in [Listeners -> {"idle", "poll", "accept", "ended", "dropped"}]
        /\ woken' \subseteq Listeners
        /\ announced' \in [Listeners -> SUBSET (IPs \cup {SocketIP})]
        /\ unrested' \subseteq Listeners
    <3>1. CASE IfUp(l)
      BY <3>1 DEF IfUp, TypeOK, IPs
    <3>2. CASE IfDown(l)
      BY <3>2 DEF IfDown, TypeOK
    <3>3. CASE IfOtherFamily(l)
      BY <3>3 DEF IfOtherFamily, TypeOK
    <3>4. CASE IfErr(l)
      BY <3>4 DEF IfErr, TypeOK
    <3> QED  BY <1>3, <3>1, <3>2, <3>3, <3>4
  <2> QED  BY <2>1, <2>2, <2>3, ConsumedType DEF TypeOK
<1>4. ASSUME NEW l \in Listeners, IfIdle(l) \/ OneOut(l) \/ OneTaken(l)
      PROVE TypeOK'
  <2>1. CASE IfIdle(l)
    BY <2>1 DEF IfIdle, TypeOK
  <2>2. CASE OneOut(l)
    BY <2>2 DEF OneOut, TypeOK
  <2>3. CASE OneTaken(l)
    BY <2>3 DEF OneTaken, TypeOK
  <2> QED  BY <1>4, <2>1, <2>2, <2>3
<1>5. ASSUME NEW l \in Listeners,
             PausePending(l) \/ StreamEnds(l) \/ ChannelPending(l)
      PROVE TypeOK'
  <2>1. CASE PausePending(l)
    BY <2>1 DEF PausePending, TypeOK
  <2>2. CASE StreamEnds(l)
    BY <2>2 DEF StreamEnds, Accepts, TypeOK
  <2>3. CASE ChannelPending(l)
    BY <2>3 DEF ChannelPending, Accepts, TypeOK
  <2> QED  BY <1>5, <2>1, <2>2, <2>3
<1>6. ASSUME NEW l \in Listeners, Upgrade(l) PROVE TypeOK'
  <2>1. ch \in Seq(Addrs) /\ ch # <<>> /\ ch' = Tail(ch) /\ Capacity \in Nat
    BY <1>6, ListenAssumption DEF Upgrade, TypeOK
  <2>2. ch' \in Seq(Addrs) /\ Len(ch') <= Capacity
    BY <2>1, HeadTailProperties, LenProperties DEF TypeOK
  <2>3. /\ pause' \in [Listeners -> {"none", "running", "elapsed"}]
        /\ pc' \in [Listeners -> {"idle", "poll", "accept", "ended", "dropped"}]
        /\ woken' \subseteq Listeners
        /\ unrested' \subseteq Listeners
        /\ UNCHANGED <<in_addr, ifVars, wakers, tx_alive, rx_waker, announced>>
    BY <1>6 DEF Upgrade, Accepts, TypeOK
  <2> QED  BY <2>2, <2>3 DEF TypeOK
<1>7. ASSUME NEW l \in Listeners, IfWatcherMade(l) PROVE TypeOK'
  <2>1. up \in SUBSET IPs
    BY DEF TypeOK
  <2>2. PICK s \in [1..Cardinality(up) -> up] :
           /\ \A i, j \in DOMAIN s : s[i] = s[j] => i = j
           /\ events' = [events EXCEPT ![l] = Listing(s)]
    BY <1>7 DEF IfWatcherMade, Listing
  <2>3. Listing(s) \in Seq(IfEvents) /\ Len(Listing(s)) <= Cardinality(IPs)
    BY <2>1, <2>2, ListingOfUp
  <2>4. MaxEvents \in Nat /\ Cardinality(IPs) \in Nat /\ Len(Listing(s)) \in Nat
    BY <2>3, ListenAssumption, FS_CardinalityType, LenProperties DEF IPs
  <2>5. /\ events' \in [Listeners -> Seq(IfEvents)]
        /\ \A m \in Listeners : Len(events'[m]) <= MaxEvents + Cardinality(IPs)
    BY <2>2, <2>3, <2>4 DEF TypeOK
  <2>6. Wake({l}, "if_watch") /\ {l} \in SUBSET Listeners
    BY <1>7 DEF IfWatcherMade
  <2>7. /\ woken' \subseteq Listeners
        /\ wakers' \in [Listeners -> SUBSET {"if_watch", "pause"}]
    BY <2>6, WakeType
  <2>8. /\ watcher' \in [Listeners -> {"none", "busy", "ok", "err"}]
        /\ UNCHANGED <<streamVars, up, faults, chanVars, announced, unrested>>
    BY <1>7 DEF IfWatcherMade, TypeOK
  <2> QED  BY <2>5, <2>7, <2>8 DEF TypeOK
<1>8. ASSUME NEW l \in Listeners, IfWatcherFails(l) PROVE TypeOK'
  <2>1. Wake({l}, "if_watch") /\ {l} \in SUBSET Listeners
    BY <1>8 DEF IfWatcherFails
  <2>2. /\ woken' \subseteq Listeners
        /\ wakers' \in [Listeners -> SUBSET {"if_watch", "pause"}]
    BY <2>1, WakeType
  <2>3. faults' \in 0..MaxFaults
    BY <1>8, ListenAssumption DEF IfWatcherFails, TypeOK
  <2>4. /\ watcher' \in [Listeners -> {"none", "busy", "ok", "err"}]
        /\ UNCHANGED <<streamVars, events, up, chanVars, announced, unrested>>
    BY <1>8 DEF IfWatcherFails, TypeOK
  <2> QED  BY <2>2, <2>3, <2>4 DEF TypeOK
<1>9. ASSUME NEW ip \in IPs, IfChange(ip) PROVE TypeOK'
  <2> DEFINE ev == [kind |-> IF ip \in up THEN "Down" ELSE "Up", ip |-> ip]
  <2>1. ev \in IfEvents
    BY DEF IfEvents
  <2>2. Watching \in SUBSET Listeners
    BY DEF Watching, Live
  <2>3. /\ events' \in [Listeners -> Seq(IfEvents)]
        /\ \A m \in Listeners : Len(events'[m]) <= MaxEvents + Cardinality(IPs)
    BY <1>9, <2>1, <2>2, AppendedType DEF IfChange
  <2>4. Wake(Watching, "if_watch")
    BY <1>9 DEF IfChange
  <2>5. /\ woken' \subseteq Listeners
        /\ wakers' \in [Listeners -> SUBSET {"if_watch", "pause"}]
    BY <2>2, <2>4, WakeType
  <2>6. faults' \in 0..MaxFaults
    BY <1>9, ListenAssumption DEF IfChange, TypeOK
  <2>7. up' \subseteq IPs /\ UNCHANGED <<streamVars, watcher, chanVars, announced, unrested>>
    BY <1>9 DEF IfChange, TypeOK
  <2> QED  BY <2>3, <2>5, <2>6, <2>7 DEF TypeOK
<1>10. ASSUME NEW l \in Listeners, IfError(l) PROVE TypeOK'
  <2> DEFINE ev == [kind |-> "Err", ip |-> None]
  <2>1. ev \in IfEvents
    BY DEF IfEvents
  <2>2. events' = [m \in Listeners |-> IF m \in {l} THEN Append(events[m], ev)
                                                     ELSE events[m]]
    BY <1>10 DEF IfError, TypeOK
  <2>3. /\ events' \in [Listeners -> Seq(IfEvents)]
        /\ \A m \in Listeners : Len(events'[m]) <= MaxEvents + Cardinality(IPs)
    BY <1>10, <2>1, <2>2, AppendedType DEF IfError
  <2>4. Wake({l}, "if_watch") /\ {l} \in SUBSET Listeners
    BY <1>10 DEF IfError
  <2>5. /\ woken' \subseteq Listeners
        /\ wakers' \in [Listeners -> SUBSET {"if_watch", "pause"}]
    BY <2>4, WakeType
  <2>6. faults' \in 0..MaxFaults
    BY <1>10, ListenAssumption DEF IfError, TypeOK
  <2>7. UNCHANGED <<streamVars, watcher, up, chanVars, announced, unrested>>
    BY <1>10 DEF IfError
  <2> QED  BY <2>3, <2>5, <2>6, <2>7 DEF TypeOK
<1>11. ASSUME NEW l \in Listeners, PauseElapses(l) PROVE TypeOK'
  <2>1. Wake({l}, "pause") /\ {l} \in SUBSET Listeners
    BY <1>11 DEF PauseElapses
  <2>2. /\ woken' \subseteq Listeners
        /\ wakers' \in [Listeners -> SUBSET {"if_watch", "pause"}]
    BY <2>1, WakeType
  <2>3. /\ pause' \in [Listeners -> {"none", "running", "elapsed"}]
        /\ UNCHANGED <<in_addr, pc, ifVars, chanVars, announced>> /\ unrested' = unrested \ {l}
    BY <1>11 DEF PauseElapses, TypeOK
  <2> QED  BY <2>2, <2>3 DEF TypeOK
<1>15. ASSUME NEW l \in Listeners, DropListener(l) PROVE TypeOK'
  BY <1>15 DEF DropListener, TypeOK
<1>12. ASSUME NEW a \in Addrs, NewAddr(a) PROVE TypeOK'
  <2>1. Capacity \in Nat /\ Len(ch) \in Nat /\ Len(ch) < Capacity
    BY <1>12, ListenAssumption, LenProperties DEF NewAddr, TypeOK
  <2>2. ch' \in Seq(Addrs) /\ Len(ch') = Len(ch) + 1
    BY <1>12, AppendProperties DEF NewAddr, TypeOK
  <2>3. /\ woken' \subseteq Listeners /\ rx_waker' = None
        /\ UNCHANGED <<streamVars, ifVars, wakers, tx_alive, announced, unrested>>
    BY <1>12 DEF NewAddr, WakeReceiver, Live, TypeOK
  <2> QED  BY <2>1, <2>2, <2>3 DEF TypeOK
<1>13. CASE WorkerEnds
  BY <1>13 DEF WorkerEnds, WakeReceiver, Live, TypeOK
<1>14. CASE UNCHANGED vars
  BY <1>14 DEF vars, TypeOK
<1> QED
  BY <1>1, <1>2, <1>3, <1>4, <1>5, <1>6, <1>7, <1>8, <1>9, <1>10, <1>11, <1>12, <1>13,
     <1>14, <1>15 DEF Next, PollStep, Environment

(* The variables of the listeners have their types.                        *)
THEOREM TypeCorrect == Spec => []TypeOK
BY InitTypeOK, NextTypeOK, PTL DEF Spec

-----------------------------------------------------------------------------
(***************************************************************************)
(* What a stream says of ip once the events in seq are consumed, when it   *)
(* has announced ann: WillAnnounce of any watcher.                         *)
(***************************************************************************)
About(seq, ip) == {i \in DOMAIN seq : seq[i].ip = ip}

Says(seq, ann, ip) ==
  IF About(seq, ip) = {} THEN ip \in ann
  ELSE \E i \in About(seq, ip) : seq[i].kind = "Up" /\ \A j \in About(seq, ip) : j <= i

LEMMA WillAnnounceSays ==
  ASSUME NEW l, NEW ip
  PROVE  /\ WillAnnounce(l, ip) <=> Says(events[l], announced[l], ip)
         /\ WillAnnounce(l, ip)' <=> Says(events'[l], announced'[l], ip)
BY DEF WillAnnounce, Says, About

(* The last event about an address decides, and no other event matters.    *)
LEMMA SaysAppend ==
  ASSUME NEW seq \in Seq(IfEvents), NEW ev \in IfEvents, NEW ann, NEW ip
  PROVE  /\ ev.ip = ip => (Says(Append(seq, ev), ann, ip) <=> ev.kind = "Up")
         /\ ev.ip # ip => (Says(Append(seq, ev), ann, ip) <=> Says(seq, ann, ip))
<1> DEFINE app == Append(seq, ev)
           n   == Len(seq)
<1>1. /\ n \in Nat /\ DOMAIN seq = 1..n /\ DOMAIN app = 1..(n + 1)
      /\ app[n + 1] = ev /\ \A i \in 1..n : app[i] = seq[i]
  BY AppendProperties, LenProperties
<1> HIDE DEF app, n
<1>2. ASSUME ev.ip = ip PROVE Says(app, ann, ip) <=> ev.kind = "Up"
  <2>1. n + 1 \in About(app, ip) /\ \A j \in About(app, ip) : j \in 1..(n + 1)
    BY <1>1, <1>2 DEF About
  <2>2. \A i \in About(app, ip) : (\A j \in About(app, ip) : j <= i) <=> i = n + 1
    BY <1>1, <2>1
  <2> QED  BY <1>1, <2>1, <2>2 DEF Says
<1>3. ASSUME ev.ip # ip PROVE Says(app, ann, ip) <=> Says(seq, ann, ip)
  <2>1. About(app, ip) = About(seq, ip)
    BY <1>1, <1>3 DEF About
  <2>2. \A i \in About(seq, ip) : app[i] = seq[i]
    BY <1>1 DEF About
  <2> QED  BY <2>1, <2>2 DEF Says
<1> QED  BY <1>2, <1>3 DEF app

(* Consuming the first event, and announcing what it says, leaves what the *)
(* stream will say.                                                        *)
LEMMA SaysTail ==
  ASSUME NEW seq \in Seq(IfEvents), seq # <<>>, NEW ann, NEW ann2, NEW ip,
         IF Head(seq).ip = ip THEN ip \in ann2 <=> Head(seq).kind = "Up"
                              ELSE ip \in ann2 <=> ip \in ann
  PROVE  Says(Tail(seq), ann2, ip) <=> Says(seq, ann, ip)
<1> DEFINE rest == Tail(seq)
           n    == Len(seq)
<1>1. /\ n \in Nat \ {0} /\ DOMAIN seq = 1..n /\ DOMAIN rest = 1..(n - 1)
      /\ Head(seq) = seq[1] /\ \A i \in 1..(n - 1) : rest[i] = seq[i + 1]
  BY HeadTailProperties, LenProperties
<1> SUFFICES Says(rest, ann2, ip) <=> Says(seq, ann, ip)
  OBVIOUS
<1> HIDE DEF rest, n
<1>2. \A i \in 1..(n - 1) : i \in About(rest, ip) <=> i + 1 \in About(seq, ip)
  BY <1>1 DEF About
<1>3. \A i \in About(seq, ip) : i = 1 \/ (i - 1 \in About(rest, ip) /\ i - 1 \in 1..(n - 1))
  BY <1>1 DEF About
<1>4. \A i \in About(rest, ip) : i \in 1..(n - 1)
  BY <1>1 DEF About
<1>5. 1 \in About(seq, ip) <=> Head(seq).ip = ip
  BY <1>1 DEF About
<1>6. CASE About(rest, ip) = {}
  <2>1. About(seq, ip) = IF Head(seq).ip = ip THEN {1} ELSE {}
    BY <1>3, <1>5, <1>6
  <2>2. Says(rest, ann2, ip) <=> ip \in ann2
    BY <1>6 DEF Says
  <2>3. CASE Head(seq).ip = ip
    <3>1. About(seq, ip) = {1}
      BY <2>1, <2>3
    <3>2. Says(seq, ann, ip) <=> Head(seq).kind = "Up"
      BY <1>1, <3>1 DEF Says
    <3> QED  BY <2>2, <2>3, <3>2
  <2>4. CASE Head(seq).ip # ip
    BY <2>1, <2>2, <2>4 DEF Says
  <2> QED  BY <2>3, <2>4
<1>7. CASE About(rest, ip) # {}
  <2>1. PICK k \in About(rest, ip) : TRUE
    BY <1>7
  <2>2. k + 1 \in About(seq, ip)
    BY <1>2, <1>4, <2>1
  <2>3. \A i \in About(rest, ip) :
          (\A j \in About(rest, ip) : j <= i) <=> (\A j \in About(seq, ip) : j <= i + 1)
    <3> SUFFICES ASSUME NEW i \in About(rest, ip)
                 PROVE  (\A j \in About(rest, ip) : j <= i)
                          <=> (\A j \in About(seq, ip) : j <= i + 1)
      OBVIOUS
    <3>1. i \in Nat /\ i >= 1
      BY <1>1, <1>4
    <3>2. ASSUME \A j \in About(rest, ip) : j <= i, NEW j \in About(seq, ip)
          PROVE  j <= i + 1
      <4>1. j \in Nat
        BY <1>1 DEF About
      <4>2. j = 1 \/ j - 1 <= i
        BY <1>3, <3>2
      <4> QED  BY <3>1, <4>1, <4>2
    <3>3. ASSUME \A j \in About(seq, ip) : j <= i + 1, NEW j \in About(rest, ip)
          PROVE  j <= i
      <4>1. j \in Nat /\ j + 1 <= i + 1
        BY <1>1, <1>2, <1>4, <3>3
      <4> QED  BY <3>1, <4>1
    <3> QED  BY <3>2, <3>3
  <2>4. \A i \in About(seq, ip) : (\A j \in About(seq, ip) : j <= i) => i # 1
    <3>1. k \in Nat /\ ~(k + 1 <= 1)
      BY <1>1, <1>4, <2>1
    <3> QED  BY <2>2, <3>1
  <2>5. \A i \in About(rest, ip) : rest[i] = seq[i + 1]
    BY <1>1, <1>4
  <2>6. Says(rest, ann2, ip) => Says(seq, ann, ip)
    <3> SUFFICES ASSUME Says(rest, ann2, ip) PROVE Says(seq, ann, ip)
      OBVIOUS
    <3>1. PICK i \in About(rest, ip) : rest[i].kind = "Up" /\ \A j \in About(rest, ip) : j <= i
      BY <1>7 DEF Says
    <3>2. i + 1 \in About(seq, ip) /\ seq[i + 1].kind = "Up" /\ \A j \in About(seq, ip) : j <= i + 1
      BY <1>2, <1>4, <2>3, <2>5, <3>1
    <3> QED  BY <3>2 DEF Says
  <2>7. Says(seq, ann, ip) => Says(rest, ann2, ip)
    <3> SUFFICES ASSUME Says(seq, ann, ip) PROVE Says(rest, ann2, ip)
      OBVIOUS
    <3>1. PICK i \in About(seq, ip) : seq[i].kind = "Up" /\ \A j \in About(seq, ip) : j <= i
      BY <2>2 DEF Says
    <3>2. i - 1 \in About(rest, ip) /\ i - 1 \in 1..(n - 1) /\ (i - 1) + 1 = i
      <4>1. i \in Nat
        BY <1>1, <3>1 DEF About
      <4>2. i # 1
        BY <2>4, <3>1
      <4> QED  BY <1>3, <3>1, <4>1, <4>2
    <3>3. rest[i - 1].kind = "Up" /\ \A j \in About(rest, ip) : j <= i - 1
      BY <2>3, <2>5, <3>1, <3>2
    <3> QED  BY <3>2, <3>3 DEF Says
  <2> QED  BY <2>6, <2>7
<1> QED  BY <1>6, <1>7

(* A fresh watcher says which addresses are up.                            *)
LEMMA SaysListing ==
  ASSUME NEW U \in SUBSET IPs, NEW s \in [1..Cardinality(U) -> U],
         \A i, j \in DOMAIN s : s[i] = s[j] => i = j,
         NEW ip
  PROVE  Says(Listing(s), {}, ip) <=> ip \in U
<1>1. /\ DOMAIN Listing(s) = DOMAIN s
      /\ ip \in U <=> \E i \in DOMAIN s : s[i] = ip
  BY ListingOfUp
<1>2. \A i \in DOMAIN s : Listing(s)[i].ip = s[i] /\ Listing(s)[i].kind = "Up"
  BY DEF Listing
<1>3. Cardinality(U) \in Nat
  BY ListenAssumption, FS_Subset, FS_CardinalityType DEF IPs
<1>4. About(Listing(s), ip) = {i \in DOMAIN s : s[i] = ip}
  BY <1>1, <1>2 DEF About
<1>5. \A i, j \in About(Listing(s), ip) : i = j /\ i \in Nat
  BY <1>3, <1>4
<1>6. CASE About(Listing(s), ip) = {}
  BY <1>1, <1>4, <1>6 DEF Says
<1>7. CASE About(Listing(s), ip) # {}
  <2>1. PICK i \in About(Listing(s), ip) : TRUE
    BY <1>7
  <2>2. ip \in U /\ Listing(s)[i].kind = "Up" /\ \A j \in About(Listing(s), ip) : j <= i
    BY <1>1, <1>2, <1>4, <1>5, <2>1
  <2> QED  BY <1>7, <2>1, <2>2 DEF Says
<1> QED  BY <1>6, <1>7

-----------------------------------------------------------------------------
(***************************************************************************)
(* A stream announces nothing before its watcher is there, and then only   *)
(* addresses of its family.                                                *)
(***************************************************************************)
WatchInv ==
  \A l \in Listeners :
    /\ watcher[l] # "none" => in_addr[l] = "pending"
    /\ in_addr[l] = "pending" => announced[l] = {}
    /\ in_addr[l] = "ready" => announced[l] \subseteq OwnIPs

InterfacesInv == TypeOK /\ WatchInv /\ AnnouncesInterfaces

(* The steps that concern neither a watcher nor an announcement.           *)
LEMMA QuietStep ==
  ASSUME InterfacesInv, Live' \subseteq Live,
         UNCHANGED <<in_addr, watcher, events, up, announced>>
  PROVE  WatchInv' /\ AnnouncesInterfaces'
<1>1. WatchInv'
  BY DEF InterfacesInv, WatchInv
<1>2. Watching' \subseteq Watching
  BY DEF Watching
<1>3. \A l \in Watching : \A ip \in OwnIPs : WillAnnounce(l, ip)' <=> WillAnnounce(l, ip)
  BY WillAnnounceSays
<1> QED  BY <1>1, <1>2, <1>3 DEF InterfacesInv, AnnouncesInterfaces

(* What AnnouncesInterfaces says of one stream.                            *)
Agrees(l) == /\ \A ip \in OwnIPs : Says(events[l], announced[l], ip) <=> ip \in up
             /\ announced[l] \subseteq OwnIPs

LEMMA AgreeingStreams ==
  /\ AnnouncesInterfaces <=> \A l \in Watching : Agrees(l)
  /\ AnnouncesInterfaces' <=> \A l \in Watching' : Agrees(l)'
BY WillAnnounceSays DEF AnnouncesInterfaces, Agrees

(* A step of the watcher or of the announcements of one stream.            *)
LEMMA OneStreamStep ==
  ASSUME InterfacesInv, NEW l \in Listeners, UNCHANGED up,
         \A m \in Listeners \ {l} : /\ in_addr'[m] = in_addr[m] /\ watcher'[m] = watcher[m]
                                    /\ events'[m] = events[m] /\ announced'[m] = announced[m],
         Live' \subseteq Live,
         l \in Watching' => Agrees(l)'
  PROVE  AnnouncesInterfaces'
<1> SUFFICES ASSUME NEW m \in Watching' PROVE Agrees(m)'
  BY AgreeingStreams
<1>1. CASE m = l
  BY <1>1
<1>2. CASE m # l
  <2>1. m \in Watching /\ m \in Listeners \ {l}
    BY <1>2 DEF Watching, Live
  <2>2. Agrees(m)
    BY <2>1, AgreeingStreams DEF InterfacesInv
  <2> QED  BY <2>1, <2>2 DEF Agrees
<1> QED  BY <1>1, <1>2

(* The steps that consume an event of the watcher.                         *)
LEMMA ConsumeAgrees ==
  ASSUME InterfacesInv, NEW l \in Listeners,
         IfUp(l) \/ IfDown(l) \/ IfOtherFamily(l) \/ IfErr(l)
  PROVE  WatchInv' /\ AnnouncesInterfaces'
<1> USE DEF Item, At
<1>1. /\ ConsumeEvent(l) /\ TypeOK /\ in_addr[l] = "ready" /\ l \in Watching
      /\ UNCHANGED <<in_addr, watcher, up>>
  BY DEF IfUp, IfDown, IfOtherFamily, IfErr, ConsumeEvent, PollsWatch, InterfacesInv, Watching,
         Live, TypeOK
<1> DEFINE ev == NextEvent(l)
<1>2. ev \in IfEvents /\ events[l] \in Seq(IfEvents) /\ events[l] # <<>>
      /\ events'[l] = Tail(events[l]) /\ ev = Head(events[l])
      /\ \A m \in Listeners \ {l} : events'[m] = events[m]
  BY <1>1, ConsumedType DEF ConsumeEvent, TypeOK, NextEvent
<1>3. Agrees(l)
  BY <1>1, AgreeingStreams DEF InterfacesInv
<1>4. Live' \subseteq Live
  <2>1. CASE IfUp(l) \/ IfDown(l) \/ IfErr(l)
    BY <1>1, <2>1 DEF IfUp, IfDown, IfErr, Live, TypeOK, ConsumeEvent, PollsWatch
  <2>2. CASE IfOtherFamily(l)
    BY <2>2 DEF IfOtherFamily, Live
  <2> QED  BY <2>1, <2>2
<1>5. /\ announced' \in [Listeners -> SUBSET (IPs \cup {SocketIP})]
      /\ \A m \in Listeners \ {l} : announced'[m] = announced[m]
      /\ announced'[l] \subseteq OwnIPs
      /\ \A ip \in OwnIPs : IF ev.ip = ip THEN ip \in announced'[l] <=> ev.kind = "Up"
                                          ELSE ip \in announced'[l] <=> ip \in announced[l]
  <2>1. announced \in [Listeners -> SUBSET (IPs \cup {SocketIP})] /\ announced[l] \subseteq OwnIPs
    BY <1>1, <1>3 DEF TypeOK, Agrees
  <2>2. CASE IfUp(l)
    <3>1. announced' = [announced EXCEPT ![l] = announced[l] \cup {ev.ip}]
          /\ ev.kind = "Up" /\ ev.ip \in OwnIPs
      BY <2>2 DEF IfUp
    <3> HIDE DEF ev
    <3> QED  BY <2>1, <3>1 DEF IPs
  <2>3. CASE IfDown(l)
    <3>1. announced' = [announced EXCEPT ![l] = announced[l] \ {ev.ip}]
          /\ ev.kind = "Down" /\ ev.ip \in OwnIPs
      BY <2>3 DEF IfDown
    <3> HIDE DEF ev
    <3> QED  BY <2>1, <3>1 DEF IPs
  <2>4. CASE IfOtherFamily(l) \/ IfErr(l)
    <3>1. announced' = announced /\ ev.ip \notin OwnIPs
      <4>1. CASE IfOtherFamily(l)
        BY <4>1, ListenAssumption DEF IfOtherFamily
      <4>2. CASE IfErr(l)
        BY <1>2, <4>2, ListenAssumption DEF IfErr, IfEvents
      <4> QED  BY <2>4, <4>1, <4>2
    <3> HIDE DEF ev
    <3> QED  BY <2>1, <3>1
  <2> QED  BY <2>2, <2>3, <2>4
<1>6. \A ip \in OwnIPs : Says(events'[l], announced'[l], ip) <=> Says(events[l], announced[l], ip)
  <2> SUFFICES ASSUME NEW ip \in OwnIPs
               PROVE  Says(events'[l], announced'[l], ip) <=> Says(events[l], announced[l], ip)
    OBVIOUS
  <2>1. IF Head(events[l]).ip = ip THEN ip \in announced'[l] <=> Head(events[l]).kind = "Up"
                                   ELSE ip \in announced'[l] <=> ip \in announced[l]
    BY <1>2, <1>5
  <2>2. Says(Tail(events[l]), announced'[l], ip) <=> Says(events[l], announced[l], ip)
    BY <1>2, <2>1, SaysTail
  <2> QED  BY <1>2, <2>2
<1>7. Agrees(l)'
  BY <1>1, <1>3, <1>5, <1>6 DEF Agrees
<1>8. AnnouncesInterfaces'
  BY <1>1, <1>2, <1>4, <1>5, <1>7, OneStreamStep
<1>9. WatchInv'
  BY <1>1, <1>5 DEF InterfacesInv, WatchInv
<1> QED  BY <1>8, <1>9

(* The steps of the watcher future.                                        *)
LEMMA FutureAgrees ==
  ASSUME InterfacesInv, NEW l \in Listeners,
         IfWatchOk(l) \/ IfWatchErr(l) \/ IfWatcherFails(l) \/ OneOut(l)
  PROVE  WatchInv' /\ AnnouncesInterfaces'
<1> USE DEF Item, At, chanVars, streamVars, ifVars
<1>1. TypeOK /\ WatchInv
  BY DEF InterfacesInv
<1>2. CASE IfWatchOk(l)
  <2>1. /\ pc[l] = "poll" /\ in_addr[l] = "pending" /\ watcher[l] = "ok"
        /\ in_addr' = [in_addr EXCEPT ![l] = "ready"]
        /\ watcher' = [watcher EXCEPT ![l] = "none"]
        /\ UNCHANGED <<pc, events, up, announced>>
    BY <1>2 DEF IfWatchOk
  <2>2. l \in Watching /\ Live' = Live
    BY <2>1 DEF Watching, Live
  <2>3. Agrees(l)
    BY <2>2, AgreeingStreams DEF InterfacesInv
  <2>4. Agrees(l)'
    BY <2>1, <2>3 DEF Agrees
  <2>5. \A m \in Listeners \ {l} : in_addr'[m] = in_addr[m] /\ watcher'[m] = watcher[m]
    BY <1>1, <2>1 DEF TypeOK
  <2>6. AnnouncesInterfaces'
    BY <2>1, <2>2, <2>4, <2>5, OneStreamStep
  <2>7. WatchInv'
    BY <1>1, <2>1 DEF WatchInv, TypeOK
  <2> QED  BY <2>6, <2>7
<1>3. CASE IfWatchErr(l) \/ IfWatcherFails(l)
  <2>1. /\ in_addr[l] = "pending" /\ pc[l] # "dropped"
        /\ watcher' \in [Listeners -> {"none", "busy", "ok", "err"}]
        /\ \A m \in Listeners \ {l} : watcher'[m] = watcher[m]
        /\ watcher'[l] # "ok"
        /\ UNCHANGED <<in_addr, events, up, announced>>
    <3>1. CASE IfWatchErr(l)
      BY <1>1, <3>1 DEF IfWatchErr, TypeOK
    <3>2. CASE IfWatcherFails(l)
      BY <1>1, <3>2 DEF IfWatcherFails, Live, TypeOK, WatchInv
    <3> QED  BY <1>3, <3>1, <3>2
  <2>2. Live' \subseteq Live
    <3>1. CASE IfWatchErr(l)
      BY <1>1, <2>1, <3>1 DEF IfWatchErr, Live, TypeOK
    <3>2. CASE IfWatcherFails(l)
      BY <3>2 DEF IfWatcherFails, Live
    <3> QED  BY <1>3, <3>1, <3>2
  <2>3. l \notin Watching'
    BY <2>1 DEF Watching
  <2>4. AnnouncesInterfaces'
    BY <2>1, <2>2, <2>3, OneStreamStep
  <2>5. WatchInv'
    BY <1>1, <2>1 DEF WatchInv
  <2> QED  BY <2>4, <2>5
<1>4. CASE OneOut(l)
  <2>1. /\ pc[l] = "poll" /\ in_addr[l] = "out"
        /\ in_addr' = [in_addr EXCEPT ![l] = "taken"]
        /\ announced' = [announced EXCEPT ![l] = announced[l] \cup {SocketIP}]
        /\ pc' = [pc EXCEPT ![l] = "idle"]
        /\ UNCHANGED <<watcher, events, up>>
    BY <1>4 DEF OneOut
  <2>2. Live' \subseteq Live /\ l \notin Watching'
    BY <1>1, <2>1 DEF Live, Watching, TypeOK, WatchInv
  <2>3. \A m \in Listeners \ {l} : in_addr'[m] = in_addr[m] /\ announced'[m] = announced[m]
    BY <1>1, <2>1 DEF TypeOK
  <2>4. AnnouncesInterfaces'
    BY <2>1, <2>2, <2>3, OneStreamStep
  <2>5. WatchInv'
    BY <1>1, <2>1 DEF WatchInv, TypeOK
  <2> QED  BY <2>4, <2>5
<1> QED  BY <1>2, <1>3, <1>4

(* A fresh watcher lists what is up to a stream that has announced nothing.*)
LEMMA MadeAgrees ==
  ASSUME InterfacesInv, NEW l \in Listeners, IfWatcherMade(l)
  PROVE  WatchInv' /\ AnnouncesInterfaces'
<1>1. TypeOK /\ WatchInv
  BY DEF InterfacesInv
<1>2. /\ watcher[l] = "busy" /\ watcher' = [watcher EXCEPT ![l] = "ok"]
      /\ UNCHANGED <<in_addr, pc, up, announced>>
  BY DEF IfWatcherMade, streamVars
<1>3. PICK s \in [1..Cardinality(up) -> up] :
         /\ \A i, j \in DOMAIN s : s[i] = s[j] => i = j
         /\ events' = [events EXCEPT ![l] = Listing(s)]
  BY DEF IfWatcherMade, Listing
<1>4. up \in SUBSET IPs /\ announced[l] = {}
  BY <1>1, <1>2 DEF TypeOK, WatchInv
<1>5. \A ip \in OwnIPs : Says(Listing(s), {}, ip) <=> ip \in up
  BY <1>3, <1>4, SaysListing
<1>6. events'[l] = Listing(s) /\ \A m \in Listeners \ {l} : events'[m] = events[m]
  BY <1>1, <1>3 DEF TypeOK
<1>7. Agrees(l)'
  BY <1>2, <1>4, <1>5, <1>6 DEF Agrees
<1>8. \A m \in Listeners \ {l} : watcher'[m] = watcher[m]
  BY <1>1, <1>2 DEF TypeOK
<1>9. AnnouncesInterfaces'
  <2>1. Live' \subseteq Live
    BY <1>2 DEF Live
  <2> QED  BY <1>2, <1>6, <1>7, <1>8, <2>1, OneStreamStep
<1>10. WatchInv'
  BY <1>1, <1>2 DEF WatchInv, TypeOK
<1> QED  BY <1>9, <1>10

(* A change of an interface is the last event about it in every watcher.   *)
LEMMA ChangeAgrees ==
  ASSUME InterfacesInv, NEW ip \in IPs, IfChange(ip)
  PROVE  WatchInv' /\ AnnouncesInterfaces'
<1> DEFINE ev == [kind |-> IF ip \in up THEN "Down" ELSE "Up", ip |-> ip]
<1>1. TypeOK /\ WatchInv /\ ev \in IfEvents
  BY DEF InterfacesInv, IfEvents
<1>2. /\ events' = [l \in Listeners |-> IF l \in Watching THEN Append(events[l], ev)
                                                          ELSE events[l]]
      /\ up' = IF ip \in up THEN up \ {ip} ELSE up \cup {ip}
      /\ UNCHANGED <<in_addr, pc, watcher, announced>>
  BY DEF IfChange, streamVars
<1>3. WatchInv'
  BY <1>1, <1>2 DEF WatchInv
<1>4. ASSUME NEW l \in Watching' PROVE Agrees(l)'
  <2>1. l \in Watching /\ l \in Listeners
    BY <1>2, <1>4 DEF Watching, Live
  <2>2. Agrees(l) /\ events[l] \in Seq(IfEvents) /\ events'[l] = Append(events[l], ev)
    BY <1>1, <1>2, <2>1, AgreeingStreams DEF InterfacesInv, TypeOK
  <2>3. ASSUME NEW x \in OwnIPs
        PROVE  Says(events'[l], announced'[l], x) <=> x \in up'
    <3>1. CASE x = ip
      <4>1. Says(Append(events[l], ev), announced[l], x) <=> ev.kind = "Up"
        BY <1>1, <2>2, <3>1, SaysAppend
      <4> QED  BY <1>2, <2>2, <3>1, <4>1
    <3>2. CASE x # ip
      <4>1. ev.ip # x
        BY <3>2
      <4>2. Says(Append(events[l], ev), announced[l], x) <=> Says(events[l], announced[l], x)
        BY <1>1, <2>2, <4>1, SaysAppend
      <4> QED  BY <1>2, <2>2, <3>2, <4>2 DEF Agrees
    <3> QED  BY <3>1, <3>2
  <2> QED  BY <1>2, <2>2, <2>3 DEF Agrees
<1> QED  BY <1>3, <1>4, AgreeingStreams

(* An error in the watcher is about no address.                            *)
LEMMA ErrorAgrees ==
  ASSUME InterfacesInv, NEW l \in Listeners, IfError(l)
  PROVE  WatchInv' /\ AnnouncesInterfaces'
<1> DEFINE ev == [kind |-> "Err", ip |-> None]
<1>1. TypeOK /\ WatchInv /\ ev \in IfEvents
  BY DEF InterfacesInv, IfEvents
<1>2. /\ l \in Watching /\ events' = [events EXCEPT ![l] = Append(events[l], ev)]
      /\ UNCHANGED <<in_addr, pc, watcher, up, announced>>
  BY DEF IfError, streamVars
<1>3. /\ Agrees(l) /\ events[l] \in Seq(IfEvents) /\ events'[l] = Append(events[l], ev)
      /\ \A m \in Listeners \ {l} : events'[m] = events[m]
  BY <1>1, <1>2, AgreeingStreams DEF InterfacesInv, TypeOK
<1>4. ASSUME NEW ip \in OwnIPs
      PROVE  Says(events'[l], announced'[l], ip) <=> ip \in up'
  <2>1. ev.ip # ip
    BY ListenAssumption
  <2>2. Says(Append(events[l], ev), announced[l], ip) <=> Says(events[l], announced[l], ip)
    BY <1>1, <1>3, <2>1, SaysAppend
  <2> QED  BY <1>2, <1>3, <2>2 DEF Agrees
<1>5. Agrees(l)'
  BY <1>2, <1>3, <1>4 DEF Agrees
<1>6. AnnouncesInterfaces'
  <2>1. Live' \subseteq Live
    BY <1>2 DEF Live
  <2> QED  BY <1>2, <1>3, <1>5, <2>1, OneStreamStep
<1> QED  BY <1>1, <1>2, <1>6 DEF WatchInv

LEMMA NextInterfaces == InterfacesInv /\ [Next]_vars => InterfacesInv'
<1> SUFFICES ASSUME InterfacesInv, [Next]_vars PROVE WatchInv' /\ AnnouncesInterfaces'
  BY NextTypeOK DEF InterfacesInv
<1> USE DEF Item, Pending, At, chanVars, streamVars, ifVars
<1>1. TypeOK
  BY DEF InterfacesInv
<1>2. ASSUME NEW l \in Listeners,
             \/ poll_next(l) \/ IfWatchPending(l) \/ IfIdle(l) \/ OneTaken(l)
             \/ PausePending(l) \/ Upgrade(l) \/ StreamEnds(l) \/ ChannelPending(l)
      PROVE  WatchInv' /\ AnnouncesInterfaces'
  <2>1. UNCHANGED <<in_addr, watcher, events, up, announced>>
    BY <1>2 DEF poll_next, IfWatchPending, IfIdle, OneTaken, PausePending, Upgrade, StreamEnds,
                ChannelPending
  <2>2. pc[l] # "dropped" /\ \E p : pc' = [pc EXCEPT ![l] = p]
    BY <1>2 DEF poll_next, IfWatchPending, IfIdle, PollsWatch, OneTaken, PausePending, Upgrade,
                StreamEnds, ChannelPending, Accepts
  <2>3. Live' \subseteq Live
    BY <1>1, <2>2 DEF Live, TypeOK
  <2> QED  BY <2>1, <2>3, QuietStep
<1>3. ASSUME NEW l \in Listeners, PauseElapses(l) \/ DropListener(l)
      PROVE  WatchInv' /\ AnnouncesInterfaces'
  <2>1. UNCHANGED <<in_addr, watcher, events, up, announced>>
    BY <1>3 DEF PauseElapses, DropListener
  <2>2. Live' \subseteq Live
    BY <1>1, <1>3 DEF PauseElapses, DropListener, Live, TypeOK
  <2> QED  BY <2>1, <2>2, QuietStep
<1>4. ASSUME WorkerEnds \/ (\E a \in Addrs : NewAddr(a)) \/ UNCHANGED vars
      PROVE  WatchInv' /\ AnnouncesInterfaces'
  <2>1. UNCHANGED <<in_addr, pc, watcher, events, up, announced>>
    BY <1>4 DEF WorkerEnds, NewAddr, vars
  <2> QED  BY <2>1, QuietStep DEF Live
<1> QED
  BY <1>2, <1>3, <1>4, ConsumeAgrees, FutureAgrees, MadeAgrees, ChangeAgrees, ErrorAgrees
  DEF Next, PollStep, Environment

LEMMA InitInterfaces == Init => InterfacesInv
<1> SUFFICES ASSUME Init PROVE WatchInv /\ AnnouncesInterfaces
  BY InitTypeOK DEF InterfacesInv
<1>1. PICK b \in Bindings :
         /\ in_addr = [l \in Listeners |-> IF b = "any" THEN "pending" ELSE "out"]
         /\ watcher = [l \in Listeners |-> IF b = "any" THEN "busy" ELSE "none"]
  BY DEF Init
<1>2. WatchInv
  BY <1>1 DEF Init, WatchInv
<1>3. Watching = {}
  BY <1>1 DEF Watching, Live
<1> QED  BY <1>2, <1>3 DEF AnnouncesInterfaces

(***************************************************************************)
(* Once the events of its watcher are consumed, each stream has announced  *)
(* exactly the addresses of its family that are up.  A stream whose        *)
(* watcher is pending has announced nothing, so that the fresh listing is  *)
(* all there is to say, and each later event decides about its address.    *)
(***************************************************************************)
THEOREM InterfacesAnnounced == Spec => []AnnouncesInterfaces
<1>1. InterfacesInv => AnnouncesInterfaces
  BY DEF InterfacesInv
<1> QED  BY <1>1, InitInterfaces, NextInterfaces, PTL DEF Spec

-----------------------------------------------------------------------------
(***************************************************************************)
(* Why an error is followed by a pause: until its timer has fired a stream *)
(* that has returned an error keeps a pause that runs, in every poll.      *)
(***************************************************************************)
PauseInv == \A l \in unrested : pause[l] = "running"

LEMMA NextPauseInv == TypeOK /\ PauseInv /\ [Next]_vars => PauseInv'
<1> SUFFICES ASSUME TypeOK, PauseInv, [Next]_vars PROVE PauseInv'
  OBVIOUS
<1> USE DEF Item, Pending, At, chanVars, streamVars, ifVars
<1>1. ASSUME UNCHANGED <<pause, unrested>> PROVE PauseInv'
  BY <1>1 DEF PauseInv
<1>2. ASSUME NEW l \in Listeners, IfWatchErr(l) \/ IfErr(l) PROVE PauseInv'
  <2>1. pause' = [pause EXCEPT ![l] = "running"] /\ unrested' = unrested \cup {l}
    BY <1>2 DEF IfWatchErr, IfErr
  <2> QED  BY <2>1 DEF PauseInv, TypeOK
<1>3. ASSUME NEW l \in Listeners, Accepts(l), UNCHANGED unrested PROVE PauseInv'
  BY <1>3 DEF PauseInv, Accepts, TypeOK
<1>4. ASSUME NEW l \in Listeners, Upgrade(l) \/ StreamEnds(l) \/ ChannelPending(l)
      PROVE  PauseInv'
  BY <1>3, <1>4 DEF Upgrade, StreamEnds, ChannelPending
<1>5. ASSUME NEW l \in Listeners, PauseElapses(l) PROVE PauseInv'
  BY <1>5 DEF PauseElapses, PauseInv, TypeOK
<1>6. ASSUME NEW l \in Listeners, poll_next(l) \/ IfWatchPending(l) \/ IfWatchOk(l)
      PROVE  PauseInv'
  BY <1>1, <1>6 DEF poll_next, IfWatchPending, IfWatchOk
<1>7. ASSUME NEW l \in Listeners,
             IfUp(l) \/ IfDown(l) \/ IfOtherFamily(l) \/ IfIdle(l)
      PROVE  PauseInv'
  BY <1>1, <1>7 DEF IfUp, IfDown, IfOtherFamily, IfIdle
<1>8. ASSUME NEW l \in Listeners, OneOut(l) \/ OneTaken(l) \/ PausePending(l)
      PROVE  PauseInv'
  BY <1>1, <1>8 DEF OneOut, OneTaken, PausePending
<1>9. ASSUME NEW l \in Listeners,
             IfWatcherMade(l) \/ IfWatcherFails(l) \/ IfError(l) \/ DropListener(l)
      PROVE  PauseInv'
  BY <1>1, <1>9 DEF IfWatcherMade, IfWatcherFails, IfError, DropListener
<1>10. ASSUME NEW ip \in IPs, IfChange(ip) PROVE PauseInv'
  BY <1>1, <1>10 DEF IfChange
<1>11. ASSUME NEW a \in Addrs, NewAddr(a) PROVE PauseInv'
  BY <1>1, <1>11 DEF NewAddr
<1>12. CASE WorkerEnds \/ UNCHANGED vars
  BY <1>1, <1>12 DEF WorkerEnds, vars
<1> QED
  BY <1>2, <1>4, <1>5, <1>6, <1>7, <1>8, <1>9, <1>10, <1>11, <1>12
  DEF Next, Environment, PollStep

(***************************************************************************)
(* ErrorsPause: no upgrade between an error and the end of its pause, for  *)
(* any number of streams, errors and polls in between.                     *)
(***************************************************************************)
THEOREM ErrorsFollowedByPause == Spec => ErrorsPause
<1> DEFINE NoUpgrade ==
      \A l \in unrested : ~(pc[l] = "accept" /\ ch' # ch /\ pc'[l] = "idle")
<1>1. ASSUME TypeOK, PauseInv, [Next]_vars PROVE [NoUpgrade]_vars
  <2> USE DEF Item, Pending, At, chanVars, streamVars, ifVars
  <2> SUFFICES ASSUME NEW l \in unrested, pc[l] = "accept", ch' # ch, pc'[l] = "idle"
               PROVE  FALSE
    OBVIOUS
  <2>1. ASSUME NEW m \in Listeners, PollStep(m) PROVE Upgrade(m)
    <3>1. ~ConsumeEvent(m)
      BY DEF ConsumeEvent
    <3> QED
      BY <2>1, <3>1 DEF PollStep, poll_next, IfWatchPending, IfWatchOk, IfWatchErr, IfUp, IfDown,
         IfOtherFamily, IfErr, IfIdle, OneOut, OneTaken, PausePending, StreamEnds, ChannelPending
  <2>2. ASSUME NEW m \in Listeners, Upgrade(m) PROVE FALSE
    BY <1>1, <2>2 DEF Upgrade, Accepts, TypeOK, PauseInv
  <2>3. ~ \E m \in Listeners : \/ IfWatcherMade(m) \/ IfWatcherFails(m) \/ IfError(m)
                               \/ PauseElapses(m) \/ DropListener(m)
    BY DEF IfWatcherMade, IfWatcherFails, IfError, PauseElapses, DropListener
  <2>4. ~ (\E ip \in IPs : IfChange(ip)) /\ ~WorkerEnds /\ ~UNCHANGED vars
    BY DEF IfChange, WorkerEnds, vars
  <2>5. ~ \E a \in Addrs : NewAddr(a)
    BY DEF NewAddr
  <2> QED  BY <1>1, <2>1, <2>2, <2>3, <2>4, <2>5 DEF Next, Environment
<1>2. Init => PauseInv
  BY DEF Init, PauseInv
<1> QED  BY <1>1, <1>2, TypeCorrect, NextPauseInv, PTL DEF Spec, ErrorsPause

-----------------------------------------------------------------------------
(***************************************************************************)
(* Why the wakers are left: between the poll of the watcher and the end of *)
(* the poll the watcher already holds the waker, or has used it.           *)
(***************************************************************************)
PollInv ==
  \A l \in Listeners :
    /\ pc[l] = "accept" => in_addr[l] \in {"ready", "taken"}
    /\ pc[l] = "accept" /\ in_addr[l] = "ready" =>
         l \in woken \/ (events[l] = <<>> /\ "if_watch" \in wakers[l])
    /\ Waiting(l) => in_addr[l] # "out"

WakersInv == InterfacesInv /\ PollInv /\ WakersLeft

(* What PollInv and WakersLeft say of one stream.                          *)
Wakeable(l) ==
  /\ pc[l] = "accept" => in_addr[l] \in {"ready", "taken"}
  /\ pc[l] = "accept" /\ in_addr[l] = "ready" =>
       l \in woken \/ (events[l] = <<>> /\ "if_watch" \in wakers[l])
  /\ pc[l] = "idle" /\ l \notin woken =>
       /\ in_addr[l] # "out"
       /\ in_addr[l] = "pending" => watcher[l] = "busy" /\ "if_watch" \in wakers[l]
       /\ in_addr[l] = "ready" => events[l] = <<>> /\ "if_watch" \in wakers[l]
       /\ in_addr[l] # "pending" /\ pause[l] = "running" => "pause" \in wakers[l]

LEMMA WakeableStreams ==
  /\ PollInv /\ WakersLeft <=> \A l \in Listeners : Wakeable(l)
  /\ PollInv' /\ WakersLeft' <=> \A l \in Listeners : Wakeable(l)'
BY DEF PollInv, WakersLeft, Wakeable, Waiting, At

(* A step that leaves a stream alone, but for waking it.                   *)
LEMMA UndisturbedStream ==
  ASSUME NEW l \in Listeners, Wakeable(l), l \in woken => l \in woken',
         in_addr'[l] = in_addr[l], pause'[l] = pause[l], pc'[l] = pc[l],
         watcher'[l] = watcher[l], events'[l] = events[l],
         l \in woken' \/ wakers'[l] = wakers[l]
  PROVE  Wakeable(l)'
BY DEF Wakeable

(* The steps of one stream move no other.                                  *)
LEMMA OneStreamMoves ==
  ASSUME TypeOK, NEW l \in Listeners, PollStep(l) \/ DropListener(l)
  PROVE  \A m \in Listeners \ {l} :
           /\ in_addr'[m] = in_addr[m] /\ pause'[m] = pause[m] /\ pc'[m] = pc[m]
           /\ watcher'[m] = watcher[m] /\ events'[m] = events[m] /\ wakers'[m] = wakers[m]
           /\ m \in woken' <=> m \in woken
<1> USE DEF TypeOK, Item, Pending, chanVars, streamVars, ifVars
<1>1. CASE poll_next(l)
  BY <1>1 DEF poll_next
<1>2. CASE IfWatchPending(l)
  BY <1>2 DEF IfWatchPending
<1>3. CASE IfWatchOk(l)
  BY <1>3 DEF IfWatchOk
<1>4. CASE IfWatchErr(l)
  BY <1>4 DEF IfWatchErr
<1>5. CASE IfUp(l)
  BY <1>5 DEF IfUp, ConsumeEvent
<1>6. CASE IfDown(l)
  BY <1>6 DEF IfDown, ConsumeEvent
<1>7. CASE IfOtherFamily(l)
  BY <1>7 DEF IfOtherFamily, ConsumeEvent
<1>8. CASE IfErr(l)
  BY <1>8 DEF IfErr, ConsumeEvent
<1>9. CASE IfIdle(l)
  BY <1>9 DEF IfIdle
<1>10. CASE OneOut(l)
  BY <1>10 DEF OneOut
<1>11. CASE OneTaken(l)
  BY <1>11 DEF OneTaken
<1>12. CASE PausePending(l)
  BY <1>12 DEF PausePending
<1>13. CASE Upgrade(l)
  BY <1>13 DEF Upgrade, Accepts
<1>14. CASE StreamEnds(l)
  BY <1>14 DEF StreamEnds, Accepts
<1>15. CASE ChannelPending(l)
  BY <1>15 DEF ChannelPending, Accepts
<1>16. CASE DropListener(l)
  BY <1>16 DEF DropListener
<1> QED
  BY <1>1, <1>2, <1>3, <1>4, <1>5, <1>6, <1>7, <1>8, <1>9,
     <1>10, <1>11, <1>12, <1>13, <1>14, <1>15, <1>16 DEF PollStep

(* A poll leaves the wakers of its stream, whatever it finds.              *)
LEMMA PollWakeable ==
  ASSUME TypeOK, NEW l \in Listeners, Wakeable(l), PollStep(l) \/ DropListener(l)
  PROVE  Wakeable(l)'
<1> USE DEF TypeOK, Wakeable, Item, Pending, At, chanVars, streamVars, ifVars
<1>1. CASE poll_next(l)
  BY <1>1 DEF poll_next
<1>2. CASE IfWatchPending(l)
  BY <1>2 DEF IfWatchPending
<1>3. CASE IfWatchOk(l)
  BY <1>3 DEF IfWatchOk
<1>4. CASE IfWatchErr(l)
  BY <1>4 DEF IfWatchErr
<1>5. CASE IfUp(l)
  BY <1>5 DEF IfUp, ConsumeEvent, PollsWatch
<1>6. CASE IfDown(l)
  BY <1>6 DEF IfDown, ConsumeEvent, PollsWatch
<1>7. CASE IfOtherFamily(l)
  BY <1>7 DEF IfOtherFamily, ConsumeEvent, PollsWatch
<1>8. CASE IfErr(l)
  BY <1>8 DEF IfErr, ConsumeEvent, PollsWatch
<1>9. CASE IfIdle(l)
  BY <1>9 DEF IfIdle, PollsWatch
<1>10. CASE OneOut(l)
  BY <1>10 DEF OneOut
<1>11. CASE OneTaken(l)
  BY <1>11 DEF OneTaken
<1>12. CASE PausePending(l)
  BY <1>12 DEF PausePending
<1>13. CASE Upgrade(l)
  BY <1>13 DEF Upgrade, Accepts
<1>14. CASE StreamEnds(l)
  BY <1>14 DEF StreamEnds, Accepts
<1>15. CASE ChannelPending(l)
  BY <1>15 DEF ChannelPending, Accepts
<1>16. CASE DropListener(l)
  BY <1>16 DEF DropListener
<1> QED
  BY <1>1, <1>2, <1>3, <1>4, <1>5, <1>6, <1>7, <1>8, <1>9,
     <1>10, <1>11, <1>12, <1>13, <1>14, <1>15, <1>16 DEF PollStep

(* Waking takes a waker only from those it wakes.                          *)
LEMMA WakeWakes ==
  ASSUME TypeOK, NEW L \in SUBSET Listeners, NEW place, Wake(L, place), NEW l \in Listeners
  PROVE  /\ l \in woken => l \in woken'
         /\ l \in L /\ place \in wakers[l] => l \in woken'
         /\ l \in woken' \/ wakers'[l] = wakers[l]
BY DEF TypeOK, Wake

LEMMA NextWakers == WakersInv /\ [Next]_vars => WakersInv'
<1> SUFFICES ASSUME WakersInv, [Next]_vars, NEW m \in Listeners PROVE Wakeable(m)'
  BY NextInterfaces, WakeableStreams DEF WakersInv
<1>1. TypeOK /\ WatchInv /\ Wakeable(m)
  BY WakeableStreams DEF WakersInv, InterfacesInv
<1>2. ASSUME NEW l \in Listeners, PollStep(l) \/ DropListener(l) PROVE Wakeable(m)'
  <2>1. CASE m = l
    BY <1>1, <1>2, <2>1, PollWakeable
  <2>2. CASE m # l
    BY <1>1, <1>2, <2>2, OneStreamMoves, UndisturbedStream
  <2> QED  BY <2>1, <2>2
<1>3. ASSUME NEW l \in Listeners, IfWatcherMade(l) \/ IfWatcherFails(l) PROVE Wakeable(m)'
  <2>1. /\ watcher[l] = "busy" /\ pc[l] # "dropped" /\ Wake({l}, "if_watch")
        /\ {l} \in SUBSET Listeners
        /\ UNCHANGED <<in_addr, pause, pc>>
        /\ \A k \in Listeners \ {l} : watcher'[k] = watcher[k] /\ events'[k] = events[k]
    BY <1>1, <1>3 DEF IfWatcherMade, IfWatcherFails, Live, streamVars, TypeOK
  <2>2. /\ m \in woken => m \in woken'
        /\ m = l /\ "if_watch" \in wakers[m] => m \in woken'
        /\ m \in woken' \/ wakers'[m] = wakers[m]
    BY <1>1, <2>1, WakeWakes
  <2>3. CASE m = l
    BY <1>1, <2>1, <2>2, <2>3 DEF Wakeable, WatchInv
  <2>4. CASE m # l
    BY <1>1, <2>1, <2>2, <2>4, UndisturbedStream
  <2> QED  BY <2>3, <2>4
<1>4. ASSUME NEW W \in SUBSET Watching, Wake(W, "if_watch"),
             UNCHANGED <<in_addr, pause, pc, watcher>>,
             \A k \in Listeners \ W : events'[k] = events[k]
      PROVE  Wakeable(m)'
  <2>1. W \in SUBSET Listeners
    BY DEF Watching, Live
  <2>2. /\ m \in woken => m \in woken'
        /\ m \in W /\ "if_watch" \in wakers[m] => m \in woken'
        /\ m \in woken' \/ wakers'[m] = wakers[m]
    BY <1>1, <1>4, <2>1, WakeWakes
  <2>3. CASE m \in W
    BY <1>1, <1>4, <2>2, <2>3 DEF Wakeable, WatchInv, Watching
  <2>4. CASE m \notin W
    BY <1>1, <1>4, <2>2, <2>4, UndisturbedStream
  <2> QED  BY <2>3, <2>4
<1>5. ASSUME NEW ip \in IPs, IfChange(ip) PROVE Wakeable(m)'
  <2>1. /\ Watching \in SUBSET Watching /\ Wake(Watching, "if_watch")
        /\ UNCHANGED <<in_addr, pause, pc, watcher>>
        /\ \A k \in Listeners \ Watching : events'[k] = events[k]
    BY <1>5 DEF IfChange, streamVars
  <2> QED  BY <1>4, <2>1
<1>6. ASSUME NEW l \in Listeners, IfError(l) PROVE Wakeable(m)'
  <2>1. /\ {l} \in SUBSET Watching /\ Wake({l}, "if_watch")
        /\ UNCHANGED <<in_addr, pause, pc, watcher>>
        /\ \A k \in Listeners \ {l} : events'[k] = events[k]
    BY <1>1, <1>6 DEF IfError, streamVars, TypeOK
  <2> QED  BY <1>4, <2>1
<1>7. ASSUME NEW l \in Listeners, PauseElapses(l) PROVE Wakeable(m)'
  <2>1. /\ Wake({l}, "pause") /\ {l} \in SUBSET Listeners
        /\ pause' = [pause EXCEPT ![l] = "elapsed"]
        /\ UNCHANGED <<in_addr, pc, watcher, events>>
    BY <1>7 DEF PauseElapses, ifVars
  <2>2. /\ m \in woken => m \in woken'
        /\ m \in woken' \/ wakers'[m] = wakers[m]
    BY <1>1, <2>1, WakeWakes
  <2> QED  BY <1>1, <2>1, <2>2 DEF Wakeable, TypeOK
<1>8. ASSUME WorkerEnds \/ (\E a \in Addrs : NewAddr(a)) \/ UNCHANGED vars
      PROVE  Wakeable(m)'
  <2>1. /\ UNCHANGED <<in_addr, pause, pc, watcher, events, wakers>>
        /\ m \in woken => m \in woken'
    BY <1>8 DEF WorkerEnds, NewAddr, WakeReceiver, vars, streamVars, ifVars
  <2> QED  BY <1>1, <2>1, UndisturbedStream
<1> QED
  BY <1>2, <1>3, <1>5, <1>6, <1>7, <1>8 DEF Next, Environment

LEMMA InitWakers == Init => WakersInv
<1> SUFFICES ASSUME Init PROVE InterfacesInv /\ PollInv /\ WakersLeft
  BY DEF WakersInv
<1>1. InterfacesInv
  BY InitInterfaces
<1>2. \A l \in Listeners : pc[l] = "idle" /\ l \in woken
  BY DEF Init
<1> QED  BY <1>1, <1>2 DEF PollInv, WakersLeft, Waiting

(***************************************************************************)
(* No stream sleeps without its wakers, in whatever order the watcher, the *)
(* timer and the channel become ready during a poll.                       *)
(***************************************************************************)
THEOREM StreamsWakeable == Spec => []WakersLeft
<1>1. WakersInv => WakersLeft
  BY DEF WakersInv
<1> QED  BY <1>1, InitWakers, NextWakers, PTL DEF Spec

-----------------------------------------------------------------------------
(***************************************************************************)
(* Why no address is stranded: when no stream was dropped and all wait for *)
(* the channel it is empty, and the receiver has the waker of one of them. *)
(***************************************************************************)
Stuck == AllHere /\ \A l \in Listeners : AtChannel(l) \/ pc[l] = "ended"

ChannelInv ==
  /\ \A l \in Listeners : pc[l] = "ended" => ~tx_alive /\ ch = <<>>
  /\ Stuck => ch = <<>> /\ (tx_alive => rx_waker \in Listeners)

StrandInv == WakersInv /\ ChannelInv

(* A step that only wakes streams.                                         *)
LEMMA StuckBefore ==
  ASSUME UNCHANGED <<in_addr, pause, pc>>, woken \subseteq woken', Stuck'
  PROVE  Stuck
BY DEF Stuck, AllHere, Live, AtChannel, Waiting, At

(* The steps of a poll: the stream is on its way again, or has found the   *)
(* channel empty.                                                          *)
LEMMA PollChannel ==
  ASSUME TypeOK, ChannelInv, NEW l \in Listeners, PollStep(l)
  PROVE  ChannelInv'
<1> USE DEF Item, Pending, At, chanVars, streamVars, ifVars
<1>1. CASE StreamEnds(l)
  <2>1. ch' = <<>> /\ ~tx_alive'
    BY <1>1 DEF StreamEnds
  <2> QED  BY <2>1 DEF ChannelInv
<1>2. CASE ChannelPending(l)
  <2>1. /\ ch' = <<>> /\ rx_waker' = l /\ ch' = ch /\ tx_alive' = tx_alive
        /\ pc' = [pc EXCEPT ![l] = "idle"]
    BY <1>2 DEF ChannelPending
  <2>2. l \in Live'
    BY <2>1 DEF Live, TypeOK
  <2> QED  BY <2>1, <2>2 DEF ChannelInv, TypeOK
<1>3. CASE Upgrade(l)
  <2>1. /\ ch # <<>> /\ tx_alive' = tx_alive /\ l \in woken'
        /\ pc' = [pc EXCEPT ![l] = "idle"]
    BY <1>3 DEF Upgrade
  <2>2. ~Stuck'
    BY <2>1 DEF Stuck, AllHere, Live, AtChannel, Waiting, TypeOK
  <2> QED  BY <2>1, <2>2 DEF ChannelInv, TypeOK
<1>4. CASE ~(StreamEnds(l) \/ ChannelPending(l) \/ Upgrade(l))
  <2>1. /\ UNCHANGED chanVars
        /\ pc'[l] \in {"idle", "poll", "accept"}
        /\ \A m \in Listeners \ {l} : pc'[m] = pc[m]
        /\ \/ pc'[l] # "idle" \/ l \in woken'
           \/ in_addr'[l] = "pending" \/ pause'[l] = "running"
    <3> USE DEF TypeOK
    <3>1. CASE poll_next(l)
      BY <3>1 DEF poll_next
    <3>2. CASE IfWatchPending(l)
      BY <3>2 DEF IfWatchPending
    <3>3. CASE IfWatchOk(l)
      BY <3>3 DEF IfWatchOk
    <3>4. CASE IfWatchErr(l)
      BY <3>4 DEF IfWatchErr
    <3>5. CASE IfUp(l)
      BY <3>5 DEF IfUp, ConsumeEvent
    <3>6. CASE IfDown(l)
      BY <3>6 DEF IfDown, ConsumeEvent
    <3>7. CASE IfOtherFamily(l)
      BY <3>7 DEF IfOtherFamily, ConsumeEvent, PollsWatch
    <3>8. CASE IfErr(l)
      BY <3>8 DEF IfErr, ConsumeEvent
    <3>9. CASE IfIdle(l)
      BY <3>9 DEF IfIdle
    <3>10. CASE OneOut(l)
      BY <3>10 DEF OneOut
    <3>11. CASE OneTaken(l)
      BY <3>11 DEF OneTaken
    <3>12. CASE PausePending(l)
      BY <3>12 DEF PausePending
    <3> QED
      BY <1>4, <3>1, <3>2, <3>3, <3>4, <3>5, <3>6, <3>7, <3>8, <3>9, <3>10, <3>11, <3>12
      DEF PollStep
  <2>2. ~Stuck'
    BY <2>1 DEF Stuck, AllHere, Live, AtChannel, Waiting
  <2> QED  BY <2>1, <2>2 DEF ChannelInv
<1> QED  BY <1>1, <1>2, <1>3, <1>4

(* The receiver wakes the stream whose waker it holds.                     *)
LEMMA WokenReceiver ==
  ASSUME TypeOK, ChannelInv, tx_alive, WakeReceiver, UNCHANGED streamVars
  PROVE  ~Stuck' /\ \A l \in Listeners : pc'[l] # "ended"
<1>1. \A l \in Listeners : pc'[l] # "ended"
  BY DEF ChannelInv, streamVars
<1>2. ASSUME Stuck' PROVE FALSE
  <2>1. Stuck
    BY <1>2, StuckBefore DEF WakeReceiver, streamVars
  <2>2. rx_waker \in Listeners /\ rx_waker \in woken'
    BY <2>1 DEF ChannelInv, WakeReceiver, Stuck, AllHere
  <2> QED  BY <1>1, <1>2, <2>2 DEF Stuck, AtChannel, Waiting
<1> QED  BY <1>1, <1>2

LEMMA NextStrand == StrandInv /\ [Next]_vars => StrandInv'
<1> SUFFICES ASSUME StrandInv, [Next]_vars PROVE ChannelInv'
  BY NextWakers DEF StrandInv
<1> USE DEF chanVars, streamVars, ifVars
<1>1. TypeOK /\ ChannelInv /\ WakersLeft
  BY DEF StrandInv, WakersInv, InterfacesInv
<1>2. ASSUME NEW l \in Listeners, PollStep(l) PROVE ChannelInv'
  BY <1>1, <1>2, PollChannel
<1>3. ASSUME UNCHANGED <<in_addr, pause, pc, ch, tx_alive, rx_waker>>, woken \subseteq woken'
      PROVE  ChannelInv'
  <2>1. Stuck' => Stuck
    BY <1>3, StuckBefore
  <2>2. Live' = Live
    BY <1>3 DEF Live
  <2> QED  BY <1>1, <1>3, <2>1, <2>2 DEF ChannelInv
<1>4. ASSUME NEW l \in Listeners, IfWatcherMade(l) \/ IfWatcherFails(l) \/ IfError(l)
      PROVE  ChannelInv'
  BY <1>3, <1>4 DEF IfWatcherMade, IfWatcherFails, IfError, Wake
<1>5. ASSUME NEW ip \in IPs, IfChange(ip) PROVE ChannelInv'
  BY <1>3, <1>5 DEF IfChange, Wake
<1>6. ASSUME NEW l \in Listeners, PauseElapses(l) PROVE ChannelInv'
  <2>1. /\ pause[l] = "running" /\ pause' = [pause EXCEPT ![l] = "elapsed"]
        /\ l \in Live /\ Wake({l}, "pause") /\ UNCHANGED <<in_addr, pc, chanVars>>
    BY <1>6 DEF PauseElapses
  <2>2. /\ woken \subseteq woken'
        /\ "pause" \in wakers[l] => l \in woken'
    BY <2>1 DEF Wake
  <2>3. AtChannel(l)' => FALSE
    BY <1>1, <2>1, <2>2 DEF AtChannel, Waiting, At, WakersLeft
  <2>4. \A m \in Listeners \ {l} : AtChannel(m)' => AtChannel(m)
    BY <1>1, <2>1, <2>2 DEF AtChannel, Waiting, At, TypeOK
  <2>5. Stuck' => Stuck
    BY <1>1, <2>1, <2>3, <2>4 DEF Stuck, AllHere, Live, ChannelInv
  <2> QED  BY <1>1, <2>1, <2>5 DEF ChannelInv, Live
<1>7. ASSUME NEW l \in Listeners, DropListener(l) PROVE ChannelInv'
  <2>1. pc' = [pc EXCEPT ![l] = "dropped"] /\ UNCHANGED <<ch, tx_alive>>
    BY <1>7 DEF DropListener
  <2>2. ~AllHere'
    BY <1>1, <2>1 DEF AllHere, Live, TypeOK
  <2> QED  BY <1>1, <2>1, <2>2 DEF ChannelInv, Stuck, TypeOK
<1>8. ASSUME NEW a \in Addrs, NewAddr(a) PROVE ChannelInv'
  BY <1>1, <1>8, WokenReceiver DEF NewAddr, ChannelInv
<1>9. CASE WorkerEnds
  BY <1>1, <1>9, WokenReceiver DEF WorkerEnds, ChannelInv
<1>10. CASE UNCHANGED vars
  BY <1>3, <1>10 DEF vars
<1> QED
  BY <1>2, <1>4, <1>5, <1>6, <1>7, <1>8, <1>9, <1>10 DEF Next, Environment

(***************************************************************************)
(* NoAddressStranded: until a stream is dropped, an address in the channel *)
(* has a stream on its way to it, for any number of streams.  (A dropped   *)
(* stream may take with it the only waker the receiver holds: the run      *)
(* listen_drop shows it.)                                                  *)
(***************************************************************************)
THEOREM AddressesOnTheirWay == Spec => []NoAddressStranded
<1>1. Init => StrandInv
  <2> SUFFICES ASSUME Init PROVE ChannelInv
    BY InitWakers DEF StrandInv
  <2>1. \A l \in Listeners : pc[l] = "idle" /\ l \in woken
    BY DEF Init
  <2>2. ch = <<>> /\ tx_alive
    BY DEF Init
  <2>3. ~Stuck
    BY <2>1 DEF Stuck, AllHere, AtChannel, Waiting
  <2> QED  BY <2>1, <2>2, <2>3 DEF ChannelInv
<1>2. StrandInv => NoAddressStranded
  BY DEF StrandInv, ChannelInv, Stuck, NoAddressStranded
<1>3. StrandInv /\ [Next]_vars => StrandInv'
  BY NextStrand
<1> QED  BY <1>1, <1>2, <1>3, PTL DEF Spec

=============================================================================
