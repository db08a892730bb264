-------------------------- MODULE ConnectionProofs --------------------------
(***************************************************************************)
(* Proofs about Connection, for any number of channels and identifiers.    *)
(***************************************************************************)
EXTENDS Connection, SequenceTheorems, TLAPS

(***************************************************************************)
(* Types.  A channel has its identifier from its creation on, and whatever *)
(* poll_event or poll_outbound will hand out has been created.             *)
(***************************************************************************)
Identified ==
  /\ \A c \in Chans : id[c] \in Ids <=> channel[c] # "none"
  /\ \A i \in 1..Len(incoming) : channel[incoming[i]] # "none"
  /\ \A c \in Outbound : outbound[c] \in {"registering", "waiting", "sent"}
                           => channel[c] # "none"
  /\ \A i \in Ids : map[i] # None => channel[map[i]] # "none"

TypeInv == TypeOK /\ Identified

(* The initial state has its types.                                        *)
LEMMA InitTypeInv == Init => TypeInv
<1> SUFFICES ASSUME Init PROVE TypeInv
  OBVIOUS
<1>1. TypeOK
  <2>1. incoming \in Seq(Inbound)
    BY DEF Init
  <2>2. rx_closed \in BOOLEAN
    BY DEF Init
  <2>3. /\ id \in [Chans -> Ids \cup {None}]
        /\ map \in [Ids -> Chans \cup {None}]
        /\ channel \in [Chans -> {"none", "connecting", "open", "closed"}]
        /\ outbound \in [Outbound -> OutboundPC]
    BY DEF Init, OutboundPC
  <2> QED  BY <2>1, <2>2, <2>3 DEF Init, TypeOK
<1>2. Identified
  BY ConnectionAssumption DEF Init, Identified
<1> QED  BY <1>1, <1>2 DEF TypeInv

(***************************************************************************)
(* How the steps move a channel: it may only leave "none" with a new       *)
(* identifier, and never goes back.                                        *)
(***************************************************************************)
LEMMA CreatedStays ==
  ASSUME TypeInv, [Next]_vars
  PROVE  \A c \in Chans :
           channel[c] # "none" => channel'[c] # "none" /\ id'[c] = id[c]
<1> USE ConnectionAssumption DEF TypeInv, TypeOK, Chans
<1>1. ASSUME NEW c \in Chans, NEW i \in Ids, NewChannel(c, i)
      PROVE  \A d \in Chans :
               channel[d] # "none" => channel'[d] # "none" /\ id'[d] = id[d]
  BY <1>1 DEF NewChannel
<1>2. ASSUME NEW c \in Inbound,
             on_data_channel(c) \/ on_open_inbound(c) \/ detach_fails_inbound(c)
      PROVE  \A d \in Chans :
               channel[d] # "none" => channel'[d] # "none" /\ id'[d] = id[d]
  BY <1>1, <1>2 DEF on_data_channel, on_open_inbound, detach_fails_inbound, Opens
<1>3. ASSUME NEW c \in Outbound,
             \/ open_outbound(c) \/ FutureStep(c) \/ destroy_outbound(c)
             \/ on_open_outbound(c) \/ detach_fails_outbound(c)
      PROVE  \A d \in Chans :
               channel[d] # "none" => channel'[d] # "none" /\ id'[d] = id[d]
  BY <1>1, <1>3 DEF open_outbound, FutureStep, destroy_outbound, on_open_outbound,
     detach_fails_outbound, Opens, lock_connection, create_fails, create_data_channel,
     register_data_channel_open_handler, poll_outbound, poll_outbound_err, chanVars
<1>4. ASSUME NEW c \in Chans,
             RemoteCloses(c) \/ shutdown_substream(c) \/ destroy_substream(c)
      PROVE  \A d \in Chans :
               channel[d] # "none" => channel'[d] # "none" /\ id'[d] = id[d]
  BY <1>4 DEF RemoteCloses, shutdown_substream, destroy_substream, chanVars
<1>5. ASSUME CloseStep
      PROVE  \A d \in Chans :
               channel[d] # "none" => channel'[d] # "none" /\ id'[d] = id[d]
  BY <1>5 DEF CloseStep, flush_all, flush_all_stops, close, close_stops, ShutDown,
     chanVars
<1>6. CASE poll_event \/ UNCHANGED vars
  BY <1>6 DEF poll_event, vars, chanVars
<1> QED  BY <1>2, <1>3, <1>4, <1>5, <1>6 DEF Next

(* Every step keeps the types.                                             *)
LEMMA NextTypeInv == TypeInv /\ [Next]_vars => TypeInv'
<1> SUFFICES ASSUME TypeInv, [Next]_vars PROVE TypeInv'
  OBVIOUS
<1>0. \A c \in Chans :
        channel[c] # "none" => channel'[c] # "none" /\ id'[c] = id[c]
  BY CreatedStays
<1> USE ConnectionAssumption DEF TypeInv, TypeOK, Identified, OutboundPC, Chans, Opens,
        Moves, HandOut, chanVars, rxVars, outVars
<1>1. ASSUME NEW c \in Inbound, on_data_channel(c) PROVE TypeInv'
  BY <1>0, <1>1 DEF on_data_channel, NewChannel
<1>2. ASSUME NEW c \in Inbound, on_open_inbound(c) PROVE TypeInv'
  <2>1. incoming' \in Seq(Inbound)
    BY <1>2 DEF on_open_inbound
  <2>2. \A i \in 1..Len(incoming') : channel'[incoming'[i]] # "none"
    BY <1>0, <1>2 DEF on_open_inbound
  <2> QED  BY <1>0, <1>2, <2>1, <2>2 DEF on_open_inbound
<1>3. ASSUME NEW c \in Inbound, detach_fails_inbound(c) PROVE TypeInv'
  BY <1>0, <1>3 DEF detach_fails_inbound
<1>4. CASE poll_event
  <2>1. Head(incoming) \in Inbound /\ channel[Head(incoming)] # "none"
    BY <1>4 DEF poll_event
  <2>2. incoming' \in Seq(Inbound)
    BY ONLY <1>4, HeadTailProperties, incoming \in Seq(Inbound) DEF poll_event
  <2>3. \A i \in 1..Len(incoming') : channel[incoming'[i]] # "none"
    <3>1. /\ Len(incoming') = Len(incoming) - 1
          /\ \A i \in 1..Len(incoming') : incoming'[i] = incoming[i + 1]
      BY ONLY <1>4, HeadTailProperties, incoming \in Seq(Inbound) DEF poll_event
    <3>2. Len(incoming) \in Nat
      OBVIOUS
    <3> QED  BY <3>1, <3>2
  <2> QED  BY <1>4, <2>1, <2>2, <2>3 DEF poll_event
<1>5. ASSUME NEW c \in Outbound, open_outbound(c) \/ destroy_outbound(c) PROVE TypeInv'
  BY <1>5 DEF open_outbound, destroy_outbound
<1>6. ASSUME NEW c \in Outbound, lock_connection(c) \/ create_fails(c) PROVE TypeInv'
  BY <1>6 DEF lock_connection, create_fails
<1>7. ASSUME NEW c \in Outbound, create_data_channel(c) PROVE TypeInv'
  BY <1>0, <1>7 DEF create_data_channel, NewChannel
<1>8. ASSUME NEW c \in Outbound,
             register_data_channel_open_handler(c) \/ poll_outbound_err(c)
      PROVE TypeInv'
  BY <1>8 DEF register_data_channel_open_handler, poll_outbound_err
<1>9. ASSUME NEW c \in Outbound, poll_outbound(c) PROVE TypeInv'
  BY <1>9 DEF poll_outbound
<1>10. ASSUME NEW c \in Outbound, on_open_outbound(c) PROVE TypeInv'
  BY <1>0, <1>10 DEF on_open_outbound
<1>11. ASSUME NEW c \in Outbound, detach_fails_outbound(c) PROVE TypeInv'
  BY <1>0, <1>11 DEF detach_fails_outbound
<1>12. ASSUME NEW c \in Chans, RemoteCloses(c) \/ shutdown_substream(c) PROVE TypeInv'
  BY <1>0, <1>12 DEF RemoteCloses, shutdown_substream
<1>13. ASSUME NEW c \in Chans, destroy_substream(c) PROVE TypeInv'
  BY <1>13 DEF destroy_substream
<1>14. ASSUME CloseStep PROVE TypeInv'
  <2>1. CASE flush_all \/ \E end \in {"flush", "err"} : flush_all_stops(end)
    BY <2>1 DEF flush_all, flush_all_stops
  <2>2. ASSUME NEW S \in SUBSET Mapped, ShutDown(S), close_pc' \in {"flush", "err", "ok"},
               rx_closed' \in BOOLEAN,
               UNCHANGED <<id, incoming, map, outVars, substreams>>
        PROVE  TypeInv'
    <3>1. channel' \in [Chans -> {"none", "connecting", "open", "closed"}]
      BY <2>2 DEF ShutDown
    <3>2. \A c \in Chans : channel[c] = "none" => channel'[c] = "none"
      BY <2>2 DEF ShutDown, Mapped
    <3>3. Identified'
      BY <1>0, <2>2, <3>2
    <3> QED  BY <2>2, <3>1, <3>3
  <2> QED  BY <1>14, <2>1, <2>2 DEF CloseStep, close, close_stops
<1>15. CASE UNCHANGED vars
  BY <1>15 DEF vars
<1> HIDE DEF TypeInv
<1> QED
  BY <1>1, <1>2, <1>3, <1>4, <1>5, <1>6, <1>7, <1>8, <1>9, <1>10, <1>11, <1>12, <1>13,
     <1>14, <1>15
  DEF Next, FutureStep

(* The types hold in every reachable state.                                *)
THEOREM TypesHold == Spec => []TypeInv
  BY InitTypeInv, NextTypeInv, PTL DEF Spec

(* Type correctness of the connection.                                     *)
THEOREM TypeCorrect == Spec => []TypeOK
<1>1. TypeInv => TypeOK
  BY DEF TypeInv
<1> QED  BY <1>1, TypesHold, PTL

-----------------------------------------------------------------------------
(***************************************************************************)
(* The lock of connection_inner is held by the future that creates its     *)
(* channel and by no other, on the error path and when the future is       *)
(* dropped too.                                                            *)
(***************************************************************************)
THEOREM LockHeldByCreator == Spec => []LockOwner
<1>1. Init => LockOwner
  BY ConnectionAssumption DEF Init, LockOwner, Chans
<1>2. TypeInv /\ LockOwner /\ [Next]_vars => LockOwner'
  <2> SUFFICES ASSUME TypeInv, LockOwner, [Next]_vars PROVE LockOwner'
    OBVIOUS
  <2> USE ConnectionAssumption DEF Moves, outVars, LockOwner
  <2>0. outbound \in [Outbound -> OutboundPC] /\ lock \in Outbound \cup {None}
        /\ None \notin Outbound
    BY DEF TypeInv, TypeOK, Chans
  <2>1. CASE UNCHANGED outVars
    BY <2>1
  <2>2. ASSUME NEW c \in Outbound, open_outbound(c) \/ destroy_outbound(c)
        PROVE LockOwner'
    BY <2>0, <2>2 DEF open_outbound, destroy_outbound
  <2>3. ASSUME NEW c \in Outbound, FutureStep(c) PROVE LockOwner'
    BY <2>0, <2>3 DEF FutureStep, lock_connection, create_fails, create_data_channel,
       register_data_channel_open_handler, poll_outbound, poll_outbound_err
  <2>4. ASSUME NEW c \in Outbound, on_open_outbound(c) \/ detach_fails_outbound(c)
        PROVE LockOwner'
    BY <2>0, <2>4 DEF on_open_outbound, detach_fails_outbound
  <2>5. ASSUME NEW c \in Inbound,
               on_data_channel(c) \/ on_open_inbound(c) \/ detach_fails_inbound(c)
        PROVE UNCHANGED outVars
    BY <2>5 DEF on_data_channel, on_open_inbound, detach_fails_inbound
  <2>6. ASSUME NEW c \in Chans,
               RemoteCloses(c) \/ shutdown_substream(c) \/ destroy_substream(c)
        PROVE UNCHANGED outVars
    BY <2>6 DEF RemoteCloses, shutdown_substream, destroy_substream
  <2>7. CASE poll_event \/ CloseStep \/ UNCHANGED vars
    BY <2>7 DEF poll_event, CloseStep, flush_all, flush_all_stops, close, close_stops,
       vars
  <2> HIDE DEF LockOwner
  <2> QED  BY <2>1, <2>2, <2>3, <2>4, <2>5, <2>6, <2>7 DEF Next
<1> QED  BY <1>1, <1>2, TypesHold, PTL DEF Spec

-----------------------------------------------------------------------------
(***************************************************************************)
(* Closing.  What close walks is map, and what it must shut down is what   *)
(* the swarm holds.  A substream the swarm holds is in map under its own   *)
(* identifier, or there is another channel with that identifier.           *)
(***************************************************************************)
MapInv == \A c \in substreams : id[c] \in Ids /\ (map[id[c]] = c \/ SharesId(c))

(* Handing out a channel keeps the substreams mapped.                      *)
LEMMA HandOutMapped ==
  ASSUME TypeInv, MapInv, NEW c \in Chans, channel[c] # "none", HandOut(c),
         UNCHANGED id
  PROVE  MapInv'
  BY ConnectionAssumption
  DEF TypeInv, TypeOK, Identified, MapInv, SharesId, HandOut

(* Every step keeps MapInv; identifiers do not change.                     *)
LEMMA NextMapInv == TypeInv /\ MapInv /\ [Next]_vars => MapInv'
<1> SUFFICES ASSUME TypeInv, MapInv, [Next]_vars PROVE MapInv'
  OBVIOUS
<1> USE ConnectionAssumption
<1>0. /\ id \in [Chans -> Ids \cup {None}]
      /\ map \in [Ids -> Chans \cup {None}]
      /\ substreams \subseteq Chans
  BY DEF TypeInv, TypeOK
<1>1. CASE UNCHANGED <<id, map, substreams>>
  BY <1>1 DEF MapInv, SharesId
<1>2. ASSUME NEW c \in Chans, NEW i \in Ids, NewChannel(c, i), UNCHANGED <<map, substreams>>
      PROVE  MapInv'
  <2>1. id[c] \notin Ids
    BY <1>2 DEF NewChannel, TypeInv, Identified
  <2>2. c \notin substreams
    BY <2>1 DEF MapInv
  <2>3. \A d \in Chans \ {c} : id'[d] = id[d]
    BY <1>0, <1>2 DEF NewChannel
  <2> QED  BY <1>0, <1>2, <2>1, <2>2, <2>3 DEF MapInv, SharesId
<1>3. ASSUME NEW c \in Inbound,
             on_data_channel(c) \/ on_open_inbound(c) \/ detach_fails_inbound(c)
      PROVE  MapInv'
  BY <1>1, <1>2, <1>3 DEF on_data_channel, on_open_inbound, detach_fails_inbound, Opens,
                          Chans
<1>4. CASE poll_event
  <2>1. Head(incoming) \in Chans /\ channel[Head(incoming)] # "none"
    BY <1>4 DEF poll_event, TypeInv, TypeOK, Identified, Chans
  <2> QED  BY <1>4, <2>1, HandOutMapped DEF poll_event, chanVars
<1>5. ASSUME NEW c \in Outbound, poll_outbound(c) PROVE MapInv'
  <2>1. c \in Chans /\ channel[c] # "none"
    BY <1>5 DEF poll_outbound, Moves, TypeInv, Identified, Chans
  <2> QED  BY <1>5, <2>1, HandOutMapped DEF poll_outbound, chanVars
<1>6. ASSUME NEW c \in Outbound, create_data_channel(c) PROVE MapInv'
  BY <1>2, <1>6 DEF create_data_channel, Chans
<1>7. ASSUME NEW c \in Outbound,
             \/ open_outbound(c) \/ lock_connection(c) \/ create_fails(c)
             \/ register_data_channel_open_handler(c) \/ poll_outbound_err(c)
             \/ destroy_outbound(c) \/ on_open_outbound(c) \/ detach_fails_outbound(c)
      PROVE  MapInv'
  BY <1>1, <1>7 DEF open_outbound, lock_connection, create_fails,
     register_data_channel_open_handler, poll_outbound_err, destroy_outbound,
     on_open_outbound, detach_fails_outbound, Opens, chanVars
<1>8. ASSUME NEW c \in Chans, RemoteCloses(c) \/ shutdown_substream(c) PROVE MapInv'
  BY <1>1, <1>8 DEF RemoteCloses, shutdown_substream
<1>9. ASSUME NEW c \in Chans, destroy_substream(c) PROVE MapInv'
  <2>1. /\ c \in substreams
        /\ substreams' = substreams \ {c}
        /\ map' = [map EXCEPT ![id[c]] = None]
        /\ UNCHANGED id
    BY <1>9 DEF destroy_substream, chanVars
  <2>2. \A d \in substreams' : id[d] = id[c] => SharesId(d)
    BY <1>0, <2>1 DEF SharesId
  <2> QED  BY <1>0, <2>1, <2>2 DEF MapInv, SharesId
<1>10. CASE CloseStep \/ UNCHANGED vars
  BY <1>1, <1>10 DEF CloseStep, flush_all, flush_all_stops, close, close_stops, vars,
                     chanVars
<1> QED
  BY <1>3, <1>4, <1>5, <1>6, <1>7, <1>8, <1>9, <1>10 DEF Next, FutureStep

(***************************************************************************)
(* CloseShutsSubstreams: a close that returns Ok has shut down every       *)
(* substream the swarm holds, whatever was handed out, dropped or opened   *)
(* between its polls, except for one whose identifier another channel has  *)
(* or had.                                                                 *)
(***************************************************************************)
THEOREM CloseShutsAllHeld == Spec => CloseShutsSubstreams
<1> DEFINE Step == close_pc # "ok" /\ close_pc' = "ok" =>
                     \A c \in substreams : channel'[c] = "closed" \/ SharesId(c)
<1>1. Init => MapInv
  BY DEF Init, MapInv
<1>2. TypeInv /\ MapInv /\ [Next]_vars => MapInv'
  BY NextMapInv
<1>3. TypeInv /\ MapInv /\ [Next]_vars => [Step]_vars
  <2> SUFFICES ASSUME TypeInv, MapInv, Next PROVE Step
    BY DEF vars
  <2>1. CASE close
    <3>1. \A c \in substreams : c \in Mapped \/ SharesId(c)
      BY ConnectionAssumption DEF MapInv, Mapped, TypeInv, TypeOK, Chans
    <3>2. substreams \subseteq Chans
      BY DEF TypeInv, TypeOK
    <3> QED  BY <2>1, <3>1, <3>2 DEF close, ShutDown
  <2>2. ASSUME UNCHANGED close_pc \/ close_pc' # "ok" PROVE Step
    BY <2>2
  <2>3. close \/ UNCHANGED close_pc \/ close_pc' # "ok"
    <3>1. ASSUME NEW c \in Inbound,
                 on_data_channel(c) \/ on_open_inbound(c) \/ detach_fails_inbound(c)
          PROVE  UNCHANGED close_pc
      BY <3>1 DEF on_data_channel, on_open_inbound, detach_fails_inbound
    <3>2. ASSUME NEW c \in Outbound,
                 \/ open_outbound(c) \/ FutureStep(c) \/ destroy_outbound(c)
                 \/ on_open_outbound(c) \/ detach_fails_outbound(c)
          PROVE  UNCHANGED close_pc
      BY <3>2 DEF open_outbound, FutureStep, lock_connection, create_fails,
         create_data_channel, register_data_channel_open_handler, poll_outbound,
         poll_outbound_err, destroy_outbound, on_open_outbound, detach_fails_outbound
    <3>3. ASSUME NEW c \in Chans,
                 RemoteCloses(c) \/ shutdown_substream(c) \/ destroy_substream(c)
          PROVE  UNCHANGED close_pc
      BY <3>3 DEF RemoteCloses, shutdown_substream, destroy_substream
    <3>4. ASSUME CloseStep, ~close PROVE close_pc' # "ok"
      BY <3>4 DEF CloseStep, flush_all, flush_all_stops, close_stops
    <3>5. ASSUME poll_event PROVE UNCHANGED close_pc
      BY <3>5 DEF poll_event
    <3> QED  BY <3>1, <3>2, <3>3, <3>4, <3>5 DEF Next
  <2> QED  BY <2>1, <2>2, <2>3
<1> QED
  BY <1>1, <1>2, <1>3, TypesHold, PTL DEF Spec, CloseShutsSubstreams

=============================================================================
