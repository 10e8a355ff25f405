---------------------------- MODULE ClientProofs ----------------------------
(***************************************************************************)
(* No two unfinished packets share an identifier and no two subscriptions  *)
(* share a sub_id, for every configuration, every set of messages and      *)
(* filters, every application and every peer.                              *)
(***************************************************************************)
EXTENDS TableLemmas

-----------------------------------------------------------------------------
(* Each operation keeps the identifiers distinct.                          *)

tableVars == <<outbound, nextPacketId, subscriptions, pending, nextSubId>>

\* A step that leaves the tables alone keeps IdInv.
LEMMA TablesUntouched ==
    ASSUME IdInv, UNCHANGED tableVars
    PROVE  IdInv'
BY DEF tableVars, IdInv, TableTypes, OutstandingIdsDistinct, SubIdsDistinct, Subscribed,
       BusySlots, Busy

\* shutdown() releases slots or keeps them all, and empties the request table.
LEMMA ShutdownKeepsIds ==
    ASSUME IdInv, NEW reason, NEW frames, Shutdown(reason, frames)
    PROVE  IdInv'
<1>1. /\ pending' = <<>>
      /\ outbound' = IF clean THEN NoOutbound ELSE outbound
      /\ subscriptions' = MarkAllForResub
      /\ nextPacketId' = nextPacketId
      /\ nextSubId' = nextSubId
  BY DEF Shutdown, ReleasedOutbound
<1>2. SubscriptionsShrink
  BY <1>1, MarkAllShrinks DEF IdInv, TableTypes
<1>3. NoOutbound \in [OutSlot -> OutboundSlot] /\ \A i \in OutSlot : NoOutbound[i].phase = "Free"
  BY DEF NoOutbound, OutboundSlot, FreeSlot
<1>4. TableTypes'
  BY <1>1, <1>2, <1>3 DEF IdInv, TableTypes, SubscriptionsShrink
<1>5. OutstandingIdsDistinct'
  BY <1>1, <1>3 DEF IdInv, OutstandingIdsDistinct, BusySlots, Busy
<1>6. QED
  BY <1>2, <1>4, <1>5, ShrinkKeepsSubIds DEF IdInv

\* So does a step() that ends with shutdown().
LEMMA EndSessionKeepsIds ==
    ASSUME IdInv, NEW reason, EndSession(reason)
    PROVE  IdInv'
BY ShutdownKeepsIds DEF EndSession

\* connect() leaves the tables alone or resets them.
LEMMA ConnectKeepsIds ==
    ASSUME IdInv, NEW wantClean, NEW size, ApiConnect(wantClean, size)
    PROVE  IdInv'
<1>0. ConnectReset(wantClean) /\ nextSubId' = nextSubId
  BY DEF ApiConnect
<1>1. CASE wantClean
  <2>1. /\ pending' = <<>> /\ outbound' = NoOutbound /\ subscriptions' = MarkAllForResub
        /\ nextPacketId' = 0
    BY <1>0, <1>1 DEF ConnectReset
  <2>2. SubscriptionsShrink
    BY <2>1, MarkAllShrinks DEF IdInv, TableTypes
  <2>3. NoOutbound \in [OutSlot -> OutboundSlot] /\ \A i \in OutSlot : NoOutbound[i].phase = "Free"
    BY DEF NoOutbound, OutboundSlot, FreeSlot
  <2>4. TableTypes'
    BY <1>0, <2>1, <2>2, <2>3, PacketsAssumption DEF IdInv, TableTypes, SubscriptionsShrink
  <2>5. OutstandingIdsDistinct'
    BY <2>1, <2>3 DEF OutstandingIdsDistinct, BusySlots, Busy
  <2>6. QED
    BY <2>2, <2>4, <2>5, ShrinkKeepsSubIds DEF IdInv
<1>2. CASE ~wantClean
  BY <1>0, <1>2, TablesUntouched DEF ConnectReset, tableVars
<1>3. QED
  BY <1>1, <1>2

\* publish() tracks its packet under a free identifier, or tracks nothing.
LEMMA PublishKeepsIds ==
    ASSUME IdInv, NEW qos, NEW msg \in Msg, NEW size \in Size, PublishTracked(qos, msg, size)
    PROVE  IdInv'
<1>1. /\ AdvancePacketId
      /\ UNCHANGED <<subscriptions, pending, nextSubId>>
  BY DEF PublishTracked, requests
<1>2. nextPacketId' \in 0 .. MaxId
  BY <1>1, AdvanceType DEF IdInv
<1>3. SubIdsDistinct'
  BY <1>1 DEF IdInv, SubIdsDistinct, Subscribed
<1>4. outbound' \in [OutSlot -> OutboundSlot] /\ OutstandingIdsDistinct'
  <2>1. CASE UNCHANGED outbound
    BY <1>1, <2>1 DEF IdInv, TableTypes, OutstandingIdsDistinct, BusySlots, Busy
  <2>2. CASE ~UNCHANGED outbound
    <3> DEFINE slot == [phase |-> IF qos = 1 THEN "WaitPuback" ELSE "WaitPubrec",
                        id |-> NewPacketId, msg |-> msg, dup |-> FALSE, size |-> size]
    <3>1. PICK i \in FreeOutboundSlot : NewPacketId # 0 /\ outbound' = [outbound EXCEPT ![i] = slot]
      BY <2>2 DEF PublishTracked
    <3>2. i \in OutSlot
      BY <3>1 DEF FreeOutboundSlot, FirstSlot
    <3>3. NewPacketId \in Id
      BY <3>1, NewPacketIdFree DEF IdInv, FreePacketIds
    <3>4. slot \in OutboundSlot /\ slot.phase # "Free" /\ slot.id = NewPacketId
      BY <3>3 DEF OutboundSlot, Phase
    <3>5. QED
      BY <1>1, <3>1, <3>2, <3>4, TrackPublish
  <2>3. QED
    BY <2>1, <2>2
<1>5. QED
  BY <1>1, <1>2, <1>3, <1>4 DEF IdInv, TableTypes

\* A request that was queued is tracked under a free identifier, and one that
\* was not leaves the tables alone but for the counter.
LEMMA RequestKeepsIds ==
    ASSUME IdInv, NEW packet, NEW ack,
           NewPacketId # 0 => ack \in PendingAck /\ ack.id = NewPacketId,
           Request(packet, ack), outbound' = outbound
    PROVE  /\ nextPacketId' \in 0 .. MaxId
           /\ pending' \in Seq(PendingAck)
           /\ OutstandingIdsDistinct'
<1>1. nextPacketId' \in 0 .. MaxId
  BY AdvanceType DEF Request, IdInv
<1>2. CASE NewPacketId # 0 /\ Fits(packet)
  <2>1. pending' = Append(pending, ack)
    BY <1>2 DEF Request
  <2>2. QED
    BY <1>1, <1>2, <2>1, TrackRequest
<1>3. CASE ~(NewPacketId # 0 /\ Fits(packet))
  <2>1. pending' = pending
    BY <1>3 DEF Request
  <2>2. QED
    BY <1>1, <2>1 DEF IdInv, TableTypes, OutstandingIdsDistinct, BusySlots, Busy
<1>4. QED
  BY <1>2, <1>3

\* alloc_packet_id() returns 0 or an identifier in range.
LEMMA NewIdType ==
    ASSUME TableTypes, NewPacketId # 0
    PROVE  NewPacketId \in Id
BY NewPacketIdFree DEF FreePacketIds

\* unsubscribe() adds a request and leaves the entries alone.
LEMMA UnsubscribeKeepsIds ==
    ASSUME IdInv, NEW filters \in UpTo(Filter, MaxTopics), ApiUnsubscribe(filters)
    PROVE  IdInv'
<1> DEFINE subs == [k \in DOMAIN filters |-> subscriptions[filters[k]].sub]
           ack  == [id |-> NewPacketId, expected |-> "Unsuback", subs |-> subs]
<1>1. /\ Request(Unsubscribe(NewPacketId, filters), ack)
      /\ outbound' = outbound /\ subscriptions' = subscriptions /\ nextSubId' = nextSubId
  BY DEF ApiUnsubscribe, delivery
<1>2. /\ Len(filters) \in 0 .. MaxTopics
      /\ DOMAIN filters = 1 .. Len(filters)
      /\ filters \in [1 .. Len(filters) -> Filter]
  BY UpToMember, PacketsAssumption
<1>3. \A f \in Filter : subscriptions[f].sub \in 0 .. MaxId
  <2> TAKE f \in Filter
  <2>1. subscriptions[f] \in Subscription
    BY DEF IdInv, TableTypes
  <2>2. QED
    BY <2>1, EntryFields, NoEntryType, PacketsAssumption DEF Id
<1>4. subs \in [1 .. Len(filters) -> 0 .. MaxId]
  BY <1>2, <1>3
<1>5. subs \in UpTo(0 .. MaxId, MaxTopics)
  BY <1>2, <1>4, MemberUpTo, PacketsAssumption
<1>6. NewPacketId # 0 => ack \in PendingAck /\ ack.id = NewPacketId
  BY <1>5, NewIdType DEF PendingAck, IdInv
<1> HIDE DEF ack
<1>7. /\ nextPacketId' \in 0 .. MaxId /\ pending' \in Seq(PendingAck) /\ OutstandingIdsDistinct'
  BY <1>1, <1>6, RequestKeepsIds
<1>8. SubIdsDistinct'
  BY <1>1 DEF IdInv, SubIdsDistinct, Subscribed
<1>9. QED
  BY <1>1, <1>7, <1>8 DEF IdInv, TableTypes

\* A filter may be named more than once in a request; one mention is the last.
LEMMA LastMention ==
    ASSUME NEW topics \in UpTo([filter : Filter, qos : SubscribeQos], MaxTopics),
           NEW filters, DOMAIN filters = DOMAIN topics,
           NEW f \in {filters[k] : k \in DOMAIN filters}
    PROVE  \E k \in DOMAIN topics :
             filters[k] = f /\ \A j \in DOMAIN topics : filters[j] = f => j <= k
<1> DEFINE D == {MaxTopics - k : k \in {j \in DOMAIN topics : filters[j] = f}}
<1>1. /\ Len(topics) \in 0 .. MaxTopics
      /\ DOMAIN topics = 1 .. Len(topics)
      /\ topics \in [1 .. Len(topics) -> [filter : Filter, qos : SubscribeQos]]
  BY UpToMember, PacketsAssumption
<1>2. D \in SUBSET Nat /\ D # {}
  <2>1. \A k \in DOMAIN topics : MaxTopics - k \in Nat
    BY <1>1, PacketsAssumption
  <2>2. \E k \in DOMAIN topics : filters[k] = f
    BY <1>1
  <2>3. QED
    BY <2>1, <2>2
<1>3. PICK d \in D : \A e \in D : d <= e
  <2> HIDE DEF D
  <2> QED
    BY <1>2, LeastNat
<1>4. PICK k \in DOMAIN topics : filters[k] = f /\ d = MaxTopics - k
  BY <1>3
<1>5. ASSUME NEW j \in DOMAIN topics, filters[j] = f PROVE j <= k
  <2>1. MaxTopics - j \in D
    BY <1>5
  <2>2. MaxTopics - k <= MaxTopics - j
    BY <1>3, <1>4, <2>1
  <2>3. j \in Nat /\ k \in Nat /\ MaxTopics \in Nat
    BY <1>1, PacketsAssumption
  <2>4. QED
    BY <2>2, <2>3
<1>6. QED
  BY <1>4, <1>5

\* subscribe() adds a request and gives each new entry a sub_id of its own.
LEMMA SubscribeKeepsIds ==
    ASSUME IdInv, NEW topics \in UpTo([filter : Filter, qos : SubscribeQos], MaxTopics),
           NEW handler \in OwnHandler, ApiSubscribe(topics, handler)
    PROVE  IdInv'
<1> DEFINE filters == [k \in DOMAIN topics |-> topics[k].filter]
           asked   == {filters[k] : k \in DOMAIN filters}
           new     == asked \ Subscribed
           qos(f)  == topics[CHOOSE k \in DOMAIN topics :
                            filters[k] = f /\ \A j \in DOMAIN topics : filters[j] = f => j <= k].qos
           packet  == Subscribe(NewPacketId, topics)
           sub(ids, f) == IF f \in Subscribed THEN subscriptions[f].sub ELSE ids[f]
           subs(ids) == [k \in DOMAIN filters |-> sub(ids, filters[k])]
           ack(ids) == [id |-> NewPacketId, expected |-> "Suback", subs |-> subs(ids)]
           entry(ids, f) == [sub |-> sub(ids, f), qos |-> qos(f), handler |-> handler, resub |-> FALSE]
<1>1. PICK ids \in NewSubIds(filters) :
        /\ Request(packet, ack(ids))
        /\ IF NewPacketId # 0 /\ Fits(packet)
           THEN /\ subscriptions' = [f \in Filter |->
                     IF f \in asked THEN entry(ids, f) ELSE subscriptions[f]]
                /\ AdvanceSubId(ids)
           ELSE UNCHANGED <<subscriptions, nextSubId>>
  BY DEF ApiSubscribe
<1>2. \A f \in asked : qos(f) \in QoS
  <2> SUFFICES ASSUME NEW f \in asked PROVE qos(f) \in QoS
    OBVIOUS
  <2> DEFINE last(k) == filters[k] = f /\ \A j \in DOMAIN topics : filters[j] = f => j <= k
  <2>1. \A k \in DOMAIN topics : topics[k].qos \in QoS
    <3>1. DOMAIN topics = 1 .. Len(topics) /\ topics \in [1 .. Len(topics) -> [filter : Filter, qos : SubscribeQos]]
      BY UpToMember, PacketsAssumption
    <3>2. QED
      BY <3>1, PeerAssumption
  <2>2. DOMAIN filters = DOMAIN topics
    OBVIOUS
  <2> HIDE DEF filters
  <2>3. \E k \in DOMAIN topics : last(k)
    BY <2>2, LastMention
  <2>4. (CHOOSE k \in DOMAIN topics : last(k)) \in DOMAIN topics
    BY <2>3
  <2>5. QED
    BY <2>1, <2>4
<1> HIDE DEF packet, qos, sub, subs, ack, entry
<1>3. /\ outbound' = outbound
      /\ subscriptions \in [Filter -> Subscription] /\ SubIdsDistinct
      /\ nextSubId \in 0 .. MaxId
  BY DEF ApiSubscribe, delivery, IdInv, TableTypes
<1>4. /\ Len(topics) \in 0 .. MaxTopics /\ Len(topics) \in Nat
      /\ filters \in [1 .. Len(topics) -> Filter] /\ DOMAIN filters = 1 .. Len(topics)
  <2>1. /\ Len(topics) \in 0 .. MaxTopics
        /\ DOMAIN topics = 1 .. Len(topics)
        /\ topics \in [1 .. Len(topics) -> [filter : Filter, qos : SubscribeQos]]
    BY UpToMember, PacketsAssumption
  <2>2. QED
    BY <2>1, PacketsAssumption
<1>5. ids \in [new -> FreeSubIds]
  BY <1>1 DEF NewSubIds
<1> HIDE DEF filters
<1>6. \A f, g \in DOMAIN ids : ids[f] = ids[g] => f = g
  BY <1>1, <1>3, <1>4, NewSubIdsDistinct
<1>7. asked \in SUBSET Filter /\ \A k \in DOMAIN filters : filters[k] \in asked
  BY <1>4
<1> HIDE DEF asked
<1>8. new = asked \ Subscribed
  OBVIOUS
<1> HIDE DEF new
<1>9. FreeSubIds \in SUBSET Id /\ Id \in SUBSET (0 .. MaxId) /\ 0 \notin Id
  BY PacketsAssumption DEF FreeSubIds, Id
<1>10. \A f \in asked : sub(ids, f) \in Id
  <2>1. ASSUME NEW f \in asked, f \in Subscribed PROVE sub(ids, f) \in Id
    BY <1>3, <1>7, <2>1, EntryFields DEF sub, Subscribed
  <2>2. ASSUME NEW f \in asked, f \notin Subscribed PROVE sub(ids, f) \in Id
    BY <1>5, <1>8, <1>9, <2>2 DEF sub
  <2>3. QED
    BY <2>1, <2>2
<1>11. NewPacketId # 0 => ack(ids) \in PendingAck /\ ack(ids).id = NewPacketId
  <2>1. subs(ids) \in [1 .. Len(topics) -> 0 .. MaxId]
    BY <1>4, <1>7, <1>9, <1>10 DEF subs
  <2>2. subs(ids) \in UpTo(0 .. MaxId, MaxTopics)
    BY <1>4, <2>1, MemberUpTo, PacketsAssumption
  <2>3. QED
    BY <2>2, NewIdType DEF ack, PendingAck, IdInv
<1>12. /\ nextPacketId' \in 0 .. MaxId /\ pending' \in Seq(PendingAck) /\ OutstandingIdsDistinct'
  BY <1>1, <1>3, <1>11, RequestKeepsIds
<1>13. CASE ~(NewPacketId # 0 /\ Fits(packet))
  <2>1. subscriptions' = subscriptions /\ nextSubId' = nextSubId
    BY <1>1, <1>13
  <2>2. QED
    BY <1>3, <1>12, <2>1 DEF IdInv, TableTypes, SubIdsDistinct, Subscribed
<1>14. CASE NewPacketId # 0 /\ Fits(packet)
  <2> DEFINE added == [f \in asked |-> entry(ids, f)]
  <2>1. AdvanceSubId(ids) /\ ids \in [new -> Id]
    BY <1>1, <1>5, <1>9, <1>14
  <2>2. nextSubId' \in 0 .. MaxId
    BY <1>3, <2>1, AdvanceSubIdType
  <2>3. \A f \in asked : entry(ids, f) \in [sub : Id, qos : QoS, handler : BOOLEAN, resub : BOOLEAN]
    BY <1>2, <1>10, PeerAssumption DEF entry
  <2>4. added \in [asked -> Subscription]
    BY <2>3 DEF Subscription
  <2>5. \A f \in asked : added[f].sub = sub(ids, f)
    BY DEF entry
  <2>6. subscriptions' = [f \in Filter |-> IF f \in asked THEN added[f] ELSE subscriptions[f]]
    BY <1>1, <1>14
  <2> HIDE DEF added
  <2>7. \A f \in asked : added[f] # NoEntry
    BY <1>9, <1>10, <2>5, NoEntryType
  <2>8. \A f \in asked : /\ added[f] # NoEntry
                         /\ added[f].sub = IF f \in Subscribed THEN subscriptions[f].sub ELSE ids[f]
    BY <2>5, <2>7 DEF sub
  <2>9. \A f, g \in new : ids[f] = ids[g] => f = g
    BY <1>5, <1>6
  <2>10. subscriptions' \in [Filter -> Subscription]
    BY <1>3, <2>4, <2>6
  <2>11. SubIdsDistinct'
    <3>1. \A f \in Subscribed' : f \in Subscribed \/ f \in new
      BY <1>8, <2>6 DEF Subscribed
    <3>2. \A f \in Subscribed : subscriptions'[f].sub = subscriptions[f].sub
      BY <2>6, <2>8 DEF Subscribed
    <3>3. \A f \in new : subscriptions'[f].sub = ids[f]
      BY <1>7, <1>8, <2>6, <2>8
    <3>4. \A f \in new, g \in Subscribed : ids[f] # subscriptions[g].sub
      BY <1>5 DEF FreeSubIds
    <3>5. QED
      BY <1>3, <2>9, <3>1, <3>2, <3>3, <3>4 DEF SubIdsDistinct
  <2>12. QED
    BY <1>3, <1>12, <2>2, <2>10, <2>11 DEF IdInv, TableTypes
<1>15. QED
  BY <1>13, <1>14


\* pump_resubscribe() tracks its SUBSCRIBE like any other and clears flags.
LEMMA ResubscribeKeepsIds ==
    ASSUME IdInv, Resubscribe
    PROVE  IdInv'
<1>1. /\ AdvancePacketId
      /\ outbound' = outbound /\ nextSubId' = nextSubId
  BY DEF Resubscribe, delivery
<1>2. PICK batch \in Batch :
        IF NewPacketId # 0 /\ Fits(Resubscription(batch))
        THEN /\ pending' = Append(pending, Resubscribing(batch))
             /\ subscriptions' = Unflagged(batch)
        ELSE pending' = pending /\ subscriptions' = subscriptions
  BY DEF Resubscribe
<1>3. nextPacketId' \in 0 .. MaxId
  BY <1>1, AdvanceType DEF IdInv
<1>4. CASE ~(NewPacketId # 0 /\ Fits(Resubscription(batch)))
  <2>1. pending' = pending /\ subscriptions' = subscriptions
    BY <1>2, <1>4
  <2>2. QED
    BY <1>1, <1>3, <2>1 DEF IdInv, TableTypes, OutstandingIdsDistinct, SubIdsDistinct,
                            Subscribed, BusySlots, Busy
<1>5. CASE NewPacketId # 0 /\ Fits(Resubscription(batch))
  <2>1. pending' = Append(pending, Resubscribing(batch)) /\ subscriptions' = Unflagged(batch)
    BY <1>2, <1>5
  <2>2. NeedsResub \in SUBSET Subscribed /\ Subscribed \in SUBSET Filter
    BY DEF NeedsResub, Subscribed
  <2>3. Cardinality(NeedsResub) \in Nat
    BY <2>2, PacketsAssumption, FS_Subset, FS_CardinalityType
  <2>4. PICK n \in 0 .. MaxTopics : batch \in [1 .. n -> NeedsResub]
    BY <2>3, PacketsAssumption DEF Batch
  <2>5. \A k \in DOMAIN batch : batch[k] \in Subscribed
    BY <2>2, <2>4
  <2>6. SubscriptionsShrink
    BY <2>1, <2>5, UnflaggedShrinks DEF IdInv, TableTypes
  <2> DEFINE subs == [k \in DOMAIN batch |-> subscriptions[batch[k]].sub]
  <2>7. \A f \in Subscribed : subscriptions[f].sub \in 0 .. MaxId
    BY EntryFields, PacketsAssumption DEF IdInv, TableTypes, Subscribed, Id
  <2>8. subs \in [1 .. n -> 0 .. MaxId]
    BY <2>4, <2>5, <2>7
  <2>9. subs \in UpTo(0 .. MaxId, MaxTopics)
    BY <2>8, MemberUpTo, PacketsAssumption
  <2>10. Resubscribing(batch) \in PendingAck /\ Resubscribing(batch).id = NewPacketId
    BY <1>5, <2>9, NewIdType DEF Resubscribing, PendingAck, IdInv
  <2>11. pending' \in Seq(PendingAck) /\ OutstandingIdsDistinct'
    BY <1>1, <1>5, <2>1, <2>10, TrackRequest
  <2>12. QED
    BY <1>1, <1>3, <2>6, <2>11, ShrinkKeepsSubIds DEF IdInv, TableTypes, SubscriptionsShrink
<1>6. QED
  BY <1>4, <1>5

\* Slots that are released, or change in anything but their identifier.
LEMMA SlotsKeepIds ==
    ASSUME IdInv, outbound' \in [OutSlot -> OutboundSlot],
           \A i \in OutSlot : outbound'[i].phase # "Free" =>
              outbound[i].phase # "Free" /\ outbound'[i].id = outbound[i].id,
           UNCHANGED <<nextPacketId, requests>>
    PROVE  IdInv'
<1>1. UNCHANGED <<nextPacketId, subscriptions, pending, nextSubId>>
  BY DEF requests
<1>2. OutstandingIdsDistinct'
  BY <1>1, SlotsShrink DEF IdInv
<1>3. QED
  BY <1>1, <1>2 DEF IdInv, TableTypes, SubIdsDistinct, Subscribed

\* pump_retransmit() marks a slot and keeps its identifier.
LEMMA RetransmitKeepsIds ==
    ASSUME IdInv, RetransmitSlot
    PROVE  IdInv'
<1> DEFINE marked == MarkDup(outbound[cursor])
<1>1. /\ cursor \in OutSlot /\ outbound[cursor].phase # "Free"
      /\ outbound' = [outbound EXCEPT ![cursor] = marked]
      /\ UNCHANGED <<nextPacketId, requests>>
  BY DEF RetransmitSlot, Busy
<1>2. outbound[cursor] \in
        [phase : Phase \ {"Free"}, id : Id, msg : Msg, dup : BOOLEAN, size : Size]
  BY <1>1, SlotFields DEF IdInv, TableTypes
<1>3. /\ marked \in [phase : Phase \ {"Free"}, id : Id, msg : Msg, dup : BOOLEAN, size : Size]
      /\ marked.id = outbound[cursor].id
  BY <1>2 DEF MarkDup
<1>4. marked \in OutboundSlot
  BY <1>3 DEF OutboundSlot
<1> HIDE DEF marked
<1>5. \A i \in OutSlot : outbound'[i] = IF i = cursor THEN marked ELSE outbound[i]
  BY <1>1 DEF IdInv, TableTypes
<1>6. outbound' \in [OutSlot -> OutboundSlot]
  BY <1>1, <1>4 DEF IdInv, TableTypes
<1>7. QED
  BY <1>1, <1>3, <1>5, <1>6, SlotsKeepIds

\* handle_puback() and handle_pubcomp() release a slot.
LEMMA DeliveredKeepsIds ==
    ASSUME IdInv, NEW type, NEW phase, Delivered(type, phase)
    PROVE  IdInv'
<1>1. UNCHANGED <<nextPacketId, requests>>
  BY DEF Delivered
<1>2. CASE outbound' = outbound
  BY <1>1, <1>2, SlotsKeepIds DEF IdInv, TableTypes
<1>3. CASE outbound' # outbound
  <2>1. PICK i \in FindOutbound(Packet.id) : outbound' = [outbound EXCEPT ![i] = FreeSlot]
    BY <1>3 DEF Delivered
  <2>2. FreeSlot \in OutboundSlot /\ FreeSlot.phase = "Free"
    BY DEF FreeSlot, OutboundSlot
  <2>3. \A j \in OutSlot : outbound'[j] = IF j = i THEN FreeSlot ELSE outbound[j]
    BY <2>1 DEF IdInv, TableTypes
  <2>4. outbound' \in [OutSlot -> OutboundSlot]
    BY <2>1, <2>2 DEF IdInv, TableTypes
  <2>5. QED
    BY <1>1, <2>2, <2>3, <2>4, SlotsKeepIds
<1>4. QED
  BY <1>2, <1>3

\* handle_pubrec() changes the phase of a slot and keeps its identifier.
LEMMA PubrecKeepsIds ==
    ASSUME IdInv, HandlePubrec
    PROVE  IdInv'
<1>1. UNCHANGED <<nextPacketId, requests>>
  BY DEF HandlePubrec
<1>2. CASE outbound' = outbound
  BY <1>1, <1>2, SlotsKeepIds DEF IdInv, TableTypes
<1>3. CASE outbound' # outbound
  <2>1. PICK i \in FindOutbound(Packet.id) :
          outbound' = [outbound EXCEPT ![i].phase = "WaitPubcomp"]
    BY <1>3 DEF HandlePubrec
  <2> DEFINE next == [outbound[i] EXCEPT !.phase = "WaitPubcomp"]
  <2>2. i \in OutSlot /\ outbound[i].phase # "Free"
    BY <2>1 DEF FindOutbound, FirstSlot, Busy
  <2>3. outbound[i] \in
          [phase : Phase \ {"Free"}, id : Id, msg : Msg, dup : BOOLEAN, size : Size]
    BY <2>2, SlotFields DEF IdInv, TableTypes
  <2>4. /\ next \in [phase : Phase \ {"Free"}, id : Id, msg : Msg, dup : BOOLEAN, size : Size]
        /\ next.id = outbound[i].id
    BY <2>3 DEF Phase
  <2>5. next \in OutboundSlot
    BY <2>4 DEF OutboundSlot
  <2>6. outbound' = [outbound EXCEPT ![i] = next]
    BY <2>1
  <2> HIDE DEF next
  <2>7. \A j \in OutSlot : outbound'[j] = IF j = i THEN next ELSE outbound[j]
    BY <2>6 DEF IdInv, TableTypes
  <2>8. outbound' \in [OutSlot -> OutboundSlot]
    BY <2>5, <2>6 DEF IdInv, TableTypes
  <2>9. QED
    BY <1>1, <2>2, <2>4, <2>7, <2>8, SlotsKeepIds
<1>4. QED
  BY <1>2, <1>3

\* Entries go or keep their sub_id, and the request table is done with one.
LEMMA RequestAcknowledged ==
    ASSUME IdInv, NEW id, NEW expected, NEW k \in FindPending(id, expected),
           pending' = RemovePending(k), SubscriptionsShrink,
           UNCHANGED <<outbound, nextPacketId, nextSubId>>
    PROVE  IdInv'
<1>1. k \in DOMAIN pending
  BY DEF FindPending, FirstSlot
<1>2. pending' \in Seq(PendingAck) /\ OutstandingIdsDistinct'
  BY <1>1, RequestDone
<1>3. QED
  BY <1>2, ShrinkKeepsSubIds DEF IdInv, TableTypes, SubscriptionsShrink

\* handle_suback() removes the refused entries and confirms the others.
LEMMA SubackKeepsIds ==
    ASSUME IdInv, HandleSuback
    PROVE  IdInv'
<1> DEFINE code(k, f) ==
      {Packet.codes[j] : j \in {j \in DOMAIN pending[k].subs : pending[k].subs[j] = subscriptions[f].sub}}
<1>1. PICK k \in FindPending(Packet.id, "Suback") :
        /\ subscriptions' = [f \in Filter |->
             CASE kSubackFailure \in code(k, f) -> NoEntry
               [] f \in Subscribed /\ code(k, f) # {} /\ kSubackFailure \notin code(k, f) ->
                    [subscriptions[f] EXCEPT !.resub = FALSE]
               [] OTHER -> subscriptions[f]]
        /\ pending' = RemovePending(k)
  BY DEF HandleSuback
<1>2. UNCHANGED <<outbound, nextPacketId, nextSubId>>
  BY DEF HandleSuback, delivery
<1> HIDE DEF code
<1>3. ASSUME NEW f \in Filter
      PROVE  /\ subscriptions'[f] \in Subscription
             /\ subscriptions'[f] # NoEntry =>
                  subscriptions[f] # NoEntry /\ subscriptions'[f].sub = subscriptions[f].sub
  <2>0. subscriptions[f] \in Subscription
    BY DEF IdInv, TableTypes
  <2>1. CASE kSubackFailure \in code(k, f)
    BY <1>1, <2>1, NoEntryType
  <2>2. CASE f \in Subscribed /\ code(k, f) # {} /\ kSubackFailure \notin code(k, f)
    <3>1. subscriptions'[f] = [subscriptions[f] EXCEPT !.resub = FALSE] /\ subscriptions[f] # NoEntry
      BY <1>1, <2>2 DEF Subscribed
    <3>2. QED
      BY <2>0, <3>1, Flagged
  <2>3. CASE ~(kSubackFailure \in code(k, f)) /\ ~(f \in Subscribed /\ code(k, f) # {} /\ kSubackFailure \notin code(k, f))
    <3>1. subscriptions'[f] = subscriptions[f]
      BY <1>1, <2>3
    <3>2. QED
      BY <2>0, <3>1
  <2>4. QED
    BY <2>1, <2>2, <2>3
<1>4. subscriptions' = [f \in Filter |-> subscriptions'[f]]
  BY <1>1
<1>5. SubscriptionsShrink
  BY <1>3, <1>4 DEF SubscriptionsShrink
<1>6. QED
  BY <1>1, <1>2, <1>5, RequestAcknowledged

\* handle_unsuback() removes the entries the request named.
LEMMA UnsubackKeepsIds ==
    ASSUME IdInv, HandleUnsuback
    PROVE  IdInv'
<1>1. UNCHANGED <<outbound, nextPacketId, nextSubId>>
  BY DEF HandleUnsuback, delivery
<1>2. CASE subscriptions' = subscriptions /\ pending' = pending
  BY <1>1, <1>2, TablesUntouched DEF tableVars
<1>3. CASE ~(subscriptions' = subscriptions /\ pending' = pending)
  <2>1. PICK k \in FindPending(Packet.id, "Unsuback") :
          /\ subscriptions' = [f \in Filter |->
               IF \E j \in DOMAIN pending[k].subs : pending[k].subs[j] = subscriptions[f].sub
               THEN NoEntry ELSE subscriptions[f]]
          /\ pending' = RemovePending(k)
    BY <1>3 DEF HandleUnsuback
  <2>2. SubscriptionsShrink
    BY <2>1, NoEntryType DEF SubscriptionsShrink, IdInv, TableTypes
  <2>3. QED
    BY <1>1, <2>1, <2>2, RequestAcknowledged
<1>4. QED
  BY <1>2, <1>3

\* handle_connack() at most sets flags.
LEMMA ConnackKeepsIds ==
    ASSUME IdInv, HandleConnack
    PROVE  IdInv'
<1>1. /\ UNCHANGED <<outbound, nextPacketId, pending, nextSubId>>
      /\ subscriptions' = IF Packet.present THEN subscriptions ELSE MarkAllForResub
  BY DEF HandleConnack, delivery
<1>2. CASE Packet.present
  BY <1>1, <1>2, TablesUntouched DEF tableVars
<1>3. CASE ~Packet.present
  <2>1. SubscriptionsShrink
    BY <1>1, <1>3, MarkAllShrinks DEF IdInv, TableTypes
  <2>2. OutstandingIdsDistinct'
    BY <1>1 DEF IdInv, OutstandingIdsDistinct, BusySlots, Busy
  <2>3. QED
    BY <1>1, <2>1, <2>2, ShrinkKeepsSubIds DEF IdInv, TableTypes, SubscriptionsShrink
<1>4. QED
  BY <1>2, <1>3

-----------------------------------------------------------------------------
(* Every action keeps IdInv.                                               *)

\* A new client has empty tables.
LEMMA IdInvInit ==
    ASSUME Init
    PROVE  IdInv
<1>1. TableTypes
  BY PacketsAssumption, NoEntryType DEF Init, TableTypes, OutboundSlot
<1>2. BusySlots = {} /\ DOMAIN pending = {} /\ Subscribed = {}
  BY DEF Init, BusySlots, Busy, FreeSlot, Subscribed
<1>3. QED
  BY <1>1, <1>2 DEF IdInv, OutstandingIdsDistinct, SubIdsDistinct

\* The calls of the application but publish().
LEMMA AppCallKeepsIds ==
    ASSUME IdInv, AppCall
    PROVE  IdInv'
<1>1. CASE AppConnect
  BY <1>1, ConnectKeepsIds DEF AppConnect
<1>2. CASE ApiDisconnect
  BY <1>2, TablesUntouched DEF ApiDisconnect, tableVars, delivery, requests
<1>3. CASE ApiDisconnectHard
  BY <1>3, ShutdownKeepsIds DEF ApiDisconnectHard
<1>4. CASE ApiAbort
  BY <1>4, ShutdownKeepsIds DEF ApiAbort
<1>5. CASE AppSubscribe
  BY <1>5, SubscribeKeepsIds DEF AppSubscribe
<1>6. CASE AppUnsubscribe
  BY <1>6, UnsubscribeKeepsIds DEF AppUnsubscribe
<1>7. CASE Step
  BY <1>7, TablesUntouched DEF Step, tableVars, delivery, requests
<1>8. QED
  BY <1>1, <1>2, <1>3, <1>4, <1>5, <1>6, <1>7 DEF AppCall

\* publish() at every QoS.
LEMMA AppPublishKeepsIds ==
    ASSUME IdInv, NEW msg \in Msg, NEW qos \in PublishQos, NEW size \in PublishSize,
           AppPublish(msg, qos, size)
    PROVE  IdInv'
<1>1. CASE qos = 0
  BY <1>1, TablesUntouched DEF AppPublish, PublishQos0, tableVars, delivery, requests
<1>2. CASE qos # 0
  <2>1. PublishTracked(qos, msg, size) /\ size \in Size
    BY <1>2, ApiAssumption DEF AppPublish
  <2>2. QED
    BY <2>1, PublishKeepsIds
<1>3. QED
  BY <1>1, <1>2

\* The steps of step_once() but the packet handlers.
LEMMA PumpKeepsIds ==
    ASSUME IdInv, Pump
    PROVE  IdInv'
<1>1. CASE ConnectPending
  BY <1>1, TablesUntouched DEF ConnectPending, tables, tableVars, delivery, requests
<1>2. CASE ConnectExpired
  BY <1>2, EndSessionKeepsIds DEF ConnectExpired
<1>3. CASE ConnectFailed
  BY <1>3, EndSessionKeepsIds DEF ConnectFailed
<1>4. CASE SendPart
  BY <1>4, TablesUntouched DEF SendPart, tables, tableVars, delivery, requests
<1>5. CASE SendFailed
  BY <1>5, EndSessionKeepsIds DEF SendFailed
<1>6. CASE Flushed
  BY <1>6, TablesUntouched DEF Flushed, tables, tableVars, delivery, requests
<1>7. CASE DisconnectSent
  BY <1>7, EndSessionKeepsIds DEF DisconnectSent
<1>8. CASE Reflushed
  BY <1>8, TablesUntouched DEF Reflushed, tables, tableVars, delivery, requests
<1>9. CASE RecvNothing
  BY <1>9, TablesUntouched DEF RecvNothing, tables, tableVars, delivery, requests
<1>10. CASE RecvFailed
  BY <1>10, EndSessionKeepsIds DEF RecvFailed
<1>11. CASE Drained
  BY <1>11, TablesUntouched DEF Drained, tables, tableVars, delivery, requests
<1>12. CASE ReceivedEarly
  BY <1>12, TablesUntouched DEF ReceivedEarly, tables, tableVars, delivery, requests
<1>13. CASE ConnackExpired
  BY <1>13, EndSessionKeepsIds DEF ConnackExpired
<1>14. CASE Received
  BY <1>14, TablesUntouched DEF Received, tables, tableVars, delivery, requests
<1>15. CASE KeepAliveIdle
  BY <1>15, TablesUntouched DEF KeepAliveIdle, tables, tableVars, delivery, requests
<1>16. CASE SendPing
  BY <1>16, TablesUntouched DEF SendPing, tables, tableVars, delivery, requests
<1>17. CASE PingExpired
  BY <1>17, EndSessionKeepsIds DEF PingExpired
<1>18. CASE ResubscribeNothing
  BY <1>18, TablesUntouched DEF ResubscribeNothing, tables, tableVars, delivery, requests
<1>19. CASE Resubscribe
  BY <1>19, ResubscribeKeepsIds
<1>20. CASE RetransmitSlot
  BY <1>20, RetransmitKeepsIds
<1>21. CASE RetransmitSkip
  BY <1>21, TablesUntouched DEF RetransmitSkip, tables, tableVars, delivery, requests
<1>22. CASE Retransmitted
  BY <1>22, TablesUntouched DEF Retransmitted, tables, tableVars, delivery, requests
<1>23. CASE StepReturn
  BY <1>23, TablesUntouched DEF StepReturn, tableVars, delivery, requests
<1>24. QED
  BY <1>1, <1>2, <1>3, <1>4, <1>5, <1>6, <1>7, <1>8, <1>9, <1>10, <1>11, <1>12, <1>13,
     <1>14, <1>15, <1>16, <1>17, <1>18, <1>19, <1>20, <1>21, <1>22, <1>23
     DEF Pump

\* The packet handlers.
LEMMA HandleKeepsIds ==
    ASSUME IdInv, Handle
    PROVE  IdInv'
<1>1. CASE HandleBad
  BY <1>1, EndSessionKeepsIds DEF HandleBad, Reject
<1>2. CASE HandleMisdirected
  BY <1>2, EndSessionKeepsIds DEF HandleMisdirected, Reject
<1>3. CASE HandlePingresp
  BY <1>3, TablesUntouched DEF HandlePingresp, tableVars, delivery, requests
<1>4. CASE HandleConnack
  BY <1>4, ConnackKeepsIds
<1>5. CASE HandleConnackRejected
  BY <1>5, EndSessionKeepsIds DEF HandleConnackRejected, Reject
<1>6. CASE HandlePublishEarly
  BY <1>6, EndSessionKeepsIds DEF HandlePublishEarly, Reject
<1>7. CASE HandlePublishQos0
  BY <1>7, TablesUntouched DEF HandlePublishQos0, tableVars, delivery, requests
<1>8. CASE HandlePublishQos1
  BY <1>8, TablesUntouched DEF HandlePublishQos1, tableVars, delivery, requests
<1>9. CASE HandlePublishQos2
  BY <1>9, TablesUntouched DEF HandlePublishQos2, tableVars, delivery, requests
<1>10. CASE HandlePublishQos2Again
  BY <1>10, TablesUntouched DEF HandlePublishQos2Again, tableVars, delivery, requests
<1>11. CASE HandlePubrel
  BY <1>11, TablesUntouched DEF HandlePubrel, tableVars, delivery, requests
<1>12. CASE HandlePuback
  BY <1>12, DeliveredKeepsIds DEF HandlePuback
<1>13. CASE HandlePubrec
  BY <1>13, PubrecKeepsIds
<1>14. CASE HandlePubcomp
  BY <1>14, DeliveredKeepsIds DEF HandlePubcomp
<1>15. CASE HandleSuback
  BY <1>15, SubackKeepsIds
<1>16. CASE HandleSubackStale
  BY <1>16, TablesUntouched DEF HandleSubackStale, tableVars, delivery, requests
<1>17. CASE HandleSubackMismatched
  BY <1>17, EndSessionKeepsIds DEF HandleSubackMismatched, Reject
<1>18. CASE HandleUnsuback
  BY <1>18, UnsubackKeepsIds
<1>19. CASE DispatchNext
  BY <1>19, TablesUntouched DEF DispatchNext, tableVars, delivery, requests
<1>20. CASE DispatchDone
  BY <1>20, TablesUntouched DEF DispatchDone, tableVars, delivery, requests
<1>21. CASE SessionEnded
  BY <1>21, EndSessionKeepsIds DEF SessionEnded
<1>22. QED
  BY <1>1, <1>2, <1>3, <1>4, <1>5, <1>6, <1>7, <1>8, <1>9, <1>10, <1>11, <1>12, <1>13,
     <1>14, <1>15, <1>16, <1>17, <1>18, <1>19, <1>20, <1>21
     DEF Handle

\* Every step of the client keeps IdInv ...
LEMMA IdInvStep ==
    ASSUME IdInv, [Next]_vars
    PROVE  IdInv'
<1>1. CASE AppCall
  BY <1>1, AppCallKeepsIds
<1>2. CASE \E msg \in Msg, qos \in PublishQos, size \in PublishSize : AppPublish(msg, qos, size)
  BY <1>2, AppPublishKeepsIds
<1>3. CASE Pump
  BY <1>3, PumpKeepsIds
<1>4. CASE Handle
  BY <1>4, HandleKeepsIds
<1>5. CASE HandlerReturns
  BY <1>5, TablesUntouched DEF HandlerReturns, tableVars, delivery, requests
<1>6. CASE ConnectDone
  BY <1>6, TablesUntouched DEF ConnectDone, tables, tableVars, delivery, requests
<1>7. CASE SendHead
  BY <1>7, TablesUntouched DEF SendHead, tables, tableVars, delivery, requests
<1>8. CASE RecvAny
  BY <1>8, TablesUntouched DEF RecvAny, Recv, tables, tableVars, delivery, requests
<1>9. CASE UNCHANGED vars
  BY <1>9, TablesUntouched DEF vars, tableVars, delivery, requests
<1>10. QED
  BY <1>1, <1>2, <1>3, <1>4, <1>5, <1>6, <1>7, <1>8, <1>9 DEF Next, Internal

\* ... so it holds in every state the client reaches.
LEMMA IdInvAlways == Spec => []IdInv
<1>1. Init => IdInv
  BY IdInvInit
<1>2. IdInv /\ [Next]_vars => IdInv'
  BY IdInvStep
<1>3. QED
  BY <1>1, <1>2, PTL DEF Spec

\* No identifier alloc_packet_id() hands out is one an unfinished PUBLISH,
\* SUBSCRIBE or UNSUBSCRIBE still uses: whatever the size of the tables, the
\* wrap of the counter, the handlers' calls, the packets the peer sends and
\* the number of sessions.
THEOREM PacketIdsDistinct == Spec => []OutstandingIdsDistinct
<1>1. IdInv => OutstandingIdsDistinct
  BY DEF IdInv
<1>2. QED
  BY <1>1, IdInvAlways, PTL

\* Two entries of the subscription table never share the sub_id by which
\* handle_suback() and handle_unsuback() find them.
THEOREM SubscriptionIdsDistinct == Spec => []SubIdsDistinct
<1>1. IdInv => SubIdsDistinct
  BY DEF IdInv
<1>2. QED
  BY <1>1, IdInvAlways, PTL
=============================================================================
