---------------------------- MODULE TableLemmas -----------------------------
(***************************************************************************)
(* The tables of mqtt::Client<Cfg> and the allocators of identifiers: what *)
(* adding, releasing and flagging entries does to the identifiers in use.  *)
(***************************************************************************)
EXTENDS Client, SequenceTheorems, FiniteSetTheorems, WellFoundedInduction, NaturalsInduction, TLAPS

-----------------------------------------------------------------------------
(* Identifier allocation.                                                  *)

\* A non-empty set of numbers has a least one.
LEMMA LeastNat ==
    ASSUME NEW T \in SUBSET Nat, T # {}
    PROVE  \E d \in T : \A e \in T : d <= e
<1>1. PICK d \in T : \A e \in T : ~(<<e, d>> \in OpToRel(<, Nat))
  BY NatLessThanWellFounded, WFMin
<1>2. \A e \in T : e \in Nat /\ d \in Nat /\ ~(e < d)
  BY <1>1 DEF OpToRel
<1>3. ASSUME NEW e \in T PROVE d <= e
  <2>1. e \in Nat /\ d \in Nat /\ ~(e < d)
    BY <1>2
  <2>2. QED
    BY <2>1
<1>4. QED
  BY <1>3

\* A counter reaches every identifier within one turn.
LEMMA DistanceRange ==
    ASSUME NEW from \in 0 .. MaxId, NEW id \in Id
    PROVE  Distance(from, id) \in 1 .. MaxId
BY PacketsAssumption DEF Distance, Id

\* A non-empty set of identifiers has one that the counter meets first.
LEMMA NextFreeMember ==
    ASSUME NEW from \in 0 .. MaxId, NEW free \in SUBSET Id, free # {}
    PROVE  NextFree(from, free) \in free
<1> DEFINE D == {Distance(from, id) : id \in free}
<1>1. \A id \in Id : Distance(from, id) \in Nat
  BY DistanceRange, PacketsAssumption
<1>2. D \in SUBSET Nat /\ D # {}
  BY <1>1
<1>3. PICK d \in D : \A e \in D : d <= e
  <2> HIDE DEF D
  <2> QED
    BY <1>2, LeastNat
<1>4. PICK id \in free : d = Distance(from, id)
  BY <1>3
<1>5. \A other \in free : Distance(from, id) <= Distance(from, other)
  BY <1>3, <1>4
<1>6. QED
  BY <1>4, <1>5 DEF NextFree

\* What the tables hold between any two steps.
TableTypes ==
    /\ outbound \in [OutSlot -> OutboundSlot]
    /\ nextPacketId \in 0 .. MaxId
    /\ subscriptions \in [Filter -> Subscription]
    /\ pending \in Seq(PendingAck)
    /\ nextSubId \in 0 .. MaxId

\* Distinct identifiers are an inductive invariant once the tables are typed.
IdInv == TableTypes /\ OutstandingIdsDistinct /\ SubIdsDistinct

\* A slot that is not free has all the fields of a tracked packet.
LEMMA SlotFields ==
    ASSUME NEW slot \in OutboundSlot, slot.phase # "Free"
    PROVE  slot \in [phase : Phase \ {"Free"}, id : Id, msg : Msg, dup : BOOLEAN, size : Size]
BY DEF OutboundSlot, FreeSlot

\* alloc_packet_id() returns 0 or an identifier nothing uses.
LEMMA NewPacketIdFree ==
    ASSUME TableTypes
    PROVE  /\ NewPacketId \in 0 .. MaxId
           /\ NewPacketId # 0 => NewPacketId \in FreePacketIds
<1>1. FreePacketIds \in SUBSET Id
  BY DEF FreePacketIds
<1>2. nextPacketId \in 0 .. MaxId
  BY DEF TableTypes
<1>3. CASE FreePacketIds = {}
  BY <1>3, PacketsAssumption DEF NewPacketId
<1>4. CASE FreePacketIds # {}
  <2>1. NewPacketId \in FreePacketIds
    BY <1>1, <1>2, <1>4, NextFreeMember DEF NewPacketId
  <2>2. QED
    BY <1>1, <2>1, PacketsAssumption DEF Id
<1>5. QED
  BY <1>3, <1>4

\* The counter of alloc_packet_id() stays in range.
LEMMA AdvanceType ==
    ASSUME TableTypes, AdvancePacketId
    PROVE  nextPacketId' \in 0 .. MaxId
BY NewPacketIdFree, PacketsAssumption DEF AdvancePacketId, TableTypes

\* Entries that stay keep their identifiers: releasing slots is safe.
LEMMA SlotsShrink ==
    ASSUME OutstandingIdsDistinct, pending' = pending,
           \A i \in OutSlot : outbound'[i].phase # "Free" =>
              outbound[i].phase # "Free" /\ outbound'[i].id = outbound[i].id
    PROVE  OutstandingIdsDistinct'
BY DEF OutstandingIdsDistinct, BusySlots, Busy

\* publish() puts a free identifier in a free slot.
LEMMA TrackPublish ==
    ASSUME IdInv, NewPacketId # 0, NEW i \in OutSlot, NEW slot \in OutboundSlot,
           slot.phase # "Free", slot.id = NewPacketId,
           outbound' = [outbound EXCEPT ![i] = slot], pending' = pending
    PROVE  outbound' \in [OutSlot -> OutboundSlot] /\ OutstandingIdsDistinct'
<1>1. NewPacketId \notin PacketIdsInUse
  BY NewPacketIdFree DEF IdInv, FreePacketIds
<1>2. /\ \A j \in BusySlots : outbound[j].id # slot.id
      /\ \A k \in DOMAIN pending : pending[k].id # slot.id
  BY <1>1 DEF PacketIdsInUse, BusySlots
<1>3. outbound' \in [OutSlot -> OutboundSlot]
  BY DEF IdInv, TableTypes
<1>4. \A j \in OutSlot : outbound'[j] = IF j = i THEN slot ELSE outbound[j]
  BY DEF IdInv, TableTypes
<1>5. BusySlots' = BusySlots \cup {i}
  BY <1>4 DEF BusySlots, Busy
<1>6. QED
  BY <1>2, <1>3, <1>4, <1>5 DEF IdInv, OutstandingIdsDistinct, BusySlots

\* A request appends a free identifier to the pending table.
LEMMA TrackRequest ==
    ASSUME IdInv, NewPacketId # 0, NEW ack \in PendingAck, ack.id = NewPacketId,
           pending' = Append(pending, ack), outbound' = outbound
    PROVE  pending' \in Seq(PendingAck) /\ OutstandingIdsDistinct'
<1>1. NewPacketId \notin PacketIdsInUse
  BY NewPacketIdFree DEF IdInv, FreePacketIds
<1>2. /\ \A j \in BusySlots : outbound[j].id # ack.id
      /\ \A k \in DOMAIN pending : pending[k].id # ack.id
  BY <1>1 DEF PacketIdsInUse, BusySlots
<1>3. pending \in Seq(PendingAck) /\ pending' \in Seq(PendingAck)
  BY DEF IdInv, TableTypes
<1>4. /\ DOMAIN pending = 1 .. Len(pending)
      /\ DOMAIN pending' = 1 .. Len(pending) + 1
      /\ Len(pending) \in Nat
      /\ \A k \in 1 .. Len(pending) : pending'[k] = pending[k]
      /\ pending'[Len(pending) + 1] = ack
  BY <1>3
<1>5. BusySlots' = BusySlots
  BY DEF BusySlots, Busy
<1>6. \A k, m \in DOMAIN pending' : pending'[k].id = pending'[m].id => k = m
  BY <1>2, <1>4 DEF IdInv, OutstandingIdsDistinct
<1>7. \A i \in BusySlots', k \in DOMAIN pending' : outbound'[i].id # pending'[k].id
  BY <1>2, <1>4, <1>5 DEF IdInv, OutstandingIdsDistinct
<1>8. QED
  BY <1>3, <1>5, <1>6, <1>7 DEF IdInv, OutstandingIdsDistinct

\* An acknowledged request leaves the others where they were, one place up.
LEMMA RequestDone ==
    ASSUME IdInv, NEW k \in DOMAIN pending, pending' = RemovePending(k), outbound' = outbound
    PROVE  pending' \in Seq(PendingAck) /\ OutstandingIdsDistinct'
<1> DEFINE from(j) == IF j < k THEN j ELSE j + 1
<1>1. pending \in Seq(PendingAck) /\ Len(pending) \in Nat /\ DOMAIN pending = 1 .. Len(pending)
  BY DEF IdInv, TableTypes
<1>2. k \in 1 .. Len(pending) /\ Len(pending) - 1 \in Nat
  BY <1>1
<1>3. \A j \in 1 .. Len(pending) - 1 : from(j) \in 1 .. Len(pending) /\ pending[from(j)] \in PendingAck
  BY <1>1, <1>2
<1>4. pending' = [j \in 1 .. Len(pending) - 1 |-> pending[from(j)]]
  BY DEF RemovePending
<1>5. pending' \in Seq(PendingAck) /\ DOMAIN pending' = 1 .. Len(pending) - 1
  BY <1>2, <1>3, <1>4
<1>6. BusySlots' = BusySlots
  BY DEF BusySlots, Busy
<1>7. \A i, j \in 1 .. Len(pending) - 1 : from(i) = from(j) => i = j
  BY <1>1, <1>2
<1>8. \A j \in DOMAIN pending' : pending'[j] = pending[from(j)]
  BY <1>4, <1>5
<1> HIDE DEF from
<1>9. \A i, j \in DOMAIN pending' : pending'[i].id = pending'[j].id => i = j
  BY <1>1, <1>3, <1>5, <1>7, <1>8 DEF IdInv, OutstandingIdsDistinct
<1>10. \A i \in BusySlots', j \in DOMAIN pending' : outbound'[i].id # pending'[j].id
  BY <1>1, <1>3, <1>5, <1>6, <1>8 DEF IdInv, OutstandingIdsDistinct
<1>11. QED
  BY <1>5, <1>6, <1>9, <1>10 DEF IdInv, OutstandingIdsDistinct

-----------------------------------------------------------------------------
(* The subscription table.                                                 *)

\* An entry of the subscription table has all its fields.
LEMMA EntryFields ==
    ASSUME NEW entry \in Subscription, entry # NoEntry
    PROVE  entry \in [sub : Id, qos : QoS, handler : BOOLEAN, resub : BOOLEAN]
BY DEF Subscription

\* The absent entry, whose sub_id is 0.
LEMMA NoEntryType == NoEntry \in Subscription /\ NoEntry.sub = 0
BY DEF Subscription, NoEntry

\* Flagging an entry changes nothing else of it.
LEMMA Flagged ==
    ASSUME NEW entry \in Subscription, entry # NoEntry, NEW b \in BOOLEAN
    PROVE  /\ [entry EXCEPT !.resub = b] \in Subscription
           /\ [entry EXCEPT !.resub = b].sub = entry.sub
<1>1. entry \in [sub : Id, qos : QoS, handler : BOOLEAN, resub : BOOLEAN]
  BY EntryFields
<1>2. [entry EXCEPT !.resub = b] \in [sub : Id, qos : QoS, handler : BOOLEAN, resub : BOOLEAN]
  BY <1>1
<1>3. [entry EXCEPT !.resub = b].sub = entry.sub
  BY <1>1
<1>4. QED
  BY <1>2, <1>3 DEF Subscription

\* Entries that stay keep their sub_id.
SubscriptionsShrink ==
    /\ subscriptions' \in [Filter -> Subscription]
    /\ \A f \in Filter : subscriptions'[f] # NoEntry =>
         subscriptions[f] # NoEntry /\ subscriptions'[f].sub = subscriptions[f].sub

\* Removing entries keeps the others' sub_ids apart.
LEMMA ShrinkKeepsSubIds ==
    ASSUME SubIdsDistinct, SubscriptionsShrink
    PROVE  SubIdsDistinct'
BY DEF SubIdsDistinct, SubscriptionsShrink, Subscribed

\* mark_all_for_resub() only sets flags.
LEMMA MarkAllShrinks ==
    ASSUME subscriptions \in [Filter -> Subscription], subscriptions' = MarkAllForResub
    PROVE  SubscriptionsShrink
<1>1. ASSUME NEW f \in Filter
      PROVE  /\ subscriptions'[f] \in Subscription
             /\ subscriptions'[f] # NoEntry =>
                  subscriptions[f] # NoEntry /\ subscriptions'[f].sub = subscriptions[f].sub
  <2>1. CASE subscriptions[f] = NoEntry
    BY <2>1, NoEntryType DEF MarkAllForResub, Subscribed
  <2>2. CASE subscriptions[f] # NoEntry
    <3>1. subscriptions'[f] = [subscriptions[f] EXCEPT !.resub = TRUE]
      BY <2>2 DEF MarkAllForResub, Subscribed
    <3>2. QED
      BY <2>2, <3>1, Flagged
  <2>3. QED
    BY <2>1, <2>2
<1>2. subscriptions' = [f \in Filter |-> subscriptions'[f]]
  BY DEF MarkAllForResub
<1>3. QED
  BY <1>1, <1>2 DEF SubscriptionsShrink

\* pump_resubscribe() only clears flags.
LEMMA UnflaggedShrinks ==
    ASSUME subscriptions \in [Filter -> Subscription], NEW batch,
           \A k \in DOMAIN batch : batch[k] \in Subscribed,
           subscriptions' = Unflagged(batch)
    PROVE  SubscriptionsShrink
<1>1. ASSUME NEW f \in Filter
      PROVE  /\ subscriptions'[f] \in Subscription
             /\ subscriptions'[f] # NoEntry =>
                  subscriptions[f] # NoEntry /\ subscriptions'[f].sub = subscriptions[f].sub
  <2>1. CASE \E k \in DOMAIN batch : batch[k] = f
    <3>1. subscriptions[f] # NoEntry
      BY <2>1 DEF Subscribed
    <3>2. subscriptions'[f] = [subscriptions[f] EXCEPT !.resub = FALSE]
      BY <2>1 DEF Unflagged
    <3>3. QED
      BY <3>1, <3>2, Flagged
  <2>2. CASE ~\E k \in DOMAIN batch : batch[k] = f
    BY <2>2 DEF Unflagged
  <2>3. QED
    BY <2>1, <2>2
<1>2. subscriptions' = [f \in Filter |-> subscriptions'[f]]
  BY DEF Unflagged
<1>3. QED
  BY <1>1, <1>2 DEF SubscriptionsShrink

\* The sequences a request may carry.
LEMMA UpToMember ==
    ASSUME NEW S, NEW n \in Nat, NEW s \in UpTo(S, n)
    PROVE  /\ Len(s) \in 0 .. n
           /\ DOMAIN s = 1 .. Len(s)
           /\ s \in [1 .. Len(s) -> S]
<1>1. PICK m \in 0 .. n : s \in [1 .. m -> S]
  BY DEF UpTo
<1>2. Len(s) = m
  BY <1>1
<1>3. QED
  BY <1>1, <1>2

\* A sequence over S of at most n elements is one a request may carry.
LEMMA MemberUpTo ==
    ASSUME NEW S, NEW n \in Nat, NEW m \in 0 .. n, NEW s \in [1 .. m -> S]
    PROVE  s \in UpTo(S, n)
BY DEF UpTo

\* alloc_sub_id() gives each new filter of a request an id of its own.
LEMMA NewSubIdsDistinct ==
    ASSUME nextSubId \in 0 .. MaxId,
           NEW m \in Nat, NEW filters \in [1 .. m -> Filter], NEW ids \in NewSubIds(filters)
    PROVE  \A f, g \in DOMAIN ids : ids[f] = ids[g] => f = g
<1> DEFINE new == {filters[k] : k \in DOMAIN filters} \ Subscribed
           First(f) == CHOOSE k \in DOMAIN filters :
                         filters[k] = f /\ \A j \in 1 .. k - 1 : filters[j] # f
           Steps(id) == Distance(nextSubId, id)
<1>1. /\ ids \in [new -> FreeSubIds]
      /\ \A f, g \in new : First(f) < First(g) => Steps(ids[f]) < Steps(ids[g])
  BY DEF NewSubIds
<1>2. ASSUME NEW f \in new PROVE First(f) \in 1 .. m /\ filters[First(f)] = f
  <2> DEFINE K == {k \in 1 .. m : filters[k] = f}
  <2>1. K \in SUBSET Nat /\ K # {}
    OBVIOUS
  <2>2. PICK k \in K : \A j \in K : k <= j
    <3> HIDE DEF K
    <3> QED
      BY <2>1, LeastNat
  <2>3. \A j \in 1 .. k - 1 : filters[j] # f
    BY <2>2
  <2>4. QED
    BY <2>2, <2>3
<1>3. ASSUME NEW f \in new, NEW g \in new, f # g PROVE ids[f] # ids[g]
  <2>1. /\ First(f) \in 1 .. m /\ First(g) \in 1 .. m
        /\ filters[First(f)] = f /\ filters[First(g)] = g
    BY <1>2
  <2>2. ids[f] \in Id /\ ids[g] \in Id
    BY <1>1 DEF FreeSubIds
  <2>3. Steps(ids[f]) \in Nat /\ Steps(ids[g]) \in Nat
    <3>1. Steps(ids[f]) \in 1 .. MaxId /\ Steps(ids[g]) \in 1 .. MaxId
      BY <2>2, DistanceRange
    <3>2. QED
      BY <3>1, PacketsAssumption
  <2> HIDE DEF First, Steps
  <2>4. First(f) < First(g) \/ First(g) < First(f)
    BY <1>3, <2>1
  <2>5. Steps(ids[f]) < Steps(ids[g]) \/ Steps(ids[g]) < Steps(ids[f])
    BY <1>1, <2>4
  <2>6. QED
    BY <2>3, <2>5
<1>4. QED
  BY <1>1, <1>3

\* The counter of alloc_sub_id() stays in range.
LEMMA AdvanceSubIdType ==
    ASSUME nextSubId \in 0 .. MaxId, NEW new, NEW ids \in [new -> Id], AdvanceSubId(ids)
    PROVE  nextSubId' \in 0 .. MaxId
<1>1. CASE new = {}
  BY <1>1 DEF AdvanceSubId
<1>2. CASE new # {}
  <2> DEFINE D == {MaxId - Distance(nextSubId, ids[f]) : f \in new}
  <2>1. \A f \in new : Distance(nextSubId, ids[f]) \in 1 .. MaxId
    BY DistanceRange
  <2>2. D \in SUBSET Nat /\ D # {}
    BY <1>2, <2>1, PacketsAssumption
  <2>3. PICK d \in D : \A e \in D : d <= e
    <3> HIDE DEF D
    <3> QED
      BY <2>2, LeastNat
  <2>4. PICK f \in new : d = MaxId - Distance(nextSubId, ids[f])
    BY <2>3
  <2>5. \A g \in new : MaxId - Distance(nextSubId, ids[f]) <= MaxId - Distance(nextSubId, ids[g])
    BY <2>3, <2>4
  <2>6. \A g \in new : Distance(nextSubId, ids[g]) <= Distance(nextSubId, ids[f])
    BY <2>1, <2>5, PacketsAssumption
  <2>7. \E id \in {ids[g] : g \in DOMAIN ids} :
           \A g \in DOMAIN ids : Distance(nextSubId, ids[g]) <= Distance(nextSubId, id)
    BY <2>6
  <2>8. nextSubId' \in {ids[g] : g \in DOMAIN ids}
    BY <1>2, <2>7 DEF AdvanceSubId
  <2>9. QED
    BY <2>8, PacketsAssumption DEF Id
<1>3. QED
  BY <1>1, <1>2
=============================================================================
