---------------------------- MODULE ClientState -----------------------------
(***************************************************************************)
(* The state of mqtt::Client<Cfg> and the helpers every operation uses:    *)
(* the transmit queue at packet granularity, the identifier allocators,    *)
(* the tables and shutdown().                                              *)
(*                                                                         *)
(* Control.  step() is one call that runs application handlers in the      *)
(* middle, and a handler may call the client back.  `stack` is the call    *)
(* stack: "app" at the bottom is the application's own loop, a frame of    *)
(* StepFrame is the place step() has reached, a frame of Handler is an     *)
(* application handler.  The frame on top moves.                           *)
(***************************************************************************)
EXTENDS Packets

CONSTANTS
    MaxInflightOut,     \* Cfg::max_inflight_out
    MaxInflightIn,      \* Cfg::max_inflight_in
    MaxSubscriptions,   \* Cfg::max_subscriptions
    MaxPendingAcks,     \* Cfg::max_pending_acks
    MaxPersisted,       \* Cfg::max_persisted_msg_size
    TxCapacity,         \* Cfg::tx_buffer_size
    RxCapacity,         \* packets that fit Cfg::rx_buffer_size at once
    MaxRecvRounds,      \* kMaxRecvRoundsPerStep, 8 in the source
    RetryEnabled,       \* Cfg::retry_interval_ms # 0
    KeepAliveEnabled,   \* ConnectOptions::keep_alive_s # 0
    LoopCalls,          \* client calls the application makes from its loop
    HandlerCalls,       \* client calls it makes from a handler
    MaxDepth            \* bound on handlers running inside handlers

ASSUME ConfigAssumption ==
    /\ MaxInflightOut \in Nat
    /\ MaxInflightIn \in Nat
    /\ MaxSubscriptions \in 0 .. MaxId
    /\ MaxPendingAcks \in Nat
    /\ MaxPersisted \in Nat
    /\ TxCapacity \in Nat
    /\ RxCapacity \in Nat \ {0}
    /\ MaxRecvRounds \in Nat \ {0}
    /\ RetryEnabled \in BOOLEAN
    /\ KeepAliveEnabled \in BOOLEAN
    /\ MaxDepth \in Nat

VARIABLES
    \* Control
    stack,          \* the call stack
    inStep,         \* in_step_
    result,         \* what the running step() is about to return
    notified,       \* reasons the running step() has passed to on_disconnect
    \* Session
    state,          \* state_
    lastError,      \* last_error_
    clean,          \* clean_session_
    link,           \* what the transport has been told: "open" or "closed"
    \* Transmit queue
    tx,             \* the packets in tx_, oldest first
    txSent,         \* bytes of the oldest packet the transport has taken
    txBytes,        \* tx_.pending()
    \* Receive path
    rx,             \* complete packets in rx_; the head is the one handled
    rounds,         \* recv() rounds this step() has used
    fanout,         \* handlers dispatch() has still to call for this message
    \* Timers
    ping,           \* ping_outstanding_
    retransmitNow,  \* retransmit_now_
    forced,         \* pump_retransmit()'s copy of it
    cursor,         \* the slot pump_retransmit() looks at next
    \* Tables
    outbound,       \* outbound_
    nextPacketId,   \* next_packet_id_
    inboundIds,     \* inbound_ids_
    subscriptions,  \* subscriptions_, keyed by filter
    pending,        \* pending_
    nextSubId       \* next_sub_id_

control  == <<stack, inStep, result, notified>>
session  == <<state, lastError, clean, link>>
queue    == <<tx, txSent, txBytes>>
receive  == <<rx, rounds, fanout>>
timers   == <<ping, retransmitNow, forced, cursor>>
delivery == <<outbound, inboundIds>>
requests == <<subscriptions, pending, nextSubId>>
vars     == <<control, session, queue, receive, timers, delivery, nextPacketId, requests>>

-----------------------------------------------------------------------------

State == {"Idle", "Connecting", "AwaitingConnack", "Connected", "Disconnecting"}

Error == {"Ok", "ConnectTimeout", "TransportClosed", "TransportFailure", "PacketTooLarge",
          "MalformedPacket", "ProtocolViolation", "ConnectionRefused", "KeepAliveTimeout"}

\* Where step() stands: driving Transport::connect(), the first pump_tx(),
\* about to recv(), draining the receive buffer, back from a handler in the
\* middle of a drain, past pump_rx(), the three timers, the second pump_tx(),
\* returning.
StepFrame == {"connect", "flush", "recv", "drain", "handled", "received",
              "keepalive", "resubscribe", "retransmit", "reflush", "return"}

Handler == {"on_connect", "on_message", "on_delivery", "on_suback", "on_disconnect"}

Frame == {"app"} \cup StepFrame \cup Handler

Phase == {"Free", "WaitPuback", "WaitPubrec", "WaitPubcomp"}

OutSlot == 1 .. MaxInflightOut

\* OutboundSlot.  Its `packet` is a function of these fields: see Stored.
FreeSlot == [phase |-> "Free"]

OutboundSlot == {FreeSlot} \cup
    [phase : Phase \ {"Free"}, id : Id, msg : Msg, dup : BOOLEAN, size : Size]

NoEntry == [sub |-> 0]

Subscription == {NoEntry} \cup
    [sub : Id, qos : QoS, handler : BOOLEAN, resub : BOOLEAN]

PendingAck == [id : Id, expected : {"Suback", "Unsuback"}, subs : UpTo(0 .. MaxId, MaxTopics)]

TypeOK ==
    /\ stack \in Seq(Frame) /\ stack # <<>>
    /\ inStep \in BOOLEAN
    /\ result \in Error
    /\ notified \subseteq Error
    /\ state \in State
    /\ lastError \in Error
    /\ clean \in BOOLEAN
    /\ link \in {"open", "closed"}
    /\ tx \in Seq(OutPacket)
    /\ txSent \in Nat
    /\ txBytes \in 0 .. TxCapacity
    /\ rx \in Seq(InPacket)
    /\ rounds \in 0 .. MaxRecvRounds
    /\ fanout \in Nat
    /\ ping \in BOOLEAN
    /\ retransmitNow \in BOOLEAN
    /\ forced \in BOOLEAN
    /\ cursor \in 1 .. MaxInflightOut + 1
    /\ outbound \in [OutSlot -> OutboundSlot]
    /\ nextPacketId \in 0 .. MaxId
    /\ inboundIds \subseteq Id
    /\ subscriptions \in [Filter -> Subscription]
    /\ pending \in Seq(PendingAck)
    /\ nextSubId \in 0 .. MaxId

Init ==
    /\ stack = <<"app">>
    /\ inStep = FALSE
    /\ result = "Ok"
    /\ notified = {}
    /\ state = "Idle"
    /\ lastError = "Ok"
    /\ clean = TRUE
    /\ link = "closed"
    /\ tx = <<>> /\ txSent = 0 /\ txBytes = 0
    /\ rx = <<>> /\ rounds = 0 /\ fanout = 0
    /\ ping = FALSE /\ retransmitNow = FALSE /\ forced = FALSE /\ cursor = 1
    /\ outbound = [i \in OutSlot |-> FreeSlot]
    /\ nextPacketId = 0
    /\ inboundIds = {}
    /\ subscriptions = [f \in Filter |-> NoEntry]
    /\ pending = <<>>
    /\ nextSubId = 0

-----------------------------------------------------------------------------
(* The call stack.                                                         *)

Top == stack[Len(stack)]

Goto(frame) == [stack EXCEPT ![Len(stack)] = frame]

Enter(frames, frame) == Append(frames, frame)

Leave == SubSeq(stack, 1, Len(stack) - 1)

\* step_once() returns e without ending the session.
Finish(e) ==
    /\ stack' = Goto("return")
    /\ result' = e
    /\ UNCHANGED <<inStep, notified>>

At(frame) ==
    /\ stack' = Goto(frame)
    /\ UNCHANGED <<inStep, result, notified>>

-----------------------------------------------------------------------------
(* enqueue() and enqueue_sized().  TxQueue shows that reserve() succeeds   *)
(* exactly when the packet fits beside the bytes already pending.          *)

\* Faulty variant of Fits: the bytes already pending are not counted.
FitsAlone(p) == PacketSize(p) <= TxCapacity

Fits(p) == txBytes + PacketSize(p) <= TxCapacity

Enqueue(p) ==
    /\ Fits(p)
    /\ tx' = Append(tx, p)
    /\ txBytes' = txBytes + PacketSize(p)
    /\ UNCHANGED txSent

\* Queue p if there is room, and carry on either way.
TryEnqueue(p) == Enqueue(p) \/ (~Fits(p) /\ UNCHANGED queue)

\* Faulty variant of ClearTx: the bytes of the old session stay queued.
TxNotCleared == UNCHANGED queue

\* tx_.clear()
ClearTx == tx' = <<>> /\ txSent' = 0 /\ txBytes' = 0

-----------------------------------------------------------------------------
(* Identifiers.                                                            *)

Busy(i) == outbound[i].phase # "Free"

\* Faulty variant of PacketIdsInUse: the slots are not consulted.
RequestIdsInUse == {pending[k].id : k \in DOMAIN pending}

\* packet_id_in_use()
PacketIdsInUse ==
    {outbound[i].id : i \in {j \in OutSlot : Busy(j)}} \cup
    {pending[k].id : k \in DOMAIN pending}

\* How many increments of a counter at `from`, wrapping MaxId -> 1, reach id.
Distance(from, id) == ((id - 1 - from) % MaxId) + 1

\* The free id that the counter meets first.
NextFree(from, free) ==
    CHOOSE id \in free : \A other \in free : Distance(from, id) <= Distance(from, other)

FreePacketIds == Id \ PacketIdsInUse

\* alloc_packet_id(): the id, or 0 when all are taken ...
NewPacketId == IF FreePacketIds = {} THEN 0 ELSE NextFree(nextPacketId, FreePacketIds)

\* ... and the counter moves to it, or all the way round.
AdvancePacketId ==
    nextPacketId' = IF FreePacketIds # {} THEN NewPacketId
                    ELSE IF nextPacketId = 0 THEN MaxId ELSE nextPacketId

Subscribed == {f \in Filter : subscriptions[f] # NoEntry}

\* Faulty variant of FreeSubIds: ids in use are handed out again.
AnySubId == Id

FreeSubIds == Id \ {subscriptions[f].sub : f \in Subscribed}

\* alloc_sub_id() called for each of the filters in turn: the assignments
\* (there is one) that follow the counter and skip only ids in use.
NewSubIds(filters) ==
    LET new == {filters[k] : k \in DOMAIN filters} \ Subscribed
        First(f) == CHOOSE k \in DOMAIN filters :
                       filters[k] = f /\ \A j \in 1 .. k - 1 : filters[j] # f
        Steps(id) == Distance(nextSubId, id)
    IN {ids \in [new -> FreeSubIds] :
          /\ \A f, g \in new : First(f) < First(g) => Steps(ids[f]) < Steps(ids[g])
          /\ \A f \in new, id \in FreeSubIds :
               Steps(id) < Steps(ids[f]) => \E g \in new : ids[g] = id}

\* next_sub_id_ stops at the last id handed out.
AdvanceSubId(ids) ==
    nextSubId' = IF DOMAIN ids = {} THEN nextSubId
                 ELSE CHOOSE id \in {ids[f] : f \in DOMAIN ids} :
                        \A f \in DOMAIN ids : Distance(nextSubId, ids[f]) <= Distance(nextSubId, id)

-----------------------------------------------------------------------------
(* Tables.                                                                 *)

\* The bytes in OutboundSlot::packet.
Stored(slot) ==
    CASE slot.phase = "WaitPuback"  -> Publish(slot.id, 1, slot.msg, slot.dup, slot.size)
      [] slot.phase = "WaitPubrec"  -> Publish(slot.id, 2, slot.msg, slot.dup, slot.size)
      [] slot.phase = "WaitPubcomp" -> Ack("Pubrel", slot.id)

\* Faulty variant of MarkDup: the flag is never set.
MarkDupNever(slot) == slot

\* mark_dup(): a PUBREL has no DUP bit.
MarkDup(slot) == IF slot.phase = "WaitPubcomp" THEN slot ELSE [slot EXCEPT !.dup = TRUE]

\* The first slot of the table that satisfies a condition, as a set.
FirstSlot(S) == {i \in S : \A j \in S : i <= j}

FreeOutboundSlot == FirstSlot({i \in OutSlot : ~Busy(i)})

FindOutbound(id) == FirstSlot({i \in OutSlot : Busy(i) /\ outbound[i].id = id})

NoOutbound == [i \in OutSlot |-> FreeSlot]

\* Faulty variant of MarkAllForResub: the table is left as it is.
MarkNoneForResub == subscriptions

MarkAllForResub ==
    [f \in Filter |-> IF f \in Subscribed THEN [subscriptions[f] EXCEPT !.resub = TRUE]
                      ELSE NoEntry]


InboundTableFullLate == Cardinality(inboundIds) > MaxInflightIn

AckTableFull == Len(pending) >= MaxPendingAcks

InboundTableFull == Cardinality(inboundIds) >= MaxInflightIn

FindPending(id, expected) ==
    FirstSlot({k \in DOMAIN pending : pending[k].id = id /\ pending[k].expected = expected})

RemovePending(k) == [j \in 1 .. Len(pending) - 1 |-> IF j < k THEN pending[j] ELSE pending[j + 1]]

-----------------------------------------------------------------------------

\* Faulty variant of ReleasedOutbound: a persistent session is not told apart.
ReleasedAlways == NoOutbound

\* shutdown() releases the slots of a clean session only.
ReleasedOutbound == IF clean THEN NoOutbound ELSE outbound

\* Faulty variant of Notify: a session that never got its CONNACK goes untold.
NotifyConnected(reason, frames) ==
    IF state = "Connected"
    THEN /\ stack' = Enter(frames, "on_disconnect")
         /\ notified' = IF inStep THEN notified \cup {reason} ELSE notified
    ELSE stack' = frames /\ UNCHANGED notified

\* shutdown() runs on_disconnect unless the client was Idle already.
Notify(reason, frames) ==
    IF state # "Idle"
    THEN /\ stack' = Enter(frames, "on_disconnect")
         /\ notified' = IF inStep THEN notified \cup {reason} ELSE notified
    ELSE stack' = frames /\ UNCHANGED notified

\* shutdown(reason), called with `frames` as the stack to return to: end the
\* session, then run on_disconnect if there was one.
Shutdown(reason, frames) ==
    /\ link' = "closed"
    /\ ClearTx
    /\ rx' = <<>>
    /\ ping' = FALSE
    /\ state' = "Idle"
    /\ lastError' = reason
    /\ pending' = <<>>
    /\ outbound' = ReleasedOutbound
    /\ inboundIds' = IF clean THEN {} ELSE inboundIds
    /\ subscriptions' = MarkAllForResub
    /\ Notify(reason, frames)
    /\ UNCHANGED <<clean, retransmitNow, nextPacketId, nextSubId>>

\* step_once() does `return shutdown(reason)`.
EndSession(reason) ==
    /\ Shutdown(reason, Goto("return"))
    /\ result' = reason
    /\ UNCHANGED <<inStep, rounds, fanout, forced, cursor>>
=============================================================================
