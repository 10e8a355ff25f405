------------------------------- MODULE Client -------------------------------
(***************************************************************************)
(* mqtt::Client<Cfg> with an application that makes any of its calls in    *)
(* any order and a peer that sends any packets of the set Inbound.         *)
(***************************************************************************)
EXTENDS ClientApi, ClientStep, ClientHandlers

CONSTANTS
    Inbound,        \* packets the peer may send
    CleanSession,   \* values of ConnectOptions::clean_session it uses
    PublishQos,     \* QoS levels the application publishes at
    SubscribeQos,   \* QoS levels it subscribes at
    OwnHandler      \* whether it passes subscribe() a handler: a set of BOOLEANs

ASSUME PeerAssumption ==
    /\ Inbound \subseteq InPacket
    /\ CleanSession \subseteq BOOLEAN
    /\ PublishQos \subseteq QoS
    /\ SubscribeQos \subseteq QoS
    /\ OwnHandler \subseteq BOOLEAN

\* What the application asks for.
AppPublish(msg, qos, size) ==
    IF qos = 0 THEN PublishQos0(msg, size) ELSE PublishTracked(qos, msg, size)

AppConnect == \E wantClean \in CleanSession, size \in ConnectSize : ApiConnect(wantClean, size)

AppSubscribe ==
    \E topics \in UpTo([filter : Filter, qos : SubscribeQos], MaxTopics), handler \in OwnHandler :
       ApiSubscribe(topics, handler)

AppUnsubscribe == \E filters \in UpTo(Filter, MaxTopics) : ApiUnsubscribe(filters)

AppCall ==
    \/ AppConnect \/ ApiDisconnect \/ ApiDisconnectHard \/ ApiAbort
    \/ AppSubscribe \/ AppUnsubscribe \/ Step

Pump ==
    \/ ConnectPending \/ ConnectExpired \/ ConnectFailed
    \/ SendPart \/ SendFailed \/ Flushed \/ DisconnectSent \/ Reflushed
    \/ RecvNothing \/ RecvFailed \/ Drained \/ ReceivedEarly \/ ConnackExpired \/ Received
    \/ KeepAliveIdle \/ SendPing \/ PingExpired
    \/ ResubscribeNothing \/ Resubscribe
    \/ RetransmitSlot \/ RetransmitSkip \/ Retransmitted
    \/ StepReturn

Handle ==
    \/ HandleBad \/ HandleMisdirected \/ HandlePingresp
    \/ HandleConnack \/ HandleConnackRejected
    \/ HandlePublishEarly \/ HandlePublishQos0 \/ HandlePublishQos1
    \/ HandlePublishQos2 \/ HandlePublishQos2Again \/ HandlePubrel
    \/ HandlePuback \/ HandlePubrec \/ HandlePubcomp
    \/ HandleSuback \/ HandleSubackStale \/ HandleSubackMismatched \/ HandleUnsuback
    \/ DispatchNext \/ DispatchDone \/ SessionEnded

RecvAny == \E packets \in UpTo(Inbound, RxCapacity) \ {<<>>} : Recv(packets)

\* What goes on inside a call without touching the wire.
Internal == Pump \/ Handle \/ HandlerReturns

Next ==
    \/ AppCall
    \/ \E msg \in Msg, qos \in PublishQos, size \in PublishSize : AppPublish(msg, qos, size)
    \/ Internal \/ ConnectDone \/ SendHead \/ RecvAny

Spec == Init /\ [][Next]_vars

\* step() is code that runs, and a handler returns.
FairSpec == Spec /\ WF_vars(Internal \/ ConnectDone \/ SendHead \/ RecvAny)

-----------------------------------------------------------------------------
(* Safety.                                                                 *)

BusySlots == {i \in OutSlot : Busy(i)}

\* alloc_packet_id() never hands out an identifier that an unfinished
\* PUBLISH, SUBSCRIBE or UNSUBSCRIBE still uses, whatever the wrap of the
\* counter, whatever was refused after the allocation, and across sessions.
OutstandingIdsDistinct ==
    /\ \A i, j \in BusySlots : outbound[i].id = outbound[j].id => i = j
    /\ \A k, m \in DOMAIN pending : pending[k].id = pending[m].id => k = m
    /\ \A i \in BusySlots, k \in DOMAIN pending : outbound[i].id # pending[k].id

\* Two table entries never share a sub_id, so an acknowledgement that names
\* entries by sub_id (handle_suback, handle_unsuback) cannot hit another one.
SubIdsDistinct ==
    \A f, g \in Subscribed : subscriptions[f].sub = subscriptions[g].sub => f = g

\* No push_back() finds its etl::vector full: the capacity is tested before the
\* packet is queued, and the entry is added after.
TablesWithinCapacity ==
    /\ Len(pending) <= MaxPendingAcks
    /\ Cardinality(inboundIds) <= MaxInflightIn
    /\ Cardinality(Subscribed) <= MaxSubscriptions

\* A connection's byte stream starts with the CONNECT and has no other:
\* nothing of an earlier session is left in the queue when connect() queues
\* it, no call adds anything before the transport is up, and between
\* sessions both buffers and the request table are empty.
StreamStartsWithConnect ==
    /\ state = "Idle" => tx = <<>> /\ rx = <<>> /\ pending = <<>> /\ link = "closed"
    /\ state = "Connecting" =>
         /\ link = "closed" /\ txSent = 0 /\ pending = <<>>
         /\ Len(tx) = 1 /\ tx[1].type = "Connect"
    /\ state \in {"AwaitingConnack", "Connected", "Disconnecting"} => link = "open"
    /\ \A k \in DOMAIN tx : tx[k].type = "Connect" => k = 1

\* step() never writes to a transport that has been closed: a handler that
\* ended the session, or replaced it, while step() was receiving leaves
\* nothing for the second pump_tx() to send.
NoSendOnClosed ==
    Top \in {"flush", "reflush"} /\ tx # <<>> => link = "open"

\* There is one step() at a time, so a handler never drains the buffer its
\* own packet is in.
OneStepAtATime ==
    /\ Cardinality({k \in DOMAIN stack : stack[k] \in StepFrame}) = IF inStep THEN 1 ELSE 0
    /\ \A k \in DOMAIN stack : stack[k] = "handled" => rx # <<>> \/ state \in {"Idle", "Connecting"}

\* "Any other value means the session has just ended and the same value was
\* passed to the on_disconnect handler": what step() reports, on_disconnect
\* has been told during that same step(), and the session is not still up.
StepReportsReason ==
    Top = "return" /\ result # "Ok" => result \in notified

-----------------------------------------------------------------------------
(* What a step may never do.                                               *)

\* A message handler is only ever started on a live session: a handler that
\* ends the session stops the fan-out of dispatch() and the rest of the drain.
MessagesOnlyWhenConnected ==
    [][Len(stack') > Len(stack) /\ stack'[Len(stack')] = "on_message" => state = "Connected"]_vars

Acknowledged(i) ==
    /\ Top = "drain" /\ rx # <<>>
    /\ \/ outbound[i].phase = "WaitPuback" /\ Head(rx) = Ack("Puback", outbound[i].id)
       \/ outbound[i].phase = "WaitPubcomp" /\ Head(rx) = Ack("Pubcomp", outbound[i].id)

\* reset_session_state(): everything goes, between sessions.
Discarded == state = "Idle" /\ outbound' = NoOutbound /\ inboundIds' = {} /\ nextPacketId' = 0

SlotsKept ==
    \A i \in OutSlot : Busy(i) /\ outbound'[i].phase = "Free" =>
       Acknowledged(i) \/ (clean /\ state' = "Idle") \/ Discarded

\* A tracked PUBLISH leaves its slot only when the acknowledgement of its last
\* phase is handled, when a clean session ends, or when connect() asks for a
\* clean session and all of the old one goes with it (also if that connect()
\* then fails): no timeout, disconnect or reconnect of a persistent session
\* loses one.
InflightKept == [][SlotsKept]_vars

-----------------------------------------------------------------------------
(* Liveness.                                                               *)

\* step() returns however much the peer keeps sending: the budget of recv()
\* rounds bounds the receive loop.
StepReturns == inStep ~> ~inStep
=============================================================================
