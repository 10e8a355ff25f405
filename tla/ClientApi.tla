----------------------------- MODULE ClientApi ------------------------------
(***************************************************************************)
(* The calls an application makes, from its loop or from inside a handler: *)
(* connect(), disconnect(), abort(), publish(), subscribe(),               *)
(* unsubscribe() and step().                                               *)
(*                                                                         *)
(* A call that is refused and changes nothing is a stuttering step and has *)
(* no action: AlreadyConnected, NotConnected, Reentrant, a full table, a   *)
(* QoS 0 publish that does not fit.  A call that is refused after it       *)
(* changed something has one.                                              *)
(***************************************************************************)
EXTENDS ClientState

CONSTANTS
    ConnectSize,    \* encoded lengths of the CONNECTs the application builds
    PublishSize     \* encoded lengths of the PUBLISHes the application builds

ASSUME ApiAssumption == ConnectSize \subseteq Size /\ PublishSize \subseteq Size

\* The application is running and makes this call.  A message handler runs
\* while the subscription table is walked and may not touch the table.
Calls(call) ==
    \/ Top = "app" /\ call \in LoopCalls
    \/ /\ Top \in Handler
       /\ call \in HandlerCalls
       /\ Top = "on_message" => call \notin {"subscribe", "unsubscribe"}
       /\ Cardinality({k \in DOMAIN stack : stack[k] \in Handler}) <= MaxDepth

-----------------------------------------------------------------------------

\* connect(): what happens before the CONNECT is queued.
ConnectReset(wantClean) ==
    /\ rx' = <<>>
    /\ outbound' = IF wantClean THEN NoOutbound ELSE outbound
    /\ inboundIds' = IF wantClean THEN {} ELSE inboundIds
    /\ pending' = IF wantClean THEN <<>> ELSE pending
    /\ nextPacketId' = IF wantClean THEN 0 ELSE nextPacketId
    /\ subscriptions' = IF wantClean THEN MarkAllForResub ELSE subscriptions

ApiConnect(wantClean, size) ==
    /\ Calls("connect")
    /\ state = "Idle"
    /\ ConnectReset(wantClean)
    /\ IF size <= TxCapacity
       THEN /\ tx' = <<Connect(wantClean, size)>>
            /\ txSent' = 0
            /\ txBytes' = size
            /\ clean' = wantClean
            /\ lastError' = "Ok"
            /\ ping' = FALSE
            /\ state' = "Connecting"
       ELSE /\ ClearTx
            /\ UNCHANGED <<clean, lastError, ping, state>>
    /\ UNCHANGED <<control, link, rounds, fanout, retransmitNow, forced, cursor, nextSubId>>

\* disconnect() that queues a DISCONNECT and leaves the closing to step().
ApiDisconnect ==
    /\ Calls("disconnect")
    /\ state = "Connected"
    /\ Enqueue(Empty("Disconnect"))
    /\ state' = "Disconnecting"
    /\ UNCHANGED <<control, lastError, clean, link, receive, timers, delivery, nextPacketId, requests>>

\* disconnect() that closes at once: nothing established yet, a DISCONNECT
\* already queued, or no room to queue one.
ApiDisconnectHard ==
    /\ Calls("disconnect")
    /\ state # "Idle"
    /\ state = "Connected" => ~Fits(Empty("Disconnect"))
    /\ Shutdown("Ok", stack)
    /\ UNCHANGED <<inStep, result, rounds, fanout, forced, cursor>>

ApiAbort ==
    /\ Calls("abort")
    /\ Shutdown("TransportClosed", stack)
    /\ UNCHANGED <<inStep, result, rounds, fanout, forced, cursor>>

-----------------------------------------------------------------------------

\* publish() at QoS 0.
PublishQos0(msg, size) ==
    /\ Calls("publish")
    /\ state = "Connected"
    /\ Enqueue(Publish(0, 0, msg, FALSE, size))
    /\ UNCHANGED <<control, session, receive, timers, delivery, nextPacketId, requests>>

\* publish() at QoS 1 or 2.  The identifier is spent before the packet is
\* known to fit the slot and the queue.
PublishTracked(qos, msg, size) ==
    LET packet == Publish(NewPacketId, qos, msg, FALSE, size) IN
    /\ Calls("publish")
    /\ state = "Connected"
    /\ \E i \in FreeOutboundSlot :
         /\ AdvancePacketId
         /\ IF NewPacketId # 0 /\ size <= MaxPersisted /\ Fits(packet)
            THEN /\ Enqueue(packet)
                 /\ outbound' = [outbound EXCEPT ![i] =
                      [phase |-> IF qos = 1 THEN "WaitPuback" ELSE "WaitPubrec",
                       id |-> NewPacketId, msg |-> msg, dup |-> FALSE, size |-> size]]
            ELSE UNCHANGED <<queue, outbound>>
    /\ UNCHANGED <<control, session, receive, timers, inboundIds, requests>>

-----------------------------------------------------------------------------

\* A request is tracked once it is queued; its identifier is spent either way.
Request(packet, ack) ==
    /\ AdvancePacketId
    /\ IF NewPacketId # 0 /\ Fits(packet)
       THEN Enqueue(packet) /\ pending' = Append(pending, ack)
       ELSE UNCHANGED <<queue, pending>>

\* subscribe(topics, handler)
ApiSubscribe(topics, handler) ==
    LET filters == [k \in DOMAIN topics |-> topics[k].filter]
        asked   == {filters[k] : k \in DOMAIN filters}
        qos(f)  == topics[CHOOSE k \in DOMAIN topics :
                            filters[k] = f /\ \A j \in DOMAIN topics : filters[j] = f => j <= k].qos
        packet  == Subscribe(NewPacketId, topics)
    IN
    /\ Calls("subscribe")
    /\ state = "Connected"
    /\ Len(topics) \in 1 .. MaxTopics
    /\ ~AckTableFull
    /\ Cardinality(Subscribed) + Cardinality({k \in DOMAIN filters : filters[k] \notin Subscribed})
         <= MaxSubscriptions
    /\ \E ids \in NewSubIds(filters) :
         LET sub(f) == IF f \in Subscribed THEN subscriptions[f].sub ELSE ids[f] IN
         /\ Request(packet, [id |-> NewPacketId, expected |-> "Suback",
                             subs |-> [k \in DOMAIN filters |-> sub(filters[k])]])
         /\ IF NewPacketId # 0 /\ Fits(packet)
            THEN /\ subscriptions' = [f \in Filter |->
                       IF f \in asked
                       THEN [sub |-> sub(f), qos |-> qos(f), handler |-> handler, resub |-> FALSE]
                       ELSE subscriptions[f]]
                 /\ AdvanceSubId(ids)
            ELSE UNCHANGED <<subscriptions, nextSubId>>
    /\ UNCHANGED <<control, session, receive, timers, delivery>>

\* unsubscribe(filters): a filter that is not in the table goes on the wire
\* and names no entry; in subs it is a 0, which no entry has for its sub_id.
ApiUnsubscribe(filters) ==
    /\ Calls("unsubscribe")
    /\ state = "Connected"
    /\ Len(filters) \in 1 .. MaxTopics
    /\ ~AckTableFull
    /\ Request(Unsubscribe(NewPacketId, filters),
               [id |-> NewPacketId, expected |-> "Unsuback",
                subs |-> [k \in DOMAIN filters |-> subscriptions[filters[k]].sub]])
    /\ UNCHANGED <<control, session, receive, timers, delivery, subscriptions, nextSubId>>

-----------------------------------------------------------------------------

\* Faulty variant of Step: a handler can run it inside a running one.
StepReentrant ==
    /\ Calls("step")
    /\ state # "Idle"
    /\ inStep' = TRUE
    /\ notified' = {}
    /\ stack' = Enter(stack, IF state = "Connecting" THEN "connect" ELSE "flush")
    /\ UNCHANGED <<result, session, queue, receive, timers, delivery, nextPacketId, requests>>

\* step(): refused from inside a running step(), and over at once when Idle.
Step ==
    /\ Calls("step")
    /\ ~inStep
    /\ state # "Idle"
    /\ inStep' = TRUE
    /\ notified' = {}
    /\ stack' = Enter(stack, IF state = "Connecting" THEN "connect" ELSE "flush")
    /\ UNCHANGED <<result, session, queue, receive, timers, delivery, nextPacketId, requests>>

\* step() hands its result to the caller.
StepReturn ==
    /\ Top = "return"
    /\ stack' = Leave
    /\ inStep' = FALSE
    /\ result' = "Ok"
    /\ notified' = {}
    /\ rounds' = 0 /\ fanout' = 0 /\ forced' = FALSE /\ cursor' = 1
    /\ UNCHANGED <<session, queue, rx, ping, retransmitNow, delivery, nextPacketId, requests>>
=============================================================================
